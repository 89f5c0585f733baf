----------------------------- MODULE RunDriver -----------------------------
(***************************************************************************)
(* The script src/src/mpimemu-run: from a growth function it computes the  *)
(* sizes of a series of jobs, runs them one after another, and keeps the   *)
(* output of each in a log of its own, in a data directory of its own.     *)
(* Drivers started by one user on one day over one prefix compete for the  *)
(* names of data directories: name 0 is the plain one, name k ends in -k.  *)
(*                                                                         *)
(* The growth function is an expression in X the user gives; here it is a  *)
(* function on the indices up to IndexBound.  A function that never passes *)
(* the maximum keeps the real driver in its loop for ever; here it stops   *)
(* at the bound, without ever running a job.                               *)
(*                                                                         *)
(* A Bug_ operator is the definition after it with a plausible slip; no    *)
(* specification uses it.  README.md says which property notices it.       *)
(***************************************************************************)
EXTENDS Integers, Sequences

CONSTANTS
  Driver,      \* the drivers, their process ids
  IndexBound,  \* bound on X
  NameBound,   \* bound on the numbers of data directories
  Setups,      \* the environments drivers may be started in
  None         \* not a driver: no lock file, no directory

Index == 0..IndexBound
Name == 0..NameBound

(* What get_setup makes of the environment.  env: the required variables   *)
(* are there (a maximum of 0 counts as missing); hasX: the function has an *)
(* X in it; template: the run command has nnn and aaa in it.               *)
Setup == [fun : [Index -> Nat], start : Index, max : Nat \ {0},
          env : BOOLEAN, hasX : BOOLEAN, template : BOOLEAN]

ASSUME IndexBoundAssumption == IndexBound \in Nat
ASSUME NameBoundAssumption == NameBound \in Nat
ASSUME SetupsAssumption == \A s \in Setups : s \in Setup
ASSUME NoneAssumption == None \notin Driver

VARIABLES
  setup,    \* %setup of each driver
  pc,       \* where in the script it is; "dead" after exit(1) or die
  tried,    \* the name make_datadir looks at, its own from "lock" on
  lock,     \* the pid in the lock file of each directory that has one
  dirs,     \* the data directories there are
  x,        \* $i of get_numpes
  numpes,   \* @numpes
  runs,     \* how many jobs have been started
  logs      \* by directory, the outcome of each size that has a log

vars == <<setup, pc, tried, lock, dirs, x, numpes, runs, logs>>

Outcome == {"open", "whole", "failed"}

Init ==
  /\ setup \in [Driver -> Setups]
  /\ pc = [d \in Driver |-> "setup"]
  /\ tried = [d \in Driver |-> 0]
  /\ lock = [n \in Name |-> None]
  /\ dirs = {}
  /\ x = [d \in Driver |-> setup[d].start]
  /\ numpes = [d \in Driver |-> <<>>]
  /\ runs = [d \in Driver |-> 0]
  /\ logs = [n \in Name |-> <<>>]

Goto(d, where) == pc' = [pc EXCEPT ![d] = where]

Die(d) ==
  /\ Goto(d, "dead")
  /\ UNCHANGED <<setup, tried, lock, dirs, x, numpes, runs, logs>>

-----------------------------------------------------------------------------
(* get_setup and make_datadir *)

GetSetup(d) ==
  /\ pc[d] = "setup"
  /\ setup[d].env
  /\ Goto(d, "probe")
  /\ UNCHANGED <<setup, tried, lock, dirs, x, numpes, runs, logs>>

NoSetup(d) == pc[d] = "setup" /\ ~setup[d].env /\ Die(d)

Bug_Taken(d) ==
  /\ pc[d] = "probe"
  /\ tried[d] \in dirs
  /\ UNCHANGED vars

Taken(d) ==
  /\ pc[d] = "probe"
  /\ tried[d] \in dirs
  /\ tried[d] < NameBound
  /\ tried' = [tried EXCEPT ![d] = @ + 1]
  /\ UNCHANGED <<setup, pc, lock, dirs, x, numpes, runs, logs>>

Free(d) ==
  /\ pc[d] = "probe"
  /\ tried[d] \notin dirs
  /\ Goto(d, "mkdir")
  /\ UNCHANGED <<setup, tried, lock, dirs, x, numpes, runs, logs>>

Bug_MakeDir(d) ==
  /\ pc[d] = "mkdir"
  /\ dirs' = dirs \union {tried[d]}
  /\ Goto(d, "lock")
  /\ UNCHANGED <<setup, tried, lock, x, numpes, runs, logs>>

MakeDir(d) ==
  /\ pc[d] = "mkdir"
  /\ tried[d] \notin dirs
  /\ dirs' = dirs \union {tried[d]}
  /\ Goto(d, "lock")
  /\ UNCHANGED <<setup, tried, lock, x, numpes, runs, logs>>

(* Another driver has made the directory since this one looked.            *)
MakeDirFails(d) == pc[d] = "mkdir" /\ tried[d] \in dirs /\ Die(d)

(* The test for a foreign lock file is -x, "is executable", which no lock  *)
(* file is: it lets everyone pass, and the file is written.                *)
Lock(d) ==
  /\ pc[d] = "lock"
  /\ lock' = [lock EXCEPT ![tried[d]] = d]
  /\ Goto(d, "sizes")
  /\ UNCHANGED <<setup, tried, dirs, x, numpes, runs, logs>>

-----------------------------------------------------------------------------
(* get_numpes *)

BadFunction(d) == pc[d] = "sizes" /\ ~setup[d].hasX /\ Die(d)

CurNumpe(d) == setup[d].fun[x[d]]

Collect(d) ==
  /\ pc[d] = "sizes"
  /\ setup[d].hasX
  /\ CurNumpe(d) <= setup[d].max
  /\ x[d] < IndexBound
  /\ numpes' = [numpes EXCEPT ![d] = Append(@, CurNumpe(d))]
  /\ x' = [x EXCEPT ![d] = @ + 1]
  /\ UNCHANGED <<setup, pc, tried, lock, dirs, runs, logs>>

WithoutZero(s) == IF Len(s) > 0 /\ s[1] = 0 THEN Tail(s) ELSE s

Bug_WithMax(s, max) == Append(s, max)

WithMax(s, max) == IF Len(s) = 0 \/ s[Len(s)] # max THEN Append(s, max) ELSE s

FinishSizes(d) ==
  /\ pc[d] = "sizes"
  /\ setup[d].hasX
  /\ CurNumpe(d) > setup[d].max
  /\ numpes' = [numpes EXCEPT ![d] = WithMax(WithoutZero(@), setup[d].max)]
  /\ Goto(d, "next")
  /\ UNCHANGED <<setup, tried, lock, dirs, x, runs, logs>>

-----------------------------------------------------------------------------
(* The loop of run *)

Written(l, size, outcome) ==
  [n \in DOMAIN l \union {size} |-> IF n = size THEN outcome ELSE l[n]]

(* The size of the current run, and its log with the given outcome: opening *)
(* a log empties it.                                                       *)
Size(d) == numpes[d][runs[d]]

WriteLog(d, size, outcome) ==
  logs' = [logs EXCEPT ![tried[d]] = Written(@, size, outcome)]

StartRun(d) ==
  /\ pc[d] = "next"
  /\ runs[d] < Len(numpes[d])
  /\ setup[d].template
  /\ runs' = [runs EXCEPT ![d] = @ + 1]
  /\ WriteLog(d, numpes[d][runs[d] + 1], "open")
  /\ Goto(d, "run")
  /\ UNCHANGED <<setup, tried, lock, dirs, x, numpes>>

(* The run command has no nnn or aaa; or it, or the log, cannot be opened. *)
StartFails(d) == pc[d] = "next" /\ runs[d] < Len(numpes[d]) /\ Die(d)

RunEnds(d) ==
  /\ pc[d] = "run"
  /\ WriteLog(d, Size(d), "whole")
  /\ Goto(d, "next")
  /\ UNCHANGED <<setup, tried, lock, dirs, x, numpes, runs>>

Bug_RunFails(d) ==
  /\ pc[d] = "run"
  /\ WriteLog(d, Size(d), "failed")
  /\ Goto(d, "next")
  /\ UNCHANGED <<setup, tried, lock, dirs, x, numpes, runs>>

(* The job exits with failure, so close(OUTFILE) does not succeed.  What   *)
(* it has printed is in its log; the driver dies.                          *)
RunFails(d) ==
  /\ pc[d] = "run"
  /\ WriteLog(d, Size(d), "failed")
  /\ Goto(d, "dead")
  /\ UNCHANGED <<setup, tried, lock, dirs, x, numpes, runs>>

Finish(d) ==
  /\ pc[d] = "next"
  /\ runs[d] = Len(numpes[d])
  /\ Goto(d, "done")
  /\ UNCHANGED <<setup, tried, lock, dirs, x, numpes, runs, logs>>

-----------------------------------------------------------------------------
Step(d) ==
  \/ GetSetup(d)
  \/ NoSetup(d)
  \/ Taken(d)
  \/ Free(d)
  \/ MakeDir(d)
  \/ MakeDirFails(d)
  \/ Lock(d)
  \/ BadFunction(d)
  \/ Collect(d)
  \/ FinishSizes(d)
  \/ StartRun(d)
  \/ StartFails(d)
  \/ RunEnds(d)
  \/ RunFails(d)
  \/ Finish(d)

Next == \E d \in Driver : Step(d)

Spec == Init /\ [][Next]_vars

(* A script that is not killed runs on, and so do its jobs (mpimemu's own  *)
(* jobs end: Mpimemu!JobEnds).                                             *)
FairSpec == Spec /\ \A d \in Driver : WF_vars(Step(d))

-----------------------------------------------------------------------------
TypeOK ==
  /\ setup \in [Driver -> Setups]
  /\ pc \in [Driver -> {"setup", "probe", "mkdir", "lock", "sizes", "next",
                        "run", "done", "dead"}]
  /\ tried \in [Driver -> Name]
  /\ lock \in [Name -> Driver \union {None}]
  /\ dirs \subseteq Name
  /\ x \in [Driver -> Index]
  /\ numpes \in [Driver -> Seq(Nat)]
  /\ runs \in [Driver -> Nat]
  /\ DOMAIN logs = Name
  /\ \A n \in Name : logs[n] \in [DOMAIN logs[n] -> Outcome]

Working(d) == pc[d] \in {"sizes", "next", "run", "done"}

(* "protect against some other job from dumping data into this directory"  *)
(* (mpimemu-run:105): while a driver works in a directory its own pid is   *)
(* in the lock file, and no log there is of a size other than those it has *)
(* started.  The lock file is never looked at: mkdir decides the race      *)
(* between looking for a free name and taking it.                          *)
OwnDirectory ==
  \A d \in Driver :
    Working(d) =>
      /\ lock[tried[d]] = d
      /\ DOMAIN logs[tried[d]] \subseteq {numpes[d][k] : k \in 1..runs[d]}

(* A function that "determines how nnn grows with respect to X"            *)
(* (README.md:121).                                                        *)
Growing(s) == \A a \in Index, b \in Index : a < b => s.fun[a] < s.fun[b]

(* The sizes run grow strictly from one to the maximum, which is always    *)
(* run: no job of no processes, no size run twice (its log would replace   *)
(* that of the first).                                                     *)
SizesGrowToMax ==
  \A d \in Driver :
    (Growing(setup[d]) /\ pc[d] \in {"next", "run", "done"}) =>
      LET s == numpes[d] IN
        /\ Len(s) > 0
        /\ s[Len(s)] = setup[d].max
        /\ \A k \in 1..Len(s) : s[k] > 0
        /\ \A j \in 1..Len(s), k \in 1..Len(s) : j < k => s[j] < s[k]

(* Every run started has its log, every run but the last is whole, and a   *)
(* series that is done has a whole log for every size: after a failed run  *)
(* there is none, so logs that look complete are.                          *)
SeriesInOrder ==
  \A d \in Driver :
    (Growing(setup[d]) /\ Working(d)) =>
      LET l == logs[tried[d]]  s == numpes[d] IN
        /\ runs[d] <= Len(s)
        /\ \A k \in 1..runs[d] :
             /\ s[k] \in DOMAIN l
             /\ l[s[k]] = IF k = runs[d] /\ pc[d] = "run" THEN "open" ELSE "whole"
        /\ pc[d] = "done" => runs[d] = Len(s)

(* A driver with a growing function ends, done or with an error, whatever  *)
(* becomes of its jobs and of other drivers.                               *)
SeriesEnds ==
  \A d \in Driver : Growing(setup[d]) => <>(pc[d] \in {"done", "dead"})

=============================================================================
