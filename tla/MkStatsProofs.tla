--------------------------- MODULE MkStatsProofs ---------------------------
(***************************************************************************)
(* What is proved of RunDriver for any drivers, environments and bounds,   *)
(* and of MkStats for any readers beside them.                             *)
(***************************************************************************)
EXTENDS MkStats, FiniteSetTheorems, SequenceTheorems, TLAPS

-----------------------------------------------------------------------------
(* The drivers. *)

(***************************************************************************)
(* The inductive invariant: who holds a directory, and what is in it.      *)
(***************************************************************************)

(* Nothing is computed before the data directory is there.                 *)
Fresh(d) ==
  /\ pc[d] \in {"setup", "probe", "mkdir", "lock"} =>
       numpes[d] = <<>> /\ x[d] = setup[d].start
  /\ pc[d] \in {"setup", "probe", "mkdir", "lock", "sizes"} => runs[d] = 0
  /\ runs[d] <= Len(numpes[d])
  /\ pc[d] = "run" => runs[d] > 0

Holds(d) == pc[d] = "lock" \/ Working(d)

(* A held directory is there and held by one; one just made, or not there  *)
(* yet, has no logs.                                                       *)
Apart ==
  /\ \A d \in Driver : Holds(d) => tried[d] \in dirs
  /\ \A d \in Driver, e \in Driver :
       Holds(d) /\ Holds(e) /\ tried[d] = tried[e] => d = e

NewIsEmpty ==
  /\ \A n \in Name : n \notin dirs => DOMAIN logs[n] = {}
  /\ \A d \in Driver : pc[d] = "lock" => DOMAIN logs[tried[d]] = {}

DirInv ==
  /\ TypeOK
  /\ \A d \in Driver : Fresh(d)
  /\ Apart
  /\ NewIsEmpty
  /\ OwnDirectory

-----------------------------------------------------------------------------
(* What opening or closing a log leaves in a directory.                    *)
LEMMA WrittenLog ==
  ASSUME NEW l, NEW size, NEW outcome \in Outcome, l \in [DOMAIN l -> Outcome]
  PROVE  /\ DOMAIN Written(l, size, outcome) = DOMAIN l \union {size}
         /\ Written(l, size, outcome)[size] = outcome
         /\ \A n \in DOMAIN l : n # size => Written(l, size, outcome)[n] = l[n]
         /\ Written(l, size, outcome) \in [DOMAIN Written(l, size, outcome) -> Outcome]
BY DEF Written

LEMMA WriteLogEffect ==
  ASSUME TypeOK, NEW d \in Driver, NEW size, NEW outcome \in Outcome,
         WriteLog(d, size, outcome)
  PROVE  /\ DOMAIN logs' = Name
         /\ \A n \in Name : logs'[n] \in [DOMAIN logs'[n] -> Outcome]
         /\ \A n \in Name : n # tried[d] => logs'[n] = logs[n]
         /\ logs'[tried[d]] = Written(logs[tried[d]], size, outcome)
<1>1. /\ tried[d] \in Name /\ DOMAIN logs = Name
      /\ logs[tried[d]] \in [DOMAIN logs[tried[d]] -> Outcome]
  BY DEF TypeOK
<1>2. /\ DOMAIN logs' = Name
      /\ \A n \in Name : n # tried[d] => logs'[n] = logs[n]
      /\ logs'[tried[d]] = Written(logs[tried[d]], size, outcome)
  BY <1>1 DEF WriteLog
<1>3. Written(logs[tried[d]], size, outcome) \in
        [DOMAIN Written(logs[tried[d]], size, outcome) -> Outcome]
  BY <1>1, WrittenLog
<1> QED
  BY <1>1, <1>2, <1>3 DEF TypeOK

(* The sizes at the end are still numbers, at least as many as needed.     *)
LEMMA FinishedSizes ==
  ASSUME NEW s \in Seq(Nat), NEW max \in Nat
  PROVE  /\ WithoutZero(s) \in Seq(Nat)
         /\ WithMax(s, max) \in Seq(Nat)
         /\ Len(WithMax(s, max)) > 0
         /\ WithMax(s, max)[Len(WithMax(s, max))] = max
         /\ Len(WithMax(s, max)) >= Len(s)
         /\ \A k \in 1..Len(s) : WithMax(s, max)[k] = s[k]
         /\ Len(WithMax(s, max)) \in {Len(s), Len(s) + 1}
BY DEF WithoutZero, WithMax

(* The environment of a driver.                                            *)
LEMMA SetupTypes ==
  ASSUME TypeOK, NEW d \in Driver
  PROVE  /\ setup[d].fun \in [Index -> Nat]
         /\ setup[d].start \in Index
         /\ setup[d].max \in Nat /\ setup[d].max > 0
BY SetupsAssumption DEF TypeOK, Setup

LEMMA InitDirInv == Init => DirInv
<1> SUFFICES ASSUME Init PROVE DirInv
  OBVIOUS
<1>1. TypeOK
  <2>1. \A d \in Driver : setup[d].start \in Index
    <3> SUFFICES ASSUME NEW d \in Driver PROVE setup[d].start \in Index
      OBVIOUS
    <3>1. setup[d] \in Setups
      BY DEF Init
    <3> QED
      BY <3>1, SetupsAssumption DEF Setup
  <2> QED
    BY <2>1, NameBoundAssumption DEF Init, TypeOK, Index, Name
<1>2. \A d \in Driver : Fresh(d)
  <2> SUFFICES ASSUME NEW d \in Driver PROVE Fresh(d)
    OBVIOUS
  <2>1. /\ numpes[d] = <<>> /\ runs[d] = 0 /\ pc[d] = "setup"
        /\ x[d] = setup[d].start
    BY DEF Init
  <2> QED
    BY <2>1 DEF Fresh
<1>3. Apart /\ NewIsEmpty /\ OwnDirectory
  BY NameBoundAssumption DEF Init, Apart, NewIsEmpty, OwnDirectory, Holds, Working, Name
<1> QED
  BY <1>1, <1>2, <1>3 DEF DirInv

(* Types, one action at a time. *)
LEMMA StepTypes ==
  ASSUME DirInv, NEW d \in Driver, Step(d)
  PROVE  TypeOK'
<1> USE DEF DirInv, TypeOK, Goto
<1>1. CASE GetSetup(d) BY <1>1 DEF GetSetup
<1>2. CASE NoSetup(d) BY <1>2 DEF NoSetup, Die
<1>3. CASE Taken(d) BY <1>3, NameBoundAssumption DEF Taken, Name
<1>4. CASE Free(d) BY <1>4 DEF Free
<1>5. CASE MakeDir(d) BY <1>5 DEF MakeDir
<1>6. CASE MakeDirFails(d) BY <1>6 DEF MakeDirFails, Die
<1>7. CASE Lock(d) BY <1>7 DEF Lock
<1>8. CASE BadFunction(d) BY <1>8 DEF BadFunction, Die
<1>9. CASE Collect(d)
  <2>1. CurNumpe(d) \in Nat
    BY SetupTypes DEF CurNumpe
  <2> QED
    BY <1>9, <2>1, IndexBoundAssumption DEF Collect, Index
<1>10. CASE FinishSizes(d)
  <2>1. WithMax(WithoutZero(numpes[d]), setup[d].max) \in Seq(Nat)
    BY SetupTypes, FinishedSizes
  <2> QED
    BY <1>10, <2>1 DEF FinishSizes
<1>11. CASE StartRun(d)
  <2>1. /\ DOMAIN logs' = Name
        /\ \A n \in Name : logs'[n] \in [DOMAIN logs'[n] -> Outcome]
    BY <1>11, WriteLogEffect DEF StartRun, Outcome
  <2> QED
    BY <1>11, <2>1 DEF StartRun
<1>12. CASE StartFails(d) BY <1>12 DEF StartFails, Die
<1>13. CASE RunEnds(d)
  <2>1. /\ DOMAIN logs' = Name
        /\ \A n \in Name : logs'[n] \in [DOMAIN logs'[n] -> Outcome]
    BY <1>13, WriteLogEffect DEF RunEnds, Outcome
  <2> QED
    BY <1>13, <2>1 DEF RunEnds
<1>14. CASE RunFails(d)
  <2>1. /\ DOMAIN logs' = Name
        /\ \A n \in Name : logs'[n] \in [DOMAIN logs'[n] -> Outcome]
    BY <1>14, WriteLogEffect DEF RunFails, Outcome
  <2> QED
    BY <1>14, <2>1 DEF RunFails
<1>15. CASE Finish(d) BY <1>15 DEF Finish
<1> QED
  BY <1>1, <1>2, <1>3, <1>4, <1>5, <1>6, <1>7, <1>8, <1>9, <1>10, <1>11,
     <1>12, <1>13, <1>14, <1>15 DEF Step

(* A step of one driver leaves the variables of the others alone, and its  *)
(* own environment.                                                        *)
LEMMA StepOthers ==
  ASSUME TypeOK, NEW d \in Driver, Step(d)
  PROVE  /\ setup' = setup
         /\ \A e \in Driver : e # d =>
              /\ pc'[e] = pc[e] /\ tried'[e] = tried[e] /\ x'[e] = x[e]
              /\ numpes'[e] = numpes[e] /\ runs'[e] = runs[e]
<1> USE DEF TypeOK, Goto
<1>1. CASE GetSetup(d) BY <1>1 DEF GetSetup
<1>2. CASE NoSetup(d) BY <1>2 DEF NoSetup, Die
<1>3. CASE Taken(d) BY <1>3 DEF Taken
<1>4. CASE Free(d) BY <1>4 DEF Free
<1>5. CASE MakeDir(d) BY <1>5 DEF MakeDir
<1>6. CASE MakeDirFails(d) BY <1>6 DEF MakeDirFails, Die
<1>7. CASE Lock(d) BY <1>7 DEF Lock
<1>8. CASE BadFunction(d) BY <1>8 DEF BadFunction, Die
<1>9. CASE Collect(d) BY <1>9 DEF Collect
<1>10. CASE FinishSizes(d) BY <1>10 DEF FinishSizes
<1>11. CASE StartRun(d) BY <1>11 DEF StartRun
<1>12. CASE StartFails(d) BY <1>12 DEF StartFails, Die
<1>13. CASE RunEnds(d) BY <1>13 DEF RunEnds
<1>14. CASE RunFails(d) BY <1>14 DEF RunFails
<1>15. CASE Finish(d) BY <1>15 DEF Finish
<1> QED
  BY <1>1, <1>2, <1>3, <1>4, <1>5, <1>6, <1>7, <1>8, <1>9, <1>10, <1>11,
     <1>12, <1>13, <1>14, <1>15 DEF Step

(* Nor does it touch the directories of the others: what it writes is in   *)
(* the one it has in hand.                                                 *)
LEMMA StepElsewhere ==
  ASSUME TypeOK, NEW d \in Driver, Step(d)
  PROVE  /\ dirs \subseteq dirs'
         /\ \A n \in Name : n # tried[d] => lock'[n] = lock[n] /\ logs'[n] = logs[n]
         /\ \A n \in dirs' : n \in dirs \/ n = tried[d]
         /\ ~Holds(d) => lock' = lock /\ logs' = logs
<1> USE DEF TypeOK, Goto, Holds, Working
<1>1. CASE GetSetup(d) BY <1>1 DEF GetSetup
<1>2. CASE NoSetup(d) BY <1>2 DEF NoSetup, Die
<1>3. CASE Taken(d) BY <1>3 DEF Taken
<1>4. CASE Free(d) BY <1>4 DEF Free
<1>5. CASE MakeDir(d) BY <1>5 DEF MakeDir
<1>6. CASE MakeDirFails(d) BY <1>6 DEF MakeDirFails, Die
<1>7. CASE Lock(d) BY <1>7 DEF Lock
<1>8. CASE BadFunction(d) BY <1>8 DEF BadFunction, Die
<1>9. CASE Collect(d) BY <1>9 DEF Collect
<1>10. CASE FinishSizes(d) BY <1>10 DEF FinishSizes
<1>11. CASE StartRun(d) BY <1>11, WriteLogEffect DEF StartRun, Outcome
<1>12. CASE StartFails(d) BY <1>12 DEF StartFails, Die
<1>13. CASE RunEnds(d) BY <1>13, WriteLogEffect DEF RunEnds, Outcome
<1>14. CASE RunFails(d) BY <1>14, WriteLogEffect DEF RunFails, Outcome
<1>15. CASE Finish(d) BY <1>15 DEF Finish
<1> QED
  BY <1>1, <1>2, <1>3, <1>4, <1>5, <1>6, <1>7, <1>8, <1>9, <1>10, <1>11,
     <1>12, <1>13, <1>14, <1>15 DEF Step

(* What a driver that holds its directory after a step has of it.          *)
Kept(d) ==
  /\ Fresh(d)
  /\ Holds(d) => tried[d] \in dirs
  /\ pc[d] = "lock" => DOMAIN logs[tried[d]] = {}
  /\ Working(d) =>
       /\ lock[tried[d]] = d
       /\ DOMAIN logs[tried[d]] \subseteq {numpes[d][k] : k \in 1..runs[d]}
  /\ \A e \in Driver : e # d /\ Holds(d) /\ Holds(e) => tried[d] # tried[e]
  /\ \A n \in Name : n \notin dirs => DOMAIN logs[n] = {}

(* The log of a run that ends has been there since it began.               *)
LEMMA RunLogged ==
  ASSUME DirInv, NEW d \in Driver, NEW outcome \in Outcome,
         pc[d] = "run", WriteLog(d, Size(d), outcome)
  PROVE  /\ \A n \in Name : n # tried[d] => logs'[n] = logs[n]
         /\ DOMAIN logs'[tried[d]] \subseteq {numpes[d][k] : k \in 1..runs[d]}
<1>1. /\ \A n \in Name : n # tried[d] => logs'[n] = logs[n]
      /\ logs'[tried[d]] = Written(logs[tried[d]], Size(d), outcome)
  BY WriteLogEffect DEF DirInv
<1>2. DOMAIN logs'[tried[d]] = DOMAIN logs[tried[d]] \union {Size(d)}
  BY <1>1 DEF Written
<1>3. runs[d] \in Nat /\ runs[d] > 0
  BY DEF DirInv, TypeOK, Fresh
<1>4. DOMAIN logs[tried[d]] \subseteq {numpes[d][k] : k \in 1..runs[d]}
  BY DEF DirInv, OwnDirectory, Working
<1> QED
  BY <1>1, <1>2, <1>3, <1>4 DEF Size

(* Writing the log of a run disturbs nothing else.                         *)
LEMMA KeptInRun ==
  ASSUME DirInv, NEW d \in Driver, Working(d),
         tried' = tried, lock' = lock, dirs' = dirs,
         \A e \in Driver : e # d => pc'[e] = pc[e],
         \A n \in Name : n # tried[d] => logs'[n] = logs[n],
         DOMAIN logs'[tried[d]] \subseteq {numpes'[d][k] : k \in 1..runs'[d]},
         Fresh(d)', pc'[d] # "lock"
  PROVE  Kept(d)'
<1>1. tried[d] \in dirs /\ lock[tried[d]] = d
  BY DEF DirInv, Apart, OwnDirectory, Holds
<1>2. \A e \in Driver : e # d /\ Holds(e)' => tried[d] # tried[e]
  BY DEF DirInv, Apart, Holds, Working
<1>3. \A n \in Name : n \notin dirs' => DOMAIN logs'[n] = {}
  BY <1>1 DEF DirInv, NewIsEmpty
<1>4. (Holds(d) => tried[d] \in dirs)'
  BY <1>1
<1>5. (Working(d) => /\ lock[tried[d]] = d
                     /\ DOMAIN logs[tried[d]] \subseteq {numpes[d][k] : k \in 1..runs[d]})'
  BY <1>1
<1>6. (pc[d] = "lock" => DOMAIN logs[tried[d]] = {})'
  OBVIOUS
<1> QED
  BY <1>2, <1>3, <1>4, <1>5, <1>6 DEF Kept

LEMMA StepKept ==
  ASSUME DirInv, NEW d \in Driver, Step(d)
  PROVE  Kept(d)'
<1>0. \A e \in Driver : e # d => pc'[e] = pc[e] /\ tried'[e] = tried[e]
  BY StepOthers DEF DirInv
<1> USE <1>0 DEF DirInv, TypeOK, Goto, Fresh, Apart, NewIsEmpty, OwnDirectory, Holds, Working, Kept
<1>1. CASE GetSetup(d) BY <1>1 DEF GetSetup
<1>2. CASE NoSetup(d) BY <1>2 DEF NoSetup, Die
<1>3. CASE Taken(d) BY <1>3 DEF Taken
<1>4. CASE Free(d) BY <1>4 DEF Free
<1>5. CASE MakeDir(d) BY <1>5 DEF MakeDir
<1>6. CASE MakeDirFails(d) BY <1>6 DEF MakeDirFails, Die
<1>7. CASE Lock(d) BY <1>7 DEF Lock
<1>8. CASE BadFunction(d) BY <1>8 DEF BadFunction, Die
<1>9. CASE Collect(d) BY <1>9 DEF Collect
<1>10. CASE FinishSizes(d) BY <1>10 DEF FinishSizes
<1>11. CASE StartRun(d)
  <2> DEFINE size == numpes[d][runs[d] + 1]
  <2>1. /\ \A n \in Name : n # tried[d] => logs'[n] = logs[n]
        /\ logs'[tried[d]] = Written(logs[tried[d]], size, "open")
    BY <1>11, WriteLogEffect DEF StartRun, Outcome
  <2>2. DOMAIN logs'[tried[d]] = DOMAIN logs[tried[d]] \union {size}
    BY <2>1 DEF Written
  <2>3. /\ runs'[d] = runs[d] + 1 /\ runs[d] \in Nat /\ numpes' = numpes
        /\ tried' = tried /\ lock' = lock /\ dirs' = dirs
        /\ pc[d] = "next" /\ pc'[d] = "run" /\ runs[d] < Len(numpes[d])
    BY <1>11 DEF StartRun
  <2>4. DOMAIN logs'[tried[d]] \subseteq {numpes[d][k] : k \in 1..runs'[d]}
    BY <2>2, <2>3
  <2>5. Fresh(d)'
    BY <2>3
  <2>6. DirInv /\ Working(d)
    BY <2>3
  <2> HIDE DEF DirInv, TypeOK, Goto, Fresh, Apart, NewIsEmpty, OwnDirectory, Holds, Working, Kept, size
  <2> QED
    BY <2>1, <2>3, <2>4, <2>5, <2>6, KeptInRun
<1>12. CASE StartFails(d) BY <1>12 DEF StartFails, Die
<1>13. CASE RunEnds(d)
  <2>1. /\ WriteLog(d, Size(d), "whole") /\ pc[d] = "run" /\ pc'[d] = "next"
        /\ tried' = tried /\ lock' = lock /\ dirs' = dirs
        /\ numpes' = numpes /\ runs' = runs /\ x' = x /\ setup' = setup
    BY <1>13 DEF RunEnds
  <2>2. /\ \A n \in Name : n # tried[d] => logs'[n] = logs[n]
        /\ DOMAIN logs'[tried[d]] \subseteq {numpes'[d][k] : k \in 1..runs'[d]}
    BY <2>1, RunLogged DEF Outcome
  <2>3. Fresh(d)' /\ DirInv /\ Working(d)
    BY <2>1
  <2> HIDE DEF DirInv, TypeOK, Goto, Fresh, Apart, NewIsEmpty, OwnDirectory, Holds, Working, Kept
  <2> QED
    BY <2>1, <2>2, <2>3, KeptInRun
<1>14. CASE RunFails(d)
  <2>1. /\ WriteLog(d, Size(d), "failed") /\ pc[d] = "run" /\ pc'[d] = "dead"
        /\ tried' = tried /\ lock' = lock /\ dirs' = dirs
        /\ numpes' = numpes /\ runs' = runs /\ x' = x /\ setup' = setup
    BY <1>14 DEF RunFails
  <2>2. /\ \A n \in Name : n # tried[d] => logs'[n] = logs[n]
        /\ DOMAIN logs'[tried[d]] \subseteq {numpes'[d][k] : k \in 1..runs'[d]}
    BY <2>1, RunLogged DEF Outcome
  <2>3. Fresh(d)' /\ DirInv /\ Working(d)
    BY <2>1
  <2> HIDE DEF DirInv, TypeOK, Goto, Fresh, Apart, NewIsEmpty, OwnDirectory, Holds, Working, Kept
  <2> QED
    BY <2>1, <2>2, <2>3, KeptInRun
<1>15. CASE Finish(d) BY <1>15 DEF Finish
<1> QED
  BY <1>1, <1>2, <1>3, <1>4, <1>5, <1>6, <1>7, <1>8, <1>9, <1>10, <1>11,
     <1>12, <1>13, <1>14, <1>15 DEF Step

LEMMA StepDirInv ==
  ASSUME DirInv, NEW d \in Driver, Step(d)
  PROVE  DirInv'
<1>1. TypeOK /\ TypeOK'
  BY StepTypes DEF DirInv
<1>2. Kept(d)'
  BY StepKept
<1>3. \A e \in Driver : e # d =>
        /\ pc'[e] = pc[e] /\ tried'[e] = tried[e] /\ x'[e] = x[e]
        /\ numpes'[e] = numpes[e] /\ runs'[e] = runs[e] /\ setup'[e] = setup[e]
  BY <1>1, StepOthers
<1>4. /\ dirs \subseteq dirs'
      /\ \A n \in Name : n # tried[d] => lock'[n] = lock[n] /\ logs'[n] = logs[n]
      /\ ~Holds(d) => lock' = lock /\ logs' = logs
  BY <1>1, StepElsewhere
<1>5. \A e \in Driver : Fresh(e)'
  BY <1>2, <1>3 DEF DirInv, Fresh, Kept
<1>6. \A e \in Driver : e # d =>
        /\ Holds(e)' <=> Holds(e)
        /\ Working(e)' <=> Working(e)
  BY <1>3 DEF Holds, Working
<1>7. ASSUME NEW e \in Driver, e # d, Holds(e)
      PROVE  /\ tried[e] \in dirs /\ tried'[e] = tried[e]
             /\ lock'[tried[e]] = lock[tried[e]]
             /\ logs'[tried[e]] = logs[tried[e]]
  <2>1. tried[e] \in Name /\ tried[e] \in dirs
    BY <1>1, <1>7 DEF TypeOK, DirInv, Apart
  <2>2. Holds(d) => tried[e] # tried[d]
    BY <1>7 DEF DirInv, Apart
  <2> QED
    BY <1>3, <1>4, <1>7, <2>1, <2>2
<1>8. Apart'
  <2>1. \A e \in Driver : (Holds(e) => tried[e] \in dirs)'
    BY <1>2, <1>4, <1>6, <1>7 DEF Kept
  <2>2. ASSUME NEW e \in Driver, NEW f \in Driver,
               Holds(e)', Holds(f)', tried'[e] = tried'[f]
        PROVE  e = f
    BY <1>2, <1>6, <1>7, <2>2 DEF Kept, DirInv, Apart
  <2> QED
    BY <2>1, <2>2 DEF Apart
<1>9. NewIsEmpty'
  <2>1. \A e \in Driver : (pc[e] = "lock" => DOMAIN logs[tried[e]] = {})'
    BY <1>2, <1>3, <1>7 DEF Kept, DirInv, NewIsEmpty, Holds
  <2> QED
    BY <1>2, <2>1 DEF Kept, NewIsEmpty
<1>10. OwnDirectory'
  <2> SUFFICES ASSUME NEW e \in Driver, Working(e)'
               PROVE  /\ lock'[tried'[e]] = e
                      /\ DOMAIN logs'[tried'[e]] \subseteq {numpes'[e][k] : k \in 1..runs'[e]}
    BY DEF OwnDirectory
  <2>1. CASE e = d
    BY <1>2, <2>1 DEF Kept
  <2>2. CASE e # d
    <3>1. Working(e) /\ Holds(e)
      BY <1>6, <2>2 DEF Holds
    <3> QED
      BY <1>3, <1>7, <2>2, <3>1 DEF DirInv, OwnDirectory
  <2> QED
    BY <2>1, <2>2
<1> QED
  BY <1>1, <1>5, <1>8, <1>9, <1>10 DEF DirInv

LEMMA NextDirInv == DirInv /\ [Next]_vars => DirInv'
<1> SUFFICES ASSUME DirInv, [Next]_vars PROVE DirInv'
  OBVIOUS
<1>1. CASE Next
  BY <1>1, StepDirInv DEF Next
<1>2. CASE UNCHANGED vars
  BY <1>2 DEF vars, DirInv, TypeOK, Fresh, Apart, NewIsEmpty, OwnDirectory, Holds, Working
<1> QED
  BY <1>1, <1>2

(* The variables of a driver hold what the script puts there.              *)
THEOREM DriverTypeCorrect == Spec => []TypeOK
<1>1. DirInv => TypeOK
  BY DEF DirInv
<1> QED
  BY InitDirInv, NextDirInv, <1>1, PTL DEF Spec

(* No two drivers ever work in one directory, whatever the order in which  *)
(* they look for names and take them: mkdir is enough.                     *)
THEOREM DirectoriesAreOwn == Spec => []OwnDirectory
<1>1. DirInv => OwnDirectory
  BY DEF DirInv
<1> QED
  BY InitDirInv, NextDirInv, <1>1, PTL DEF Spec

(***************************************************************************)
(* The sizes and the series.                                               *)
(***************************************************************************)

Increasing(s) == \A j \in 1..Len(s), k \in 1..Len(s) : j < k => s[j] < s[k]

(* What SizesGrowToMax says of a finished list.                            *)
Finished(s, max) ==
  /\ Len(s) > 0
  /\ s[Len(s)] = max
  /\ \A k \in 1..Len(s) : s[k] > 0
  /\ Increasing(s)

(* While get_numpes loops the sizes are the values of the function from    *)
(* the first index on, none beyond the maximum.                            *)
Collected(d) ==
  pc[d] = "sizes" =>
    /\ Len(numpes[d]) = x[d] - setup[d].start
    /\ \A k \in 1..Len(numpes[d]) :
         /\ numpes[d][k] = setup[d].fun[setup[d].start + k - 1]
         /\ numpes[d][k] <= setup[d].max

SeriesInv ==
  /\ DirInv
  /\ \A d \in Driver : Collected(d)
  /\ SizesGrowToMax
  /\ SeriesInOrder

-----------------------------------------------------------------------------
LEMMA DroppedZero ==
  ASSUME NEW s \in Seq(Nat), Increasing(s)
  PROVE  /\ Increasing(WithoutZero(s))
         /\ \A k \in 1..Len(WithoutZero(s)) : WithoutZero(s)[k] > 0
         /\ \A k \in 1..Len(WithoutZero(s)) : \E j \in 1..Len(s) : WithoutZero(s)[k] = s[j]
<1>1. CASE Len(s) > 0 /\ s[1] = 0
  <2>1. /\ WithoutZero(s) = Tail(s)
        /\ Len(Tail(s)) = Len(s) - 1
        /\ \A k \in 1..(Len(s) - 1) : Tail(s)[k] = s[k + 1]
    BY <1>1 DEF WithoutZero
  <2>2. \A k \in 1..(Len(s) - 1) : s[k + 1] > s[1] /\ k + 1 \in 1..Len(s)
    BY <1>1 DEF Increasing
  <2> QED
    BY <1>1, <2>1, <2>2 DEF Increasing
<1>2. CASE ~(Len(s) > 0 /\ s[1] = 0)
  <2>1. WithoutZero(s) = s
    BY <1>2 DEF WithoutZero
  <2>2. \A k \in 1..Len(s) : s[k] >= s[1] /\ s[1] > 0
    BY <1>2 DEF Increasing
  <2> QED
    BY <2>1, <2>2 DEF Increasing
<1> QED
  BY <1>1, <1>2

LEMMA AddedMax ==
  ASSUME NEW s \in Seq(Nat), NEW max \in Nat, max > 0, Increasing(s),
         \A k \in 1..Len(s) : s[k] > 0 /\ s[k] <= max
  PROVE  Finished(WithMax(s, max), max)
<1>1. CASE Len(s) = 0 \/ s[Len(s)] # max
  <2>1. /\ WithMax(s, max) = Append(s, max)
        /\ Len(Append(s, max)) = Len(s) + 1
        /\ Append(s, max)[Len(s) + 1] = max
        /\ \A k \in 1..Len(s) : Append(s, max)[k] = s[k]
    BY <1>1 DEF WithMax
  <2>2. \A k \in 1..Len(s) : s[k] < max
    <3> SUFFICES ASSUME NEW k \in 1..Len(s) PROVE s[k] < max
      OBVIOUS
    <3>1. s[Len(s)] < max
      BY <1>1
    <3>2. k = Len(s) \/ s[k] < s[Len(s)]
      BY DEF Increasing
    <3> QED
      BY <3>1, <3>2
  <2> QED
    BY <2>1, <2>2 DEF Finished, Increasing
<1>2. CASE ~(Len(s) = 0 \/ s[Len(s)] # max)
  BY <1>2 DEF WithMax, Finished
<1> QED
  BY <1>1, <1>2

(* What get_numpes makes of a growing function.                            *)
LEMMA SizesFinished ==
  ASSUME DirInv, NEW d \in Driver, Collected(d), pc[d] = "sizes", Growing(setup[d])
  PROVE  Finished(WithMax(WithoutZero(numpes[d]), setup[d].max), setup[d].max)
<1> DEFINE s == numpes[d]  t == WithoutZero(s)
<1>1. s \in Seq(Nat) /\ x[d] \in Index /\ setup[d].start \in Index
      /\ setup[d].max \in Nat /\ setup[d].max > 0 /\ setup[d].fun \in [Index -> Nat]
  BY SetupTypes DEF DirInv, TypeOK
<1>2. /\ Len(s) = x[d] - setup[d].start
      /\ \A k \in 1..Len(s) : s[k] = setup[d].fun[setup[d].start + k - 1]
  BY DEF Collected
<1>3. Increasing(s)
  <2> SUFFICES ASSUME NEW j \in 1..Len(s), NEW k \in 1..Len(s), j < k
               PROVE  s[j] < s[k]
    BY DEF Increasing
  <2> DEFINE a == setup[d].start + j - 1  b == setup[d].start + k - 1
  <2>1. Len(s) \in Nat /\ j \in Int /\ k \in Int /\ 1 <= j /\ k <= Len(s)
    BY <1>1
  <2>4. /\ x[d] \in Int /\ x[d] <= IndexBound /\ IndexBound \in Int
        /\ setup[d].start \in Int /\ 0 <= setup[d].start
    BY <1>1, IndexBoundAssumption DEF Index
  <2>5. k <= x[d] - setup[d].start
    BY <1>2, <2>1
  <2> HIDE DEF s
  <2>2. a \in 0..IndexBound /\ b \in 0..IndexBound /\ a < b
    BY <2>1, <2>4, <2>5
  <2>3. setup[d].fun[a] < setup[d].fun[b]
    BY <2>2 DEF Growing, Index
  <2> QED
    BY <1>2, <2>3
<1>4. \A k \in 1..Len(s) : s[k] <= setup[d].max
  BY DEF Collected
<1>5. t \in Seq(Nat)
  BY <1>1, FinishedSizes
<1> HIDE DEF s, t
<1>6. Increasing(WithoutZero(s)) /\ \A k \in 1..Len(WithoutZero(s)) :
        WithoutZero(s)[k] > 0 /\ WithoutZero(s)[k] <= setup[d].max
  BY <1>1, <1>3, <1>4, DroppedZero
<1>7. Finished(WithMax(t, setup[d].max), setup[d].max)
  BY <1>1, <1>5, <1>6, AddedMax DEF t
<1> QED
  BY <1>7 DEF s, t

-----------------------------------------------------------------------------
(* The same driver by driver *)

GrownSizes(d) ==
  (Growing(setup[d]) /\ pc[d] \in {"next", "run", "done"}) =>
    Finished(numpes[d], setup[d].max)

InOrder(d) ==
  (Growing(setup[d]) /\ Working(d)) =>
    /\ runs[d] <= Len(numpes[d])
    /\ \A k \in 1..runs[d] :
         /\ numpes[d][k] \in DOMAIN logs[tried[d]]
         /\ logs[tried[d]][numpes[d][k]] =
              IF k = runs[d] /\ pc[d] = "run" THEN "open" ELSE "whole"
    /\ pc[d] = "done" => runs[d] = Len(numpes[d])

LEMMA ByDriver ==
  /\ SizesGrowToMax <=> \A d \in Driver : GrownSizes(d)
  /\ SeriesInOrder <=> \A d \in Driver : InOrder(d)
BY DEF SizesGrowToMax, SeriesInOrder, GrownSizes, InOrder, Finished, Increasing

(* Writing the log of the current run leaves those before it as they are:  *)
(* sizes differ.                                                           *)
LEMMA OneLogChanges ==
  ASSUME DirInv, NEW d \in Driver, NEW outcome \in Outcome, NEW n \in 1..Len(numpes[d]),
         Increasing(numpes[d]), WriteLog(d, numpes[d][n], outcome)
  PROVE  LET l == logs[tried[d]]  m == logs'[tried[d]] IN
         /\ numpes[d][n] \in DOMAIN m /\ m[numpes[d][n]] = outcome
         /\ \A k \in 1..(n - 1) : numpes[d][k] \in DOMAIN l =>
              numpes[d][k] \in DOMAIN m /\ m[numpes[d][k]] = l[numpes[d][k]]
<1>1. logs'[tried[d]] = Written(logs[tried[d]], numpes[d][n], outcome)
  BY WriteLogEffect DEF DirInv
<1>2. numpes[d] \in Seq(Nat)
  BY DEF DirInv, TypeOK
<1>3. \A k \in 1..(n - 1) : numpes[d][k] # numpes[d][n]
  <2> SUFFICES ASSUME NEW k \in 1..(n - 1) PROVE numpes[d][k] # numpes[d][n]
    OBVIOUS
  <2>1. k \in 1..Len(numpes[d]) /\ k < n
    BY <1>2
  <2>2. numpes[d][k] < numpes[d][n] /\ numpes[d][k] \in Nat /\ numpes[d][n] \in Nat
    BY <1>2, <2>1 DEF Increasing
  <2> QED
    BY <2>2
<1> DEFINE l == logs[tried[d]]  size == numpes[d][n]
<1>4. /\ DOMAIN Written(l, size, outcome) = DOMAIN l \union {size}
      /\ Written(l, size, outcome)[size] = outcome
      /\ \A k \in DOMAIN l : k # size => Written(l, size, outcome)[k] = l[k]
  BY DEF Written
<1> QED
  BY <1>1, <1>3, <1>4

LEMMA StepInOrder ==
  ASSUME SeriesInv, NEW d \in Driver, Step(d)
  PROVE  Collected(d)' /\ GrownSizes(d)' /\ InOrder(d)'
<1>0. DirInv /\ TypeOK /\ Fresh(d) /\ Collected(d) /\ GrownSizes(d) /\ InOrder(d)
  BY ByDriver DEF SeriesInv, DirInv
<1>s. setup' = setup /\ setup[d].start \in Index /\ setup[d].fun \in [Index -> Nat]
      /\ setup[d].max \in Nat /\ setup[d].max > 0
  BY <1>0, StepOthers, SetupTypes
<1> USE DEF Goto
<1>1. CASE GetSetup(d)
  BY <1>0, <1>s, <1>1 DEF GetSetup, TypeOK, Collected, GrownSizes, InOrder, Working
<1>2. CASE NoSetup(d)
  BY <1>0, <1>s, <1>2 DEF NoSetup, Die, TypeOK, Collected, GrownSizes, InOrder, Working
<1>3. CASE Taken(d)
  BY <1>0, <1>s, <1>3 DEF Taken, TypeOK, Collected, GrownSizes, InOrder, Working
<1>4. CASE Free(d)
  BY <1>0, <1>s, <1>4 DEF Free, TypeOK, Collected, GrownSizes, InOrder, Working
<1>5. CASE MakeDir(d)
  BY <1>0, <1>s, <1>5 DEF MakeDir, TypeOK, Collected, GrownSizes, InOrder, Working
<1>6. CASE MakeDirFails(d)
  BY <1>0, <1>s, <1>6 DEF MakeDirFails, Die, TypeOK, Collected, GrownSizes, InOrder, Working
<1>7. CASE Lock(d)
  <2>1. /\ numpes'[d] = <<>> /\ x'[d] = setup[d].start /\ runs'[d] = 0
        /\ pc'[d] = "sizes"
    BY <1>0, <1>7 DEF Lock, TypeOK, Fresh
  <2> QED
    BY <1>s, <2>1 DEF Collected, GrownSizes, InOrder, Working, Index
<1>8. CASE BadFunction(d)
  BY <1>0, <1>s, <1>8 DEF BadFunction, Die, TypeOK, Collected, GrownSizes, InOrder, Working
<1>9. CASE Collect(d)
  <2> DEFINE s == numpes[d]  v == CurNumpe(d)
  <2>1. /\ pc[d] = "sizes" /\ pc' = pc /\ v <= setup[d].max
        /\ numpes'[d] = Append(s, v) /\ x'[d] = x[d] + 1 /\ runs' = runs
    BY <1>0, <1>9 DEF Collect, TypeOK
  <2>2. s \in Seq(Nat) /\ v \in Nat /\ x[d] \in Int /\ setup[d].start \in Int
    BY <1>0, <1>s, IndexBoundAssumption DEF CurNumpe, TypeOK, Index
  <2>3. Len(s) = x[d] - setup[d].start /\ v = setup[d].fun[setup[d].start + (Len(s) + 1) - 1]
    BY <1>0, <2>1, <2>2 DEF Collected, CurNumpe
  <2>4. \A k \in 1..Len(s) : s[k] = setup[d].fun[setup[d].start + k - 1]
                              /\ s[k] <= setup[d].max
    BY <1>0, <2>1 DEF Collected
  <2> HIDE DEF s, v
  <2>5. /\ Len(Append(s, v)) = Len(s) + 1 /\ Append(s, v)[Len(s) + 1] = v
        /\ \A k \in 1..Len(s) : Append(s, v)[k] = s[k]
    BY <2>2
  <2>6. Collected(d)'
    <3>1. Len(numpes'[d]) = x'[d] - setup'[d].start
      BY <1>s, <2>1, <2>2, <2>3, <2>5
    <3>2. ASSUME NEW k \in 1..(Len(s) + 1)
          PROVE  /\ Append(s, v)[k] = setup[d].fun[setup[d].start + k - 1]
                 /\ Append(s, v)[k] <= setup[d].max
      <4>1. CASE k = Len(s) + 1
        BY <2>1, <2>3, <2>5, <4>1
      <4>2. CASE k # Len(s) + 1
        <5>1. k \in 1..Len(s)
          BY <2>2, <4>2
        <5> QED
          BY <2>4, <2>5, <5>1
      <4> QED
        BY <4>1, <4>2
    <3> QED
      BY <1>s, <2>1, <2>5, <3>1, <3>2 DEF Collected
  <2>7. runs'[d] = 0
    BY <1>0, <2>1 DEF Fresh
  <2> QED
    BY <2>1, <2>2, <2>5, <2>6, <2>7 DEF GrownSizes, InOrder
<1>10. CASE FinishSizes(d)
  <2>1. /\ pc[d] = "sizes" /\ pc'[d] = "next" /\ runs'[d] = 0
        /\ numpes'[d] = WithMax(WithoutZero(numpes[d]), setup[d].max)
    BY <1>0, <1>10 DEF FinishSizes, TypeOK, Fresh
  <2>2. Growing(setup[d]) => Finished(numpes'[d], setup[d].max)
    BY <1>0, <2>1, SizesFinished
  <2>3. GrownSizes(d)'
    BY <1>s, <2>2 DEF GrownSizes
  <2>4. Len(numpes'[d]) \in Nat
    BY <1>0, <1>s, <2>1, FinishedSizes DEF TypeOK
  <2> QED
    BY <2>1, <2>3, <2>4 DEF Collected, InOrder
<1>11. CASE StartRun(d)
  <2>1. /\ pc[d] = "next" /\ pc'[d] = "run" /\ runs'[d] = runs[d] + 1
        /\ runs[d] \in Nat /\ runs[d] < Len(numpes[d]) /\ numpes' = numpes
        /\ tried' = tried /\ WriteLog(d, numpes[d][runs[d] + 1], "open")
    BY <1>0, <1>11 DEF StartRun, TypeOK
  <2>2. GrownSizes(d)' /\ Collected(d)'
    BY <1>0, <1>s, <2>1 DEF GrownSizes, Collected
  <2>3. ASSUME Growing(setup[d])
        PROVE  \A k \in 1..runs'[d] :
                 /\ numpes[d][k] \in DOMAIN logs'[tried[d]]
                 /\ logs'[tried[d]][numpes[d][k]] = IF k = runs'[d] THEN "open" ELSE "whole"
    <3>1. Increasing(numpes[d])
      BY <1>0, <2>1, <2>3 DEF GrownSizes, Finished
    <3>2. runs[d] + 1 \in 1..Len(numpes[d]) /\ "open" \in Outcome
      BY <1>0, <2>1 DEF TypeOK, Outcome
    <3>3. \A k \in 1..runs[d] : /\ numpes[d][k] \in DOMAIN logs[tried[d]]
                                 /\ logs[tried[d]][numpes[d][k]] = "whole"
      BY <1>0, <2>1, <2>3 DEF InOrder, Working
    <3>4. LET l == logs[tried[d]]  m == logs'[tried[d]]  n == runs[d] + 1 IN
         /\ numpes[d][n] \in DOMAIN m /\ m[numpes[d][n]] = "open"
         /\ \A k \in 1..(n - 1) : numpes[d][k] \in DOMAIN l =>
              numpes[d][k] \in DOMAIN m /\ m[numpes[d][k]] = l[numpes[d][k]]
      BY <1>0, <2>1, <3>1, <3>2, OneLogChanges
    <3> QED
      BY <2>1, <3>3, <3>4
  <2>4. InOrder(d)'
    BY <1>s, <2>1, <2>3 DEF InOrder
  <2> QED
    BY <2>2, <2>4
<1>12. CASE StartFails(d)
  BY <1>0, <1>s, <1>12 DEF StartFails, Die, TypeOK, Collected, GrownSizes, InOrder, Working
<1>13. CASE RunEnds(d)
  <2>1. /\ pc[d] = "run" /\ pc'[d] = "next" /\ runs' = runs /\ runs[d] \in Nat
        /\ runs[d] > 0 /\ runs[d] <= Len(numpes[d]) /\ numpes' = numpes
        /\ tried' = tried /\ WriteLog(d, numpes[d][runs[d]], "whole")
    BY <1>0, <1>13 DEF RunEnds, Size, TypeOK, Fresh
  <2>2. GrownSizes(d)' /\ Collected(d)'
    BY <1>0, <1>s, <2>1 DEF GrownSizes, Collected
  <2>3. ASSUME Growing(setup[d])
        PROVE  \A k \in 1..runs[d] :
                 /\ numpes[d][k] \in DOMAIN logs'[tried[d]]
                 /\ logs'[tried[d]][numpes[d][k]] = "whole"
    <3>1. Increasing(numpes[d])
      BY <1>0, <2>1, <2>3 DEF GrownSizes, Finished
    <3>2. runs[d] \in 1..Len(numpes[d]) /\ "whole" \in Outcome
      BY <1>0, <2>1 DEF TypeOK, Outcome
    <3>3. \A k \in 1..(runs[d] - 1) : /\ numpes[d][k] \in DOMAIN logs[tried[d]]
                                       /\ logs[tried[d]][numpes[d][k]] = "whole"
      BY <1>0, <2>1, <2>3 DEF InOrder, Working
    <3>4. LET l == logs[tried[d]]  m == logs'[tried[d]]  n == runs[d] IN
         /\ numpes[d][n] \in DOMAIN m /\ m[numpes[d][n]] = "whole"
         /\ \A k \in 1..(n - 1) : numpes[d][k] \in DOMAIN l =>
              numpes[d][k] \in DOMAIN m /\ m[numpes[d][k]] = l[numpes[d][k]]
      BY <1>0, <3>1, <3>2, <2>1, OneLogChanges
    <3> QED
      BY <2>1, <3>3, <3>4
  <2>4. InOrder(d)'
    BY <1>s, <2>1, <2>3 DEF InOrder
  <2> QED
    BY <2>2, <2>4
<1>14. CASE RunFails(d)
  <2>1. pc'[d] = "dead"
    BY <1>0, <1>14 DEF RunFails, TypeOK
  <2> QED
    BY <2>1 DEF Collected, GrownSizes, InOrder, Working
<1>15. CASE Finish(d)
  BY <1>0, <1>s, <1>15 DEF Finish, TypeOK, Collected, GrownSizes, InOrder, Working
<1> QED
  BY <1>1, <1>2, <1>3, <1>4, <1>5, <1>6, <1>7, <1>8, <1>9, <1>10, <1>11,
     <1>12, <1>13, <1>14, <1>15 DEF Step

LEMMA InitSeriesInv == Init => SeriesInv
<1> SUFFICES ASSUME Init PROVE SeriesInv
  OBVIOUS
<1>1. DirInv
  BY InitDirInv
<1>2. \A d \in Driver : pc[d] = "setup"
  BY DEF Init
<1>3. \A d \in Driver : Collected(d) /\ GrownSizes(d) /\ InOrder(d)
  BY <1>2 DEF Collected, GrownSizes, InOrder, Working
<1> QED
  BY <1>1, <1>3, ByDriver DEF SeriesInv

LEMMA StepSeriesInv ==
  ASSUME SeriesInv, NEW d \in Driver, Step(d)
  PROVE  SeriesInv'
<1>1. DirInv /\ DirInv' /\ TypeOK
  BY StepDirInv DEF SeriesInv, DirInv
<1>2. \A e \in Driver : Collected(e) /\ GrownSizes(e) /\ InOrder(e)
  BY ByDriver DEF SeriesInv
<1>3. ASSUME NEW e \in Driver, e # d
      PROVE  Collected(e)' /\ GrownSizes(e)' /\ InOrder(e)'
  <2>1. /\ pc'[e] = pc[e] /\ tried'[e] = tried[e] /\ x'[e] = x[e] /\ setup' = setup
        /\ numpes'[e] = numpes[e] /\ runs'[e] = runs[e]
    BY <1>1, <1>3, StepOthers
  <2>2. Working(e) => logs'[tried[e]] = logs[tried[e]]
    <3> SUFFICES ASSUME Working(e) PROVE logs'[tried[e]] = logs[tried[e]]
      OBVIOUS
    <3>1. tried[e] \in Name /\ (Holds(d) => tried[e] # tried[d])
      BY <1>1, <1>3 DEF DirInv, TypeOK, Apart, Holds
    <3>2. /\ \A n \in Name : n # tried[d] => logs'[n] = logs[n]
          /\ ~Holds(d) => logs' = logs
      BY <1>1, StepElsewhere
    <3> QED
      BY <3>1, <3>2
  <2> QED
    BY <1>2, <2>1, <2>2 DEF Collected, GrownSizes, InOrder, Working
<1>4. \A e \in Driver : (Collected(e) /\ GrownSizes(e) /\ InOrder(e))'
  BY <1>3, StepInOrder
<1>5. (SizesGrowToMax /\ SeriesInOrder)'
  <2>1. (SizesGrowToMax <=> \A e \in Driver : GrownSizes(e))'
    BY DEF SizesGrowToMax, SeriesInOrder, GrownSizes, InOrder, Finished, Increasing
  <2>2. (SeriesInOrder <=> \A e \in Driver : InOrder(e))'
    BY DEF SizesGrowToMax, SeriesInOrder, GrownSizes, InOrder, Finished, Increasing
  <2> QED
    BY <1>4, <2>1, <2>2
<1> QED
  BY <1>1, <1>4, <1>5 DEF SeriesInv

LEMMA NextSeriesInv == SeriesInv /\ [Next]_vars => SeriesInv'
<1> SUFFICES ASSUME SeriesInv, [Next]_vars PROVE SeriesInv'
  OBVIOUS
<1>1. CASE Next
  BY <1>1, StepSeriesInv DEF Next
<1>2. CASE UNCHANGED vars
  <2>1. DirInv'
    BY NextDirInv DEF SeriesInv
  <2> QED
    BY <1>2, <2>1 DEF vars, SeriesInv, Collected, SizesGrowToMax, SeriesInOrder, Working
<1> QED
  BY <1>1, <1>2

(* The jobs of a growing function are of sizes that grow strictly from one *)
(* process or more to the maximum, which is always among them.             *)
THEOREM SizesCorrect == Spec => []SizesGrowToMax
<1>1. SeriesInv => SizesGrowToMax
  BY DEF SeriesInv
<1> QED
  BY InitSeriesInv, NextSeriesInv, <1>1, PTL DEF Spec

(* A series leaves whole logs of all its jobs up to the current one, and   *)
(* of all its sizes if the driver says it is done; other drivers, jobs     *)
(* that fail and the order of their steps do not matter.                   *)
THEOREM SeriesCorrect == Spec => []SeriesInOrder
<1>1. SeriesInv => SeriesInOrder
  BY DEF SeriesInv
<1> QED
  BY InitSeriesInv, NextSeriesInv, <1>1, PTL DEF Spec

-----------------------------------------------------------------------------
(* The readers. *)

(***************************************************************************)
(* Readers do not disturb drivers: all that is proved of RunDriver holds   *)
(* beside them.                                                            *)
(***************************************************************************)
LEMMA ReadersOnlyRead ==
  ASSUME [MkNext]_allVars
  PROVE  [Next]_vars
<1>1. CASE UNCHANGED allVars
  BY <1>1 DEF allVars, vars
<1>2. ASSUME NEW d \in Driver, DriverStep(d) \/ Printed(d) PROVE [Next]_vars
  BY <1>2 DEF DriverStep, Printed, Next
<1>3. ASSUME NEW r \in Reader, Read(r) PROVE UNCHANGED vars
  BY <1>3 DEF Read, List, NoData, ReadPre, ReadPost, PickName, OpenTable, CloseTable, Become
<1> QED
  BY <1>1, <1>2, <1>3 DEF MkNext

THEOREM DriversUndisturbed == MkSpec => Spec
<1>1. MkInit => Init
  BY DEF MkInit
<1> QED
  BY <1>1, ReadersOnlyRead, PTL DEF MkSpec, Spec

(***************************************************************************)
(* The names of tables.                                                    *)
(***************************************************************************)

Fields == {"at", "input", "files", "range", "kind", "pre", "rows", "index"}

Shape ==
  /\ DOMAIN reader = Reader /\ DOMAIN before = Reader
  /\ \A r \in Reader : /\ DOMAIN reader[r] = Fields
                       /\ DOMAIN reader[r].index = Kind
                       /\ DOMAIN reader[r].rows = Kind
                       /\ reader[r].kind \in Kind

(* Which names a reader has picked, by where it is; what it has picked was *)
(* not there when it began.                                                *)
Named(r) ==
  LET me == reader[r] IN
    /\ before[r].tables \subseteq DOMAIN tables
    /\ me.at \in {"start", "read"} => \A k \in Kind : me.index[k] = -1
    /\ me.at = "read" /\ me.files = << >> => me.kind = "node"
    /\ me.at = "pick" => me.kind = "proc" /\ me.index["node"] # -1
    /\ me.at = "open" => me.index["node"] # -1 /\ me.index[me.kind] # -1
    /\ me.at \in {"close", "done"} => \A k \in Kind : me.index[k] # -1
    /\ \A k \in Kind : me.index[k] # -1 => OwnName(r, k) \notin before[r].tables

NamesInv == Shape /\ \A r \in Reader : Named(r)

LEMMA InitNames == MkInit => NamesInv
BY DEF MkInit, NamesInv, Shape, Named, Started, Fields, Kind

(* A step of a reader changes no other.                                    *)
LEMMA ReadLocal ==
  ASSUME Shape, NEW r \in Reader, Read(r)
  PROVE  /\ Shape'
         /\ \A s \in Reader \ {r} : reader'[s] = reader[s] /\ before'[s] = before[s]
         /\ DOMAIN tables \subseteq DOMAIN tables'
<1> USE DEF Shape, Become, Fields
<1>1. CASE \E n \in Name : List(r, n)
  BY <1>1 DEF List, Started, Kind
<1>2. CASE \E n \in Name : NoData(r, n)
  BY <1>2 DEF NoData, Started, Kind
<1>3. CASE ReadPre(r)
  BY <1>3 DEF ReadPre
<1>4. CASE ReadPost(r)
  BY <1>4 DEF ReadPost, Kind
<1>5. CASE PickName(r)
  BY <1>5 DEF PickName
<1>6. CASE OpenTable(r)
  BY <1>6 DEF OpenTable, WithText, Kind
<1>7. CASE CloseTable(r)
  BY <1>7 DEF CloseTable, WithText, Kind
<1> QED
  BY <1>1, <1>2, <1>3, <1>4, <1>5, <1>6, <1>7 DEF Read

(* The fields of a reader after each of its steps.                         *)
LEMMA ListEffect ==
  ASSUME Shape, NEW r \in Reader, NEW n \in Name, List(r, n)
  PROVE  /\ reader'[r].at = "read" /\ reader'[r].input = n /\ reader'[r].kind = "node"
         /\ reader'[r].pre = "none" /\ reader'[r].files = DataFiles(n)
         /\ reader'[r].range = <<DataFiles(n)[1], DataFiles(n)[Len(DataFiles(n))]>>
         /\ \A k \in Kind : reader'[r].rows[k] = << >> /\ reader'[r].index[k] = -1
         /\ before'[r] = [tables |-> DOMAIN tables, done |-> {d \in Driver : pc[d] = "done"}]
         /\ n \in dirs /\ DOMAIN logs[n] # {} /\ tables' = tables
         /\ reader[r].at = "start"
BY DEF Shape, List, Become, Started

LEMMA NoDataEffect ==
  ASSUME Shape, NEW r \in Reader, NEW n \in Name, NoData(r, n)
  PROVE  /\ reader'[r].at = "dead"
         /\ \A k \in Kind : reader'[r].rows[k] = << >> /\ reader'[r].index[k] = -1
         /\ before' = before /\ tables' = tables /\ reader[r].at = "start"
BY DEF Shape, NoData, Become, Started

Same(r, fields) == \A f \in fields : reader'[r][f] = reader[r][f]

LEMMA ReadPreEffect ==
  ASSUME Shape, NEW r \in Reader, ReadPre(r)
  PROVE  /\ Same(r, Fields \ {"pre"})
         /\ reader'[r].pre = Found(r, "pre")
         /\ reader[r].at = "read" /\ reader[r].files # << >> /\ reader[r].pre = "none"
         /\ before' = before /\ tables' = tables
BY DEF Shape, ReadPre, Become, Same, Fields

FoundRow(r) == Row(Head(reader[r].files), reader[r].pre, Found(r, "post"))

Other(kind) == IF kind = "node" THEN "proc" ELSE "node"

LEMMA ReadPostEffect ==
  ASSUME Shape, NEW r \in Reader, ReadPost(r)
  PROVE  /\ Same(r, {"at", "input", "range", "index"})
         /\ reader'[r].pre = "none" /\ reader'[r].kind = Other(reader[r].kind)
         /\ reader'[r].files = IF reader[r].kind = "proc" THEN Tail(reader[r].files)
                               ELSE reader[r].files
         /\ \A k \in Kind : reader'[r].rows[k] =
              IF k = reader[r].kind THEN reader[r].rows[k] \o FoundRow(r) ELSE reader[r].rows[k]
         /\ reader[r].at = "read" /\ reader[r].files # << >> /\ reader[r].pre # "none"
         /\ before' = before /\ tables' = tables
<1> DEFINE me == reader[r]
<1>1. reader'[r] = [me EXCEPT !.pre = "none",
                              !.rows[me.kind] = @ \o FoundRow(r),
                              !.kind = Other(me.kind),
                              !.files = IF me.kind = "proc" THEN Tail(@) ELSE @]
  BY DEF ReadPost, Become, Shape, FoundRow, Other
<1>2. DOMAIN me = Fields /\ DOMAIN me.rows = Kind
  BY DEF Shape
<1>3. reader'[r].rows = [me.rows EXCEPT ![me.kind] = @ \o FoundRow(r)]
  BY <1>1, <1>2 DEF Fields
<1>4. \A k \in Kind : reader'[r].rows[k] =
        IF k = me.kind THEN me.rows[k] \o FoundRow(r) ELSE me.rows[k]
  BY <1>2, <1>3
<1>5. /\ Same(r, {"at", "input", "range", "index"})
      /\ reader'[r].pre = "none" /\ reader'[r].kind = Other(me.kind)
      /\ reader'[r].files = IF me.kind = "proc" THEN Tail(me.files) ELSE me.files
  BY <1>1, <1>2 DEF Fields, Same
<1> QED
  BY <1>4, <1>5 DEF ReadPost

LEMMA PickNameEffect ==
  ASSUME Shape, NEW r \in Reader, PickName(r)
  PROVE  /\ Same(r, Fields \ {"at", "index"}) /\ reader'[r].at = "open"
         /\ \/ reader[r].at = "read" /\ reader[r].files = << >>
            \/ reader[r].at = "pick"
         /\ before' = before /\ tables' = tables
         /\ \E i \in 0..Cardinality(Reader) :
              /\ IsFreeName(r, i)
              /\ \A k \in Kind : reader'[r].index[k] =
                   IF k = reader[r].kind THEN i ELSE reader[r].index[k]
<1>1. PICK i \in 0..Cardinality(Reader) :
        IsFreeName(r, i) /\ Become(r, [reader[r] EXCEPT !.at = "open", !.index[reader[r].kind] = i])
  BY DEF PickName
<1>2. reader'[r] = [reader[r] EXCEPT !.at = "open", !.index[reader[r].kind] = i]
  BY <1>1 DEF Become, Shape
<1>3. DOMAIN reader[r] = Fields /\ DOMAIN reader[r].index = Kind
  BY DEF Shape
<1>4. reader'[r].index = [reader[r].index EXCEPT ![reader[r].kind] = i]
  BY <1>2, <1>3 DEF Fields
<1>5. Same(r, Fields \ {"at", "index"}) /\ reader'[r].at = "open"
  BY <1>2, <1>3 DEF Fields, Same
<1> QED
  BY <1>1, <1>3, <1>4, <1>5 DEF PickName

LEMMA OpenTableEffect ==
  ASSUME Shape, NEW r \in Reader, OpenTable(r)
  PROVE  /\ Same(r, Fields \ {"at", "kind"}) /\ reader[r].at = "open"
         /\ reader'[r].at = IF reader[r].kind = "node" THEN "pick" ELSE "close"
         /\ reader'[r].kind = Other(reader[r].kind)
         /\ before' = before
         /\ DOMAIN tables' = DOMAIN tables \union {OwnName(r, reader[r].kind)}
         /\ tables'[OwnName(r, reader[r].kind)] = << >>
         /\ \A f \in DOMAIN tables : f # OwnName(r, reader[r].kind) => tables'[f] = tables[f]
<1>1. /\ reader'[r] = [reader[r] EXCEPT !.at = IF reader[r].kind = "node" THEN "pick" ELSE "close",
                                       !.kind = Other(@)]
      /\ reader[r].at = "open" /\ before' = before
      /\ tables' = WithText(OwnName(r, reader[r].kind), << >>)
  BY DEF OpenTable, Become, Shape, Other
<1>2. DOMAIN reader[r] = Fields
  BY DEF Shape
<1> QED
  BY <1>1, <1>2 DEF Same, Fields, WithText

LEMMA CloseTableEffect ==
  ASSUME Shape, NEW r \in Reader, CloseTable(r)
  PROVE  /\ Same(r, Fields \ {"at", "kind"}) /\ reader[r].at = "close"
         /\ reader'[r].at = IF reader[r].kind = "node" THEN "close" ELSE "done"
         /\ reader'[r].kind = "proc"
         /\ before' = before
         /\ LET name == OwnName(r, reader[r].kind) IN
              /\ DOMAIN tables' = DOMAIN tables \union {name}
              /\ tables'[name] = Over(tables[name], reader[r].rows[reader[r].kind])
              /\ \A f \in DOMAIN tables : f # name => tables'[f] = tables[f]
<1> DEFINE name == OwnName(r, reader[r].kind)
<1>1. /\ reader'[r] = [reader[r] EXCEPT !.at = IF reader[r].kind = "node" THEN "close" ELSE "done",
                                       !.kind = "proc"]
      /\ reader[r].at = "close" /\ before' = before
      /\ tables' = WithText(name, Over(tables[name], reader[r].rows[reader[r].kind]))
  BY DEF CloseTable, Become, Shape
<1>2. DOMAIN reader[r] = Fields
  BY DEF Shape
<1> QED
  BY <1>1, <1>2 DEF Same, Fields, WithText

-----------------------------------------------------------------------------
(* A name once picked stays: it depends on what is fixed by then.          *)
LEMMA NameStays ==
  ASSUME Shape, NEW r \in Reader, Same(r, {"rows", "range"}), NEW k \in Kind
  PROVE  OwnName(r, k)' = FileName(r, k, reader'[r].index[k])
<1>1. reader'[r].rows = reader[r].rows /\ reader'[r].range = reader[r].range
  BY DEF Same
<1> QED
  BY <1>1 DEF OwnName, FileName

LEMMA ReadNames ==
  ASSUME NamesInv, NEW r \in Reader, Read(r)
  PROVE  Named(r)'
<1>0. Shape /\ Named(r) /\ reader[r].kind \in Kind
  BY DEF NamesInv, Shape
<1> USE DEF Named, Kind
<1>1. ASSUME NEW n \in Name, List(r, n) PROVE Named(r)'
  <2> HIDE DEF Kind, Named
  <2>0. before'[r] = [tables |-> DOMAIN tables, done |-> {d \in Driver : pc[d] = "done"}]
    BY <1>0, <1>1, ListEffect
  <2>1. /\ reader'[r].at = "read" /\ reader'[r].kind = "node"
        /\ \A k \in Kind : reader'[r].index[k] = -1
        /\ before'[r].tables = DOMAIN tables /\ tables' = tables
    BY <1>0, <1>1, <2>0, ListEffect
  <2>2. reader'[r].at \notin {"pick", "open", "close", "done"}
    BY <2>1
  <2> QED
    BY <2>1, <2>2 DEF Named
<1>2. ASSUME NEW n \in Name, NoData(r, n) PROVE Named(r)'
  BY <1>0, <1>2, NoDataEffect
<1>3. CASE ReadPre(r)
  BY <1>0, <1>3, ReadPreEffect DEF Same, Fields, OwnName, FileName
<1>4. CASE ReadPost(r)
  BY <1>0, <1>4, ReadPostEffect DEF Same, Other
<1>5. CASE PickName(r)
  <2>1. /\ Same(r, Fields \ {"at", "index"}) /\ reader'[r].at = "open"
        /\ \/ reader[r].at = "read" /\ reader[r].files = << >>
           \/ reader[r].at = "pick"
        /\ before' = before /\ tables' = tables
    BY <1>0, <1>5, PickNameEffect
  <2>2. PICK i \in 0..Cardinality(Reader) :
          /\ IsFreeName(r, i)
          /\ \A k \in Kind : reader'[r].index[k] =
               IF k = reader[r].kind THEN i ELSE reader[r].index[k]
    BY <1>0, <1>5, PickNameEffect
  <2>3. \A k \in Kind : OwnName(r, k)' = FileName(r, k, reader'[r].index[k])
    BY <1>0, <2>1, NameStays DEF Same, Fields
  <2>4. FileName(r, reader[r].kind, i) \notin DOMAIN tables
    BY <2>2 DEF IsFreeName
  <2>5. \A k \in Kind : reader'[r].index[k] # -1 => OwnName(r, k)' \notin before[r].tables
    BY <1>0, <2>2, <2>3, <2>4 DEF OwnName
  <2>6. reader'[r].index["node"] # -1 /\ reader'[r].index[reader'[r].kind] # -1
    BY <1>0, <2>1, <2>2 DEF Same, Fields
  <2> QED
    BY <1>0, <2>1, <2>5, <2>6
<1>6. CASE OpenTable(r)
  <2>1. /\ Same(r, Fields \ {"at", "kind"}) /\ reader[r].at = "open"
        /\ reader'[r].at = IF reader[r].kind = "node" THEN "pick" ELSE "close"
        /\ reader'[r].kind = Other(reader[r].kind)
        /\ before' = before /\ DOMAIN tables \subseteq DOMAIN tables'
    BY <1>0, <1>6, OpenTableEffect
  <2>2. \A k \in Kind : OwnName(r, k)' = OwnName(r, k)
    BY <1>0, <2>1, NameStays DEF Same, Fields, OwnName
  <2>3. reader'[r].index = reader[r].index
    BY <2>1 DEF Same, Fields
  <2> QED
    BY <1>0, <2>1, <2>2, <2>3 DEF Other
<1>7. CASE CloseTable(r)
  <2>1. /\ Same(r, Fields \ {"at", "kind"}) /\ reader[r].at = "close"
        /\ reader'[r].at \in {"close", "done"}
        /\ before' = before /\ DOMAIN tables \subseteq DOMAIN tables'
    BY <1>0, <1>7, CloseTableEffect
  <2>2. \A k \in Kind : OwnName(r, k)' = OwnName(r, k)
    BY <1>0, <2>1, NameStays DEF Same, Fields, OwnName
  <2>3. reader'[r].index = reader[r].index
    BY <2>1 DEF Same, Fields
  <2> QED
    BY <1>0, <2>1, <2>2, <2>3
<1> QED
  BY <1>1, <1>2, <1>3, <1>4, <1>5, <1>6, <1>7 DEF Read

LEMMA NextNames ==
  ASSUME NamesInv, [MkNext]_allVars
  PROVE  NamesInv'
<1>1. CASE UNCHANGED readVars
  BY <1>1 DEF readVars, NamesInv, Shape, Named, OwnName, FileName
<1>2. ASSUME NEW d \in Driver, DriverStep(d) \/ Printed(d) PROVE UNCHANGED readVars
  BY <1>2 DEF DriverStep, Printed
<1>3. ASSUME NEW r \in Reader, Read(r) PROVE NamesInv'
  <2>1. /\ Shape'
        /\ \A s \in Reader \ {r} : reader'[s] = reader[s] /\ before'[s] = before[s]
        /\ DOMAIN tables \subseteq DOMAIN tables'
    BY <1>3, ReadLocal DEF NamesInv
  <2>2. ASSUME NEW s \in Reader \ {r} PROVE Named(s)'
    <3>1. reader'[s] = reader[s] /\ before'[s] = before[s] /\ Named(s)
      BY <2>1 DEF NamesInv
    <3>2. \A k \in Kind : OwnName(s, k)' = OwnName(s, k)
      BY <3>1 DEF OwnName, FileName
    <3> QED
      BY <2>1, <3>1, <3>2 DEF Named
  <2>3. Named(r)'
    BY <1>3, ReadNames
  <2> QED
    BY <2>1, <2>2, <2>3 DEF NamesInv
<1> QED
  BY <1>1, <1>2, <1>3 DEF MkNext, allVars, readVars

(* A run of mpimemu-mkstats replaces no table that was there when it       *)
(* listed its data, whatever other runs do.                                *)
THEOREM TablesAreKept == MkSpec => TablesKept
<1> DEFINE Keeps == \A r \in Reader : reader'[r] # reader[r] =>
       \A f \in before[r].tables : f \in DOMAIN tables' /\ tables'[f] = tables[f]
<1>1. ASSUME NamesInv, [MkNext]_allVars PROVE [Keeps]_allVars
  <2> SUFFICES ASSUME NEW r \in Reader, reader'[r] # reader[r],
                      NEW f \in before[r].tables, MkNext
               PROVE  f \in DOMAIN tables' /\ tables'[f] = tables[f]
    BY <1>1
  <2>1. Shape /\ Named(r) /\ f \in DOMAIN tables /\ reader[r].kind \in Kind
    BY <1>1 DEF NamesInv, Named, Shape
  <2>2. Read(r)
    <3>1. \A d \in Driver : ~DriverStep(d) /\ ~Printed(d)
      BY DEF DriverStep, Printed, readVars
    <3>2. \A s \in Reader \ {r} : ~Read(s)
      BY <2>1, ReadLocal
    <3> QED
      BY <3>1, <3>2 DEF MkNext
  <2>3. CASE tables' = tables
    BY <2>1, <2>3
  <2>4. CASE OpenTable(r)
    <3>1. reader[r].at = "open" /\ OwnName(r, reader[r].kind) # f
      BY <2>1, <2>4, OpenTableEffect DEF Named
    <3> QED
      BY <2>1, <2>4, <3>1, OpenTableEffect
  <2>5. CASE CloseTable(r)
    <3>1. reader[r].at = "close" /\ OwnName(r, reader[r].kind) # f
      BY <2>1, <2>5, CloseTableEffect DEF Named
    <3> QED
      BY <2>1, <2>5, <3>1, CloseTableEffect
  <2> QED
    BY <2>2, <2>3, <2>4, <2>5 DEF Read, List, NoData, ReadPre, ReadPost, PickName
<1> QED
  BY InitNames, NextNames, <1>1, PTL DEF MkSpec, TablesKept

(***************************************************************************)
(* What a driver leaves in its directory, also once it has died.           *)
(***************************************************************************)

Owns(d) == runs[d] > 0

(* A directory with logs belongs to one driver for good.                   *)
OwnersApart ==
  /\ \A d \in Driver : Owns(d) => tried[d] \in dirs
  /\ \A d \in Driver, e \in Driver :
       Owns(d) /\ (Owns(e) \/ Holds(e)) /\ tried[d] = tried[e] => d = e
  /\ \A n \in Name : DOMAIN logs[n] # {} => \E d \in Driver : Owns(d) /\ tried[d] = n

RunSizes(d) == {numpes[d][k] : k \in 1..runs[d]}

(* Its logs are those of the sizes run, and all but the last are whole.    *)
Leaves(d) ==
  (Growing(setup[d]) /\ Owns(d)) =>
    /\ Increasing(numpes[d])
    /\ DOMAIN logs[tried[d]] = RunSizes(d)
    /\ \A k \in 1..runs[d] :
         k < runs[d] \/ pc[d] \in {"next", "done"} =>
           logs[tried[d]][numpes[d][k]] = "whole"

LogsInv ==
  /\ SeriesInv
  /\ OwnersApart
  /\ \A d \in Driver : Leaves(d)

(* A driver comes to hold a directory by making it.                        *)
LEMMA HoldersStep ==
  ASSUME DirInv, NEW d \in Driver, Step(d), Owns(d)' \/ Holds(d)'
  PROVE  /\ tried'[d] = tried[d]
         /\ Owns(d) \/ Holds(d) \/ tried[d] \notin dirs
<1> USE DEF DirInv, TypeOK, Fresh, Goto, Holds, Owns, Working
<1>1. CASE GetSetup(d) BY <1>1 DEF GetSetup
<1>2. CASE NoSetup(d) BY <1>2 DEF NoSetup, Die
<1>3. CASE Taken(d) BY <1>3 DEF Taken
<1>4. CASE Free(d) BY <1>4 DEF Free
<1>5. CASE MakeDir(d) BY <1>5 DEF MakeDir
<1>6. CASE MakeDirFails(d) BY <1>6 DEF MakeDirFails, Die
<1>7. CASE Lock(d) BY <1>7 DEF Lock
<1>8. CASE BadFunction(d) BY <1>8 DEF BadFunction, Die
<1>9. CASE Collect(d) BY <1>9 DEF Collect
<1>10. CASE FinishSizes(d) BY <1>10 DEF FinishSizes
<1>11. CASE StartRun(d) BY <1>11 DEF StartRun
<1>12. CASE StartFails(d) BY <1>12 DEF StartFails, Die
<1>13. CASE RunEnds(d) BY <1>13 DEF RunEnds
<1>14. CASE RunFails(d) BY <1>14 DEF RunFails
<1>15. CASE Finish(d) BY <1>15 DEF Finish
<1> QED
  BY <1>1, <1>2, <1>3, <1>4, <1>5, <1>6, <1>7, <1>8, <1>9, <1>10, <1>11,
     <1>12, <1>13, <1>14, <1>15 DEF Step

(* Only a running driver writes logs; it owns its directory then.          *)
LEMMA WritersOwn ==
  ASSUME DirInv, NEW d \in Driver, Step(d)
  PROVE  /\ logs' = logs \/ Owns(d)'
         /\ Owns(d) => Owns(d)'
<1> USE DEF DirInv, TypeOK, Fresh, Goto, Owns
<1>1. CASE GetSetup(d) BY <1>1 DEF GetSetup
<1>2. CASE NoSetup(d) BY <1>2 DEF NoSetup, Die
<1>3. CASE Taken(d) BY <1>3 DEF Taken
<1>4. CASE Free(d) BY <1>4 DEF Free
<1>5. CASE MakeDir(d) BY <1>5 DEF MakeDir
<1>6. CASE MakeDirFails(d) BY <1>6 DEF MakeDirFails, Die
<1>7. CASE Lock(d) BY <1>7 DEF Lock
<1>8. CASE BadFunction(d) BY <1>8 DEF BadFunction, Die
<1>9. CASE Collect(d) BY <1>9 DEF Collect
<1>10. CASE FinishSizes(d) BY <1>10 DEF FinishSizes
<1>11. CASE StartRun(d) BY <1>11 DEF StartRun
<1>12. CASE StartFails(d) BY <1>12 DEF StartFails, Die
<1>13. CASE RunEnds(d) BY <1>13 DEF RunEnds
<1>14. CASE RunFails(d) BY <1>14 DEF RunFails
<1>15. CASE Finish(d) BY <1>15 DEF Finish
<1> QED
  BY <1>1, <1>2, <1>3, <1>4, <1>5, <1>6, <1>7, <1>8, <1>9, <1>10, <1>11,
     <1>12, <1>13, <1>14, <1>15 DEF Step

LEMMA StepOwners ==
  ASSUME DirInv, OwnersApart, NEW d \in Driver, Step(d)
  PROVE  OwnersApart'
<1>1. /\ TypeOK /\ DirInv'
      /\ dirs \subseteq dirs'
      /\ \A n \in Name : n # tried[d] => logs'[n] = logs[n]
      /\ ~Holds(d) => logs' = logs
      /\ \A e \in Driver : e # d => /\ pc'[e] = pc[e] /\ tried'[e] = tried[e]
                                    /\ runs'[e] = runs[e]
  BY StepElsewhere, StepOthers, StepDirInv DEF DirInv
<1>2. \A e \in Driver : e # d => (Owns(e)' <=> Owns(e)) /\ (Holds(e)' <=> Holds(e))
  BY <1>1 DEF Owns, Holds, Working
<1>3. Owns(d)' \/ Holds(d)' => /\ tried'[d] = tried[d]
                               /\ Owns(d) \/ Holds(d) \/ tried[d] \notin dirs
  BY HoldersStep
<1>4. Owns(d)' => tried'[d] \in dirs'
  <2>1. CASE Owns(d)
    BY <1>1, <1>3, <2>1 DEF OwnersApart
  <2>2. CASE Holds(d)'
    BY <1>1, <2>2 DEF DirInv, Apart
  <2>3. CASE ~Owns(d) /\ ~Holds(d)'
    BY <2>3 DEF Step, Owns, Holds, Working, DirInv, TypeOK, Goto, Die, GetSetup, NoSetup, Taken,
                Free, MakeDir, MakeDirFails, Lock, BadFunction, Collect, FinishSizes, StartRun,
                StartFails, RunEnds, RunFails, Finish
  <2> QED
    BY <2>1, <2>2, <2>3
<1>5. \A e \in Driver : Owns(e)' => tried'[e] \in dirs'
  BY <1>1, <1>2, <1>4 DEF OwnersApart
<1>6. ASSUME NEW e \in Driver, NEW f \in Driver, Owns(e)', Owns(f)' \/ Holds(f)',
             tried'[e] = tried'[f]
      PROVE  e = f
  <2>1. CASE e # d /\ f # d
    BY <1>1, <1>2, <1>6, <2>1 DEF OwnersApart
  <2>2. CASE e # d /\ f = d
    <3>1. Owns(e) /\ tried[e] \in dirs /\ tried[e] = tried[d]
      BY <1>1, <1>2, <1>3, <1>6, <2>2 DEF OwnersApart
    <3> QED
      BY <1>3, <1>6, <2>2, <3>1 DEF OwnersApart
  <2>3. CASE e = d /\ f # d
    <3>1. /\ Owns(f) \/ Holds(f)
          /\ tried[d] = tried[f]
      BY <1>1, <1>2, <1>3, <1>6, <2>3
    <3>2. tried[f] \in dirs
      BY <3>1 DEF OwnersApart, DirInv, Apart
    <3> QED
      BY <1>3, <1>6, <2>3, <3>1, <3>2 DEF OwnersApart, DirInv, Apart
  <2> QED
    BY <2>1, <2>2, <2>3
<1>7. ASSUME NEW n \in Name, DOMAIN logs'[n] # {}
      PROVE  \E e \in Driver : Owns(e)' /\ tried'[e] = n
  <2>1. CASE logs' = logs
    <3>1. PICK e \in Driver : Owns(e) /\ tried[e] = n
      BY <1>7, <2>1 DEF OwnersApart
    <3> QED
      BY <1>1, <1>2, <1>3, <3>1, WritersOwn
  <2>2. CASE logs' # logs
    <3>1. Owns(d)' /\ tried'[d] = tried[d]
      BY <1>3, <2>2, WritersOwn
    <3>2. CASE n = tried[d]
      BY <3>1, <3>2
    <3>3. CASE n # tried[d]
      <4>1. PICK e \in Driver : Owns(e) /\ tried[e] = n
        BY <1>1, <1>7, <3>3 DEF OwnersApart
      <4> QED
        BY <1>1, <1>2, <3>3, <4>1
    <3> QED
      BY <3>2, <3>3
  <2> QED
    BY <2>1, <2>2
<1> QED
  BY <1>5, <1>6, <1>7 DEF OwnersApart

LEMMA StepLeaves ==
  ASSUME LogsInv, NEW d \in Driver, Step(d)
  PROVE  Leaves(d)'
<1> SUFFICES ASSUME Growing(setup[d])', Owns(d)'
             PROVE  /\ Increasing(numpes'[d])
                    /\ DOMAIN logs'[tried'[d]] = {numpes'[d][k] : k \in 1..runs'[d]}
                    /\ \A k \in 1..runs'[d] :
                         k < runs'[d] \/ pc'[d] \in {"next", "done"} =>
                           logs'[tried'[d]][numpes'[d][k]] = "whole"
  BY DEF Leaves, RunSizes
<1>1. /\ SeriesInv /\ SeriesInv' /\ DirInv /\ DirInv' /\ TypeOK /\ TypeOK'
      /\ setup' = setup /\ Growing(setup[d])
      /\ GrownSizes(d) /\ GrownSizes(d)' /\ InOrder(d) /\ InOrder(d)'
      /\ Fresh(d) /\ Fresh(d)'
  <2>1. SeriesInv /\ DirInv /\ TypeOK
    BY DEF LogsInv, SeriesInv, DirInv
  <2>2. SeriesInv'
    BY <2>1, StepSeriesInv
  <2>3. setup' = setup
    BY <2>1, StepOthers
  <2> QED
    BY <2>1, <2>2, <2>3, ByDriver, StepInOrder DEF SeriesInv, DirInv
<1>2. runs'[d] \in Nat /\ runs'[d] > 0 /\ runs'[d] <= Len(numpes'[d]) /\ numpes'[d] \in Seq(Nat)
  BY <1>1 DEF TypeOK, Owns, Fresh
<1>3. CASE Working(d)'
  <2>1. pc'[d] \in {"next", "run", "done"}
    BY <1>1, <1>2, <1>3 DEF Working, Fresh
  <2>2. Increasing(numpes'[d])
    BY <1>1, <2>1 DEF GrownSizes, Finished
  <2>3. \A k \in 1..runs'[d] :
          /\ numpes'[d][k] \in DOMAIN logs'[tried'[d]]
          /\ logs'[tried'[d]][numpes'[d][k]] =
               IF k = runs'[d] /\ pc'[d] = "run" THEN "open" ELSE "whole"
    BY <1>1, <1>3 DEF InOrder
  <2>4. DOMAIN logs'[tried'[d]] \subseteq {numpes'[d][k] : k \in 1..runs'[d]}
    BY <1>1, <1>3 DEF DirInv, OwnDirectory
  <2>5. \A k \in 1..runs'[d] :
          k < runs'[d] \/ pc'[d] \in {"next", "done"} =>
            logs'[tried'[d]][numpes'[d][k]] = "whole"
    BY <1>2, <2>3
  <2>6. {numpes'[d][k] : k \in 1..runs'[d]} \subseteq DOMAIN logs'[tried'[d]]
    BY <2>3
  <2> QED
    BY <2>2, <2>4, <2>5, <2>6
<1>4. CASE ~Working(d)'
  <2>1. StartFails(d) \/ RunFails(d)
    BY <1>1, <1>2, <1>4
       DEF Step, Working, Fresh, TypeOK, Goto, Die, GetSetup, NoSetup, Taken, Free, MakeDir,
           MakeDirFails, Lock, BadFunction, Collect, FinishSizes, StartRun, StartFails, RunEnds,
           RunFails, Finish
  <2>2. CASE StartFails(d)
    <3>1. /\ pc[d] = "next" /\ pc'[d] = "dead"
          /\ UNCHANGED <<setup, tried, lock, dirs, x, numpes, runs, logs>>
      BY <1>1, <2>2 DEF StartFails, Die, Goto, TypeOK
    <3> QED
      BY <1>1, <3>1 DEF LogsInv, Leaves, RunSizes, Owns
  <2>3. CASE RunFails(d)
    <3>1. /\ pc[d] = "run" /\ pc'[d] = "dead" /\ WriteLog(d, numpes[d][runs[d]], "failed")
          /\ UNCHANGED <<setup, tried, lock, dirs, x, numpes, runs>>
      BY <1>1, <2>3 DEF RunFails, Goto, TypeOK, Size
    <3>2. /\ Increasing(numpes[d]) /\ runs[d] \in 1..Len(numpes[d])
          /\ DOMAIN logs[tried[d]] = RunSizes(d)
          /\ \A k \in 1..runs[d] : k < runs[d] => logs[tried[d]][numpes[d][k]] = "whole"
      BY <1>1, <1>2, <3>1 DEF LogsInv, Leaves, Owns
    <3>3. \A k \in 1..(runs[d] - 1) : numpes[d][k] \in DOMAIN logs[tried[d]]
      BY <1>2, <3>1, <3>2 DEF RunSizes
    <3>4. /\ logs'[tried[d]] = Written(logs[tried[d]], numpes[d][runs[d]], "failed")
          /\ \A k \in 1..(runs[d] - 1) :
               logs'[tried[d]][numpes[d][k]] = logs[tried[d]][numpes[d][k]]
      <4>1. "failed" \in Outcome
        BY DEF Outcome
      <4>2. logs'[tried[d]] = Written(logs[tried[d]], numpes[d][runs[d]], "failed")
        BY <1>1, <3>1, <4>1, WriteLogEffect
      <4>3. \A k \in 1..(runs[d] - 1) : numpes[d][k] \in DOMAIN logs[tried[d]] =>
              logs'[tried[d]][numpes[d][k]] = logs[tried[d]][numpes[d][k]]
        BY <1>1, <3>1, <3>2, <4>1, OneLogChanges
      <4> QED
        BY <3>3, <4>2, <4>3
    <3>5. DOMAIN logs'[tried[d]] = RunSizes(d)
      BY <1>2, <3>1, <3>2, <3>4 DEF Written, RunSizes
    <3>6. Increasing(numpes'[d])
      BY <3>1, <3>2
    <3>7. DOMAIN logs'[tried'[d]] = {numpes'[d][k] : k \in 1..runs'[d]}
      BY <3>1, <3>5 DEF RunSizes
    <3>8. ASSUME NEW k \in 1..runs'[d], k < runs'[d] \/ pc'[d] \in {"next", "done"}
          PROVE  logs'[tried'[d]][numpes'[d][k]] = "whole"
      <4>1. k \in 1..runs[d] /\ k < runs[d] /\ k \in 1..(runs[d] - 1)
        BY <1>2, <3>1, <3>8
      <4>2. logs[tried[d]][numpes[d][k]] = "whole"
        BY <3>2, <4>1
      <4> QED
        BY <3>1, <3>4, <4>1, <4>2
    <3> QED
      BY <3>6, <3>7, <3>8
  <2> QED
    BY <2>1, <2>2, <2>3
<1> QED
  BY <1>3, <1>4

LEMMA StepLogsInv ==
  ASSUME LogsInv, NEW d \in Driver, Step(d)
  PROVE  LogsInv'
<1>1. SeriesInv /\ DirInv /\ TypeOK /\ OwnersApart
  BY DEF LogsInv, SeriesInv, DirInv
<1>2. SeriesInv' /\ OwnersApart'
  BY <1>1, StepSeriesInv, StepOwners
<1>3. ASSUME NEW e \in Driver, e # d PROVE Leaves(e)'
  <2>1. /\ setup' = setup /\ pc'[e] = pc[e] /\ tried'[e] = tried[e]
        /\ numpes'[e] = numpes[e] /\ runs'[e] = runs[e] /\ tried[e] \in Name
        /\ \A n \in Name : n # tried[d] => logs'[n] = logs[n]
    BY <1>1, <1>3, StepOthers, StepElsewhere DEF TypeOK
  <2>2. Owns(e)' => logs'[tried[e]] = logs[tried[e]]
    <3>1. CASE logs' = logs
      BY <3>1
    <3>2. CASE logs' # logs
      <4>1. Owns(d)' /\ tried'[d] = tried[d]
        BY <1>1, <3>2, WritersOwn, HoldersStep
      <4>2. Owns(e)' => tried[e] # tried[d]
        BY <1>2, <1>3, <2>1, <4>1 DEF OwnersApart
      <4> QED
        BY <2>1, <4>2
    <3> QED
      BY <3>1, <3>2
  <2> QED
    BY <2>1, <2>2 DEF LogsInv, Leaves, RunSizes, Owns
<1> QED
  BY <1>2, <1>3, StepLeaves DEF LogsInv

LEMMA InitLogsInv == Init => LogsInv
<1> SUFFICES ASSUME Init PROVE LogsInv
  OBVIOUS
<1>1. SeriesInv
  BY InitSeriesInv
<1>2. \A d \in Driver : ~Owns(d)
  <2>1. \A d \in Driver : runs[d] = 0
    BY DEF Init
  <2>2. ~(0 > 0)
    OBVIOUS
  <2> QED
    BY <2>1, <2>2, Zenon DEF Owns
<1>3. \A n \in Name : DOMAIN logs[n] = {}
  BY DEF Init
<1> QED
  BY <1>1, <1>2, <1>3 DEF LogsInv, Leaves, OwnersApart

LEMMA NextLogsInv ==
  ASSUME LogsInv, [Next]_vars
  PROVE  LogsInv'
<1>1. CASE Next
  BY <1>1, StepLogsInv DEF Next
<1>2. CASE UNCHANGED vars
  <2>1. SeriesInv'
    BY NextSeriesInv DEF LogsInv
  <2> QED
    BY <1>2, <2>1 DEF vars, LogsInv, Leaves, RunSizes, Owns, OwnersApart, Holds, Working
<1> QED
  BY <1>1, <1>2

(***************************************************************************)
(* What a reader finds in a directory of a growing series.                 *)
(***************************************************************************)

AllGrow == \A d \in Driver : Growing(setup[d])

(* Of the sizes that have a log all but the greatest are whole.            *)
LEMMA SmallerIsWhole ==
  ASSUME LogsInv, AllGrow, NEW n \in Name, NEW s \in DOMAIN logs[n]
  PROVE  /\ s \in Nat
         /\ \A t \in DOMAIN logs[n] : s < t => logs[n][s] = "whole"
<1>1. PICK d \in Driver : Owns(d) /\ tried[d] = n
  BY DEF LogsInv, OwnersApart
<1>2. /\ Increasing(numpes[d]) /\ DOMAIN logs[n] = RunSizes(d)
      /\ \A k \in 1..runs[d] : k < runs[d] => logs[n][numpes[d][k]] = "whole"
  BY <1>1 DEF LogsInv, Leaves, AllGrow
<1>3. numpes[d] \in Seq(Nat) /\ runs[d] \in Nat /\ runs[d] <= Len(numpes[d])
  BY <1>1 DEF LogsInv, SeriesInv, DirInv, TypeOK, Fresh
<1>4. PICK j \in 1..runs[d] : s = numpes[d][j]
  BY <1>2 DEF RunSizes
<1>5. s \in Nat
  BY <1>3, <1>4
<1>6. ASSUME NEW t \in DOMAIN logs[n], s < t PROVE logs[n][s] = "whole"
  <2>1. PICK k \in 1..runs[d] : t = numpes[d][k]
    BY <1>2 DEF RunSizes
  <2>2. numpes[d][k] \in Nat /\ numpes[d][j] \in Nat /\ numpes[d][j] < numpes[d][k]
    <3>1. k \in 1..Len(numpes[d]) /\ j \in 1..Len(numpes[d])
      BY <1>3, <1>4, <2>1
    <3>2. numpes[d][k] \in Nat /\ numpes[d][j] \in Nat
      BY <1>3, <3>1
    <3> QED
      BY <1>4, <1>6, <2>1, <3>2
  <2>3. ~(k < j)
    <3> SUFFICES ASSUME k < j PROVE FALSE
      OBVIOUS
    <3>1. k \in 1..Len(numpes[d]) /\ j \in 1..Len(numpes[d])
      BY <1>3, <1>4, <2>1
    <3>2. numpes[d][k] < numpes[d][j]
      BY <1>2, <3>1 DEF Increasing
    <3> QED
      BY <2>2, <3>2
  <2>4. j # k
    BY <1>4, <1>5, <1>6, <2>1
  <2>5. j < runs[d]
    BY <1>3, <1>4, <2>1, <2>3, <2>4
  <2> QED
    BY <1>2, <1>4, <2>5
<1> QED
  BY <1>5, <1>6

(* A log that is there stays.                                              *)
LEMMA LogsStay ==
  ASSUME LogsInv, [Next]_vars, NEW n \in Name
  PROVE  DOMAIN logs[n] \subseteq DOMAIN logs'[n]
<1>1. CASE UNCHANGED vars
  BY <1>1 DEF vars
<1>2. ASSUME NEW d \in Driver, Step(d) PROVE DOMAIN logs[n] \subseteq DOMAIN logs'[n]
  <2>1. ASSUME NEW size, NEW outcome \in Outcome, WriteLog(d, size, outcome)
        PROVE  DOMAIN logs[n] \subseteq DOMAIN logs'[n]
    <3>1. /\ logs'[tried[d]] = Written(logs[tried[d]], size, outcome)
          /\ n # tried[d] => logs'[n] = logs[n]
      BY <2>1, WriteLogEffect DEF LogsInv, SeriesInv, DirInv
    <3> QED
      BY <3>1 DEF Written
  <2>2. CASE logs' = logs
    BY <2>2
  <2>3. CASE StartRun(d)
    BY <2>1, <2>3 DEF StartRun, Outcome
  <2>4. CASE RunEnds(d)
    BY <2>1, <2>4 DEF RunEnds, Outcome
  <2>5. CASE RunFails(d)
    BY <2>1, <2>5 DEF RunFails, Outcome
  <2> QED
    BY <1>2, <2>2, <2>3, <2>4, <2>5
       DEF Step, GetSetup, NoSetup, Die, Taken, Free, MakeDir, MakeDirFails, Lock, BadFunction,
           Collect, FinishSizes, StartFails, Finish
<1> QED
  BY <1>1, <1>2 DEF Next

(* There is one way to put a finite set of numbers in order: its k-th      *)
(* number has k of them up to itself.                                      *)
LEMMA CountUpTo ==
  ASSUME NEW N \in Nat, NEW S \in SUBSET Nat, IsFiniteSet(S), Cardinality(S) = N,
         NEW f \in [1..N -> S], Ascending(f), NEW k \in 1..N
  PROVE  /\ IsFiniteSet({t \in S : t <= f[k]})
         /\ Cardinality({t \in S : t <= f[k]}) = k
<1> DEFINE upTo == {t \in S : t <= f[k]}
           h == [j \in 1..k |-> f[j]]
<1>1. \A i \in 1..N, j \in 1..N : i < j => f[i] < f[j]
  BY DEF Ascending
<1>2. \A i \in 1..N : f[i] \in Nat
  OBVIOUS
<1>3. \A i \in 1..N, j \in 1..N : f[i] = f[j] => i = j
  BY <1>1, <1>2
<1>4. f \in Injection(1..N, S)
  BY <1>3 DEF Injection, IsInjective
<1>5. Cardinality(1..N) = N
  BY FS_Interval
<1>6. \A t \in S : \E j \in 1..N : f[j] = t
  <2>1. f \in Surjection(1..N, S)
    BY <1>4, <1>5, FS_Injection
  <2> QED
    BY <2>1 DEF Surjection
<1>7. h \in Bijection(1..k, upTo)
  <2>1. \A j \in 1..k : j \in 1..N /\ f[j] <= f[k]
    BY <1>1, <1>2
  <2>2. h \in [1..k -> upTo]
    BY <2>1
  <2>3. \A i \in 1..k, j \in 1..k : h[i] = h[j] => i = j
    BY <1>3, <2>1
  <2>4. ASSUME NEW t \in upTo PROVE \E j \in 1..k : h[j] = t
    <3>1. PICK j \in 1..N : f[j] = t
      BY <1>6
    <3>2. ~(k < j)
      BY <1>1, <1>2, <3>1
    <3>3. j \in 1..k
      BY <3>2
    <3> QED
      BY <3>1, <3>3
  <2> QED
    BY <2>2, <2>3, <2>4 DEF Bijection, Injection, Surjection, IsInjective
<1>8. ExistsBijection(1..k, upTo)
  BY <1>7 DEF ExistsBijection
<1> QED
  BY <1>8, FS_CountingElements, FS_NatBijection

LEMMA OneOrder ==
  ASSUME NEW N \in Nat, NEW S \in SUBSET Nat, IsFiniteSet(S), Cardinality(S) = N,
         NEW f \in [1..N -> S], Ascending(f), NEW g \in [1..N -> S], Ascending(g)
  PROVE  f = g
<1>1. ASSUME NEW a \in [1..N -> S], Ascending(a), NEW b \in [1..N -> S], Ascending(b),
             NEW k \in 1..N, a[k] < b[k]
      PROVE  FALSE
  <2> DEFINE A == {t \in S : t <= a[k]}
             B == {t \in S : t <= b[k]}
  <2>0. \A f1 \in [1..N -> S] : Ascending(f1) =>
          /\ IsFiniteSet({t \in S : t <= f1[k]})
          /\ Cardinality({t \in S : t <= f1[k]}) = k
    BY CountUpTo
  <2>1. IsFiniteSet(B) /\ Cardinality(A) = k /\ Cardinality(B) = k
    BY <1>1, <2>0, Zenon
  <2>2. a[k] \in Nat /\ b[k] \in Nat
    OBVIOUS
  <2>3. A \in SUBSET B
    <3>1. ASSUME NEW t \in S, t <= a[k] PROVE t <= b[k]
      BY <1>1, <2>2, <3>1
    <3> QED
      BY <3>1
  <2>4. b[k] \in B /\ b[k] \notin A
    BY <1>1, <2>2
  <2> HIDE DEF A, B
  <2> QED
    BY <2>1, <2>3, <2>4, FS_Subset
<1>2. ASSUME NEW k \in 1..N PROVE f[k] = g[k]
  <2>1. f[k] \in Nat /\ g[k] \in Nat
    OBVIOUS
  <2>2. ~(f[k] < g[k]) /\ ~(g[k] < f[k])
    BY <1>1
  <2> QED
    BY <2>1, <2>2
<1>3. f = [k \in 1..N |-> f[k]] /\ g = [k \in 1..N |-> g[k]]
  OBVIOUS
<1> QED
  BY <1>2, <1>3, Zenon

(* The sizes in a directory can be sorted: the driver has run them in this *)
(* order.                                                                  *)
LEMMA DirSorted ==
  ASSUME LogsInv, NEW d \in Driver, Owns(d), Growing(setup[d])
  PROVE  LET S == DOMAIN logs[tried[d]]  F == DataFiles(tried[d]) IN
         /\ IsFiniteSet(S) /\ Cardinality(S) = runs[d] /\ S \in SUBSET Nat
         /\ F \in [1..runs[d] -> S] /\ Ascending(F)
         /\ F \in Seq(Nat) /\ Len(F) = runs[d] /\ runs[d] > 0
<1> DEFINE n == tried[d]
           S == DOMAIN logs[n]
           R == runs[d]
           f == [k \in 1..R |-> numpes[d][k]]
<1>2. Increasing(numpes[d]) /\ S = {numpes[d][k] : k \in 1..R}
  BY DEF LogsInv, Leaves, RunSizes
<1>3. numpes[d] \in Seq(Nat) /\ R \in Nat /\ R > 0 /\ R <= Len(numpes[d])
  BY DEF LogsInv, SeriesInv, DirInv, TypeOK, Fresh, Owns
<1>4. \A k \in 1..R : numpes[d][k] \in Nat
  BY <1>3
<1>5. \A j \in 1..R, k \in 1..R : j < k => numpes[d][j] < numpes[d][k]
  <2>1. \A j \in 1..R : j \in 1..Len(numpes[d])
    BY <1>3
  <2> QED
    BY <1>2, <2>1 DEF Increasing
<1>6. f \in Bijection(1..R, S)
  <2>1. f \in [1..R -> S]
    BY <1>2
  <2>2. \A j \in 1..R, k \in 1..R : f[j] = f[k] => j = k
    BY <1>4, <1>5
  <2>3. \A s \in S : \E k \in 1..R : f[k] = s
    BY <1>2
  <2> QED
    BY <2>1, <2>2, <2>3 DEF Bijection, Injection, Surjection, IsInjective
<1>7. Cardinality(S) = R /\ IsFiniteSet(S)
  <2>1. ExistsBijection(1..R, S)
    BY <1>6 DEF ExistsBijection
  <2> QED
    BY <1>3, <2>1, FS_CountingElements, FS_NatBijection
<1>8. f \in [1..Cardinality(S) -> S] /\ Ascending(f)
  <2>1. \A j \in 1..R, k \in 1..R : j < k => f[j] < f[k]
    BY <1>5
  <2> QED
    BY <1>2, <1>7, <2>1 DEF Ascending
<1>9. DataFiles(n) \in [1..Cardinality(S) -> S] /\ Ascending(DataFiles(n))
  BY <1>8 DEF DataFiles
<1>10. DataFiles(n) \in Seq(Nat) /\ Len(DataFiles(n)) = R /\ S \in SUBSET Nat
  <2>1. S \subseteq Nat
    BY <1>2, <1>4
  <2>2. DataFiles(n) \in [1..R -> Nat] /\ DOMAIN DataFiles(n) = 1..R
    BY <1>7, <1>9, <2>1
  <2>3. DataFiles(n) \in Seq(Nat)
    BY <1>3, <2>2, SeqDef
  <2> QED
    BY <1>3, <2>1, <2>2, <2>3, LenProperties
<1> QED
  BY <1>3, <1>7, <1>9, <1>10

LEMMA FilesSorted ==
  ASSUME LogsInv, AllGrow, NEW n \in Name, DOMAIN logs[n] # {}
  PROVE  /\ DataFiles(n) \in Seq(Nat) /\ Len(DataFiles(n)) > 0
         /\ Increasing(DataFiles(n))
         /\ \A i \in 1..Len(DataFiles(n)) : DataFiles(n)[i] \in DOMAIN logs[n]
<1>1. PICK d \in Driver : Owns(d) /\ tried[d] = n
  BY DEF LogsInv, OwnersApart
<1>2. /\ DataFiles(n) \in [1..runs[d] -> DOMAIN logs[n]] /\ Ascending(DataFiles(n))
      /\ DataFiles(n) \in Seq(Nat) /\ Len(DataFiles(n)) = runs[d] /\ runs[d] > 0
  BY <1>1, DirSorted DEF AllGrow
<1> QED
  BY <1>2 DEF Ascending, Increasing

-----------------------------------------------------------------------------
(* What a reader has in hand: sizes that are still to read, above those it *)
(* has rows of, and at most the last size has had a cut value.             *)
TableRow == [size : Nat, cut : BOOLEAN]

GoodRows(rows, last) ==
  /\ rows \in Seq(TableRow)
  /\ \A i \in 1..Len(rows) :
       /\ i > 1 => rows[i - 1].size < rows[i].size
       /\ rows[i].cut => rows[i].size = last

Below(rows, size) == \A i \in 1..Len(rows) : rows[i].size < size

UpTo(rows, size) == \A i \in 1..Len(rows) : rows[i].size <= size

RowsOf(me, k) ==
  /\ GoodRows(me.rows[k], me.range[2])
  /\ me.files # << >> =>
       /\ UpTo(me.rows[k], me.files[1])
       /\ k = "proc" \/ me.kind = "node" => Below(me.rows[k], me.files[1])

FilesOf(me) ==
  /\ me.input \in Name
  /\ me.range[2] \in DOMAIN logs[me.input]
  /\ me.files \in Seq(Nat) /\ Increasing(me.files)
  /\ \A i \in 1..Len(me.files) :
       me.files[i] \in DOMAIN logs[me.input] /\ me.files[i] <= me.range[2]
  /\ me.pre = "cut" /\ me.files # << >> => me.files[1] = me.range[2]
  /\ me.at # "read" => me.files = << >>

RowsInv(r) ==
  LET me == reader[r] IN
    IF me.at \in {"start", "dead"} THEN \A k \in Kind : me.rows[k] = << >>
    ELSE FilesOf(me) /\ \A k \in Kind : RowsOf(me, k)

CutInv ==
  /\ NamesInv
  /\ LogsInv
  /\ AllGrow => \A r \in Reader : RowsInv(r)

(* A size that is not the last has a whole log, and its sections are good. *)
LEMMA FoundGood ==
  ASSUME LogsInv, AllGrow, NEW r \in Reader, FilesOf(reader[r]), reader[r].files # << >>,
         reader[r].kind \in Kind, NEW when \in {"pre", "post"},
         reader[r].files[1] # reader[r].range[2]
  PROVE  Found(r, when) = "good"
<1> DEFINE me == reader[r]  s == me.files[1]  n == me.input  sec == Section[me.kind][when]
<1>1. me.files \in Seq(Nat) /\ 1 \in 1..Len(me.files) /\ Head(me.files) = s
  BY DEF FilesOf
<1>2. s \in DOMAIN logs[n] /\ me.range[2] \in DOMAIN logs[n] /\ s <= me.range[2] /\ n \in Name
  BY <1>1 DEF FilesOf
<1>3. s \in Nat /\ me.range[2] \in Nat
  BY <1>2, SmallerIsWhole
<1>4. logs[n][s] = "whole"
  <2>1. s < me.range[2]
    BY <1>2, <1>3
  <2> QED
    BY <1>2, <2>1, SmallerIsWhole
<1>5. OnDisk(n, s) = 8
  BY <1>4 DEF OnDisk, Whole
<1>6. sec \in 1..4
  BY DEF Section, Kind
<1>7. DataString(n, s, sec) = "good"
  <2>1. OnDisk(n, s) >= 2 * sec /\ OnDisk(n, s) # 2 * sec - 1 /\ ~(OnDisk(n, s) < 2 * sec - 1)
    BY <1>5, <1>6
  <2> QED
    BY <2>1 DEF DataString
<1> QED
  BY <1>1, <1>7 DEF Found

LEMMA ReadPreRows ==
  ASSUME CutInv, AllGrow, NEW r \in Reader, ReadPre(r)
  PROVE  RowsInv(r)'
<1> DEFINE me == reader[r]
<1>1. /\ Shape /\ RowsInv(r) /\ me.kind \in Kind
      /\ logs' = logs
  BY DEF CutInv, NamesInv, Shape, ReadPre, Become, vars
<1>2. /\ reader'[r].at = me.at /\ reader'[r].input = me.input /\ reader'[r].range = me.range
      /\ reader'[r].files = me.files /\ reader'[r].kind = me.kind /\ reader'[r].rows = me.rows
      /\ reader'[r].pre = Found(r, "pre") /\ me.at = "read" /\ me.files # << >>
  BY <1>1, ReadPreEffect DEF Same, Fields
<1>3. FilesOf(me) /\ \A k \in Kind : RowsOf(me, k)
  BY <1>1, <1>2 DEF RowsInv
<1>4. Found(r, "pre") = "cut" => me.files[1] = me.range[2]
  BY <1>1, <1>2, <1>3, FoundGood DEF CutInv
<1>5. FilesOf(reader[r])'
  BY <1>1, <1>2, <1>3, <1>4 DEF FilesOf
<1>6. ASSUME NEW k \in Kind PROVE RowsOf(reader[r], k)'
  BY <1>2, <1>3 DEF RowsOf
<1> QED
  BY <1>2, <1>5, <1>6 DEF RowsInv

(* The row added.                                                          *)
LEMMA RowFound ==
  ASSUME CutInv, AllGrow, NEW r \in Reader, FilesOf(reader[r]), reader[r].files # << >>
  PROVE  \/ FoundRow(r) = << >>
         \/ \E row \in TableRow :
              /\ FoundRow(r) = << row >>
              /\ row.size = reader[r].files[1]
              /\ row.cut => row.size = reader[r].range[2]
<1> DEFINE me == reader[r]  s == me.files[1]  post == Found(r, "post")
           row == [size |-> s, cut |-> "cut" \in {me.pre, post}]
<1>1. me.files \in Seq(Nat) /\ Head(me.files) = s /\ s \in Nat
  BY DEF FilesOf
<1>2. FoundRow(r) = << >> \/ FoundRow(r) = << row >>
  BY <1>1 DEF FoundRow, Row
<1>3. row \in TableRow /\ row.size = s
  BY <1>1 DEF TableRow
<1>4. row.cut => s = me.range[2]
  <2>1. me.pre = "cut" => s = me.range[2]
    BY DEF FilesOf
  <2>2. post = "cut" => s = me.range[2]
    BY FoundGood DEF CutInv, NamesInv, Shape
  <2> QED
    BY <2>1, <2>2
<1> QED
  BY <1>2, <1>3, <1>4

LEMMA RowSizes ==
  ASSUME NEW rows \in Seq(TableRow), NEW i \in 1..Len(rows)
  PROVE  rows[i].size \in Nat
<1>1. rows[i] \in TableRow
  OBVIOUS
<1>2. \A row \in TableRow : row.size \in Nat
  BY DEF TableRow
<1> QED
  BY <1>1, <1>2

LEMMA AddedRow ==
  ASSUME NEW rows, NEW last, NEW size \in Nat, NEW row \in TableRow,
         GoodRows(rows, last), Below(rows, size), row.size = size, row.cut => size = last
  PROVE  GoodRows(rows \o << row >>, last) /\ UpTo(rows \o << row >>, size)
<1> DEFINE new == rows \o << row >>
<1>1. /\ rows \in Seq(TableRow)
      /\ new \in Seq(TableRow) /\ Len(new) = Len(rows) + 1 /\ Len(rows) \in Nat
      /\ new[Len(rows) + 1] = row
      /\ \A i \in 1..Len(rows) : new[i] = rows[i]
  BY DEF GoodRows
<1>2. \A i \in 1..Len(rows) : rows[i].size \in Nat
  BY <1>1, RowSizes
<1> HIDE DEF new
<1>3. ASSUME NEW i \in 1..Len(new)
      PROVE  /\ i > 1 => new[i - 1].size < new[i].size
             /\ new[i].cut => new[i].size = last
             /\ new[i].size <= size
  <2>1. CASE i \in 1..Len(rows)
    <3>1. new[i] = rows[i] /\ (i > 1 => new[i - 1] = rows[i - 1])
      BY <1>1, <2>1
    <3> QED
      BY <1>2, <2>1, <3>1 DEF GoodRows, Below
  <2>2. CASE i = Len(rows) + 1
    <3>1. new[i] = row /\ (i > 1 => new[i - 1] = rows[i - 1] /\ i - 1 \in 1..Len(rows))
      BY <1>1, <2>2
    <3> QED
      BY <3>1 DEF Below
  <2> QED
    BY <1>1, <2>1, <2>2
<1> QED
  BY <1>1, <1>3 DEF GoodRows, UpTo, new

LEMMA NextSize ==
  ASSUME NEW rows \in Seq(TableRow), NEW size \in Nat, NEW next \in Nat,
         UpTo(rows, size), size < next
  PROVE  Below(rows, next) /\ UpTo(rows, next)
<1>1. \A i \in 1..Len(rows) : rows[i].size \in Nat
  BY RowSizes
<1> QED
  BY <1>1 DEF UpTo, Below

LEMMA TailIncreases ==
  ASSUME NEW s \in Seq(Nat), Len(s) > 0, Increasing(s)
  PROVE  /\ Tail(s) \in Seq(Nat) /\ Increasing(Tail(s))
         /\ \A i \in 1..Len(Tail(s)) : \E j \in 1..Len(s) : Tail(s)[i] = s[j]
         /\ Tail(s) # << >> => s[1] < Tail(s)[1]
<1>1. /\ Tail(s) \in Seq(Nat) /\ Len(Tail(s)) = Len(s) - 1
      /\ \A i \in 1..(Len(s) - 1) : Tail(s)[i] = s[i + 1] /\ i \in 1..Len(s) /\ i + 1 \in 1..Len(s)
  OBVIOUS
<1> DEFINE t == Tail(s)
<1> HIDE DEF t
<1>2. \A j \in 1..Len(t), k \in 1..Len(t) : j < k => t[j] < t[k]
  BY <1>1 DEF Increasing, t
<1>3. Tail(s) # << >> => 1 \in 1..(Len(s) - 1)
  BY <1>1
<1> QED
  BY <1>1, <1>2, <1>3 DEF Increasing, t

LEMMA ReadPostRows ==
  ASSUME CutInv, AllGrow, NEW r \in Reader, ReadPost(r)
  PROVE  RowsInv(r)'
<1> DEFINE me == reader[r]  you == reader'[r]  row == FoundRow(r)
<1>1. /\ Shape /\ RowsInv(r) /\ me.kind \in Kind
      /\ logs' = logs
  BY DEF CutInv, NamesInv, Shape, ReadPost, Become, vars
<1>2. /\ you.at = "read" /\ you.input = me.input /\ you.range = me.range
      /\ you.pre = "none" /\ you.kind = Other(me.kind)
      /\ you.files = IF me.kind = "proc" THEN Tail(me.files) ELSE me.files
      /\ \A k \in Kind : you.rows[k] = IF k = me.kind THEN me.rows[k] \o row ELSE me.rows[k]
      /\ me.at = "read" /\ me.files # << >>
  BY <1>1, ReadPostEffect DEF Same
<1>3. FilesOf(me) /\ \A k \in Kind : RowsOf(me, k)
  BY <1>1, <1>2 DEF RowsInv
<1>4. /\ me.files \in Seq(Nat) /\ Len(me.files) > 0 /\ Increasing(me.files)
      /\ me.files[1] \in Nat
  BY <1>2, <1>3 DEF FilesOf
<1>5. LET rest == Tail(me.files) IN
        /\ rest \in Seq(Nat) /\ Increasing(rest)
        /\ \A i \in 1..Len(rest) : \E j \in 1..Len(me.files) : rest[i] = me.files[j]
        /\ rest # << >> => me.files[1] < rest[1] /\ rest[1] \in Nat
  <2> DEFINE s == me.files
  <2> HIDE DEF s
  <2>1. s \in Seq(Nat) /\ Len(s) > 0 /\ Increasing(s)
    BY <1>4 DEF s
  <2>2. /\ Tail(s) \in Seq(Nat) /\ Increasing(Tail(s))
        /\ \A i \in 1..Len(Tail(s)) : \E j \in 1..Len(s) : Tail(s)[i] = s[j]
        /\ Tail(s) # << >> => s[1] < Tail(s)[1]
    BY <2>1, TailIncreases
  <2>3. Tail(s) # << >> => Tail(s)[1] \in Nat
    BY <2>2
  <2> QED
    BY <2>2, <2>3 DEF s
<1>6. FilesOf(reader[r])'
  <2>1. CASE me.kind = "proc"
    <3>1. you.files = Tail(me.files)
      BY <1>2, <2>1
    <3>2. /\ you.files \in Seq(Nat) /\ Increasing(you.files)
          /\ \A i \in 1..Len(you.files) : \E j \in 1..Len(me.files) : you.files[i] = me.files[j]
      BY <1>5, <3>1
    <3> QED
      BY <1>1, <1>2, <1>3, <3>2 DEF FilesOf
  <2>2. CASE me.kind # "proc"
    BY <1>1, <1>2, <1>3, <2>2 DEF FilesOf
  <2> QED
    BY <2>1, <2>2
<1>7. ASSUME NEW k \in Kind PROVE RowsOf(reader[r], k)'
  <2> DEFINE old == me.rows[k]  new == you.rows[k]  last == me.range[2]
  <2>1. /\ GoodRows(old, last) /\ UpTo(old, me.files[1]) /\ old \in Seq(TableRow)
        /\ k = "proc" \/ me.kind = "node" => Below(old, me.files[1])
    BY <1>2, <1>3 DEF RowsOf, GoodRows
  <2>2. GoodRows(new, last) /\ UpTo(new, me.files[1])
    <3>1. CASE new = old
      BY <2>1, <3>1
    <3>2. CASE new # old
      <4>1. k = me.kind /\ new = old \o row
        BY <1>2, <3>2
      <4>2. old \o << >> = old
        BY <2>1
      <4>3. PICK this \in TableRow :
              row = << this >> /\ this.size = me.files[1] /\ (this.cut => this.size = last)
        BY <1>2, <1>3, <3>2, <4>1, <4>2, RowFound
      <4>4. Below(old, me.files[1])
        BY <1>1, <2>1, <4>1 DEF Kind
      <4> HIDE DEF old, new, last, me, you, row
      <4> QED
        BY <1>4, <2>1, <4>1, <4>3, <4>4, AddedRow
    <3> QED
      BY <3>1, <3>2
  <2>3. CASE me.kind = "proc" /\ you.files # << >>
    <3>0. you.files = Tail(me.files)
      BY <1>2, <2>3
    <3>1. me.files[1] < you.files[1] /\ you.files[1] \in Nat
      BY <1>5, <2>3, <3>0
    <3>2. Below(new, you.files[1]) /\ UpTo(new, you.files[1])
      BY <1>4, <2>2, <3>1, NextSize DEF GoodRows
    <3> QED
      BY <1>2, <2>2, <3>2 DEF RowsOf
  <2>4. CASE me.kind = "node"
    <3>1. you.files = me.files /\ you.kind = "proc"
      BY <1>2, <2>4 DEF Other
    <3>2. k = "proc" => new = old
      BY <1>2, <2>4
    <3> QED
      BY <1>2, <2>1, <2>2, <2>4, <3>1, <3>2 DEF RowsOf
  <2>5. CASE you.files = << >>
    BY <1>2, <2>2, <2>5 DEF RowsOf
  <2> QED
    BY <1>1, <2>3, <2>4, <2>5 DEF Kind
<1> QED
  BY <1>2, <1>6, <1>7 DEF RowsInv

LEMMA ListRows ==
  ASSUME CutInv, AllGrow, NEW r \in Reader, NEW n \in Name, List(r, n)
  PROVE  RowsInv(r)'
<1> DEFINE you == reader'[r]  F == DataFiles(n)
<1>1. /\ you.at = "read" /\ you.input = n /\ you.pre = "none" /\ you.files = F
      /\ you.range = <<F[1], F[Len(F)]>>
      /\ \A k \in Kind : you.rows[k] = << >>
      /\ DOMAIN logs[n] # {}
  BY ListEffect DEF CutInv, NamesInv
<1>2. logs' = logs
  BY DEF List, Become, vars
<1>3. /\ F \in Seq(Nat) /\ Len(F) > 0 /\ Increasing(F)
      /\ \A i \in 1..Len(F) : F[i] \in DOMAIN logs[n] /\ F[i] \in Nat
  BY <1>1, FilesSorted DEF CutInv
<1> HIDE DEF F
<1>4. \A i \in 1..Len(F) : F[i] <= F[Len(F)]
  BY <1>3 DEF Increasing
<1>5. you.range[2] = F[Len(F)] /\ F[Len(F)] \in DOMAIN logs[n]
  BY <1>1, <1>3
<1>6. FilesOf(reader[r])'
  BY <1>1, <1>2, <1>3, <1>4, <1>5 DEF FilesOf
<1>7. ASSUME NEW k \in Kind PROVE RowsOf(reader[r], k)'
  <2>1. you.rows[k] = << >>
    BY <1>1
  <2>2. Len(<< >>) = 0 /\ << >> \in Seq(TableRow) /\ \A i \in 1..0 : FALSE
    OBVIOUS
  <2> QED
    BY <2>1, <2>2 DEF RowsOf, GoodRows, UpTo, Below
<1> QED
  BY <1>1, <1>6, <1>7 DEF RowsInv

(* After the data are read, only the tables and their names change.        *)
LEMMA WriteRows ==
  ASSUME CutInv, AllGrow, NEW r \in Reader,
         PickName(r) \/ OpenTable(r) \/ CloseTable(r)
  PROVE  RowsInv(r)'
<1> DEFINE me == reader[r]  you == reader'[r]
<1>1. Shape /\ RowsInv(r) /\ logs' = logs
  BY DEF CutInv, NamesInv, PickName, OpenTable, CloseTable, Become, vars
<1>2. /\ Same(r, {"input", "files", "range", "pre", "rows"})
      /\ \/ me.at = "read" /\ me.files = << >>
         \/ me.at \in {"pick", "open", "close"}
      /\ you.at \in {"pick", "open", "close", "done"}
  <2> DEFINE Lasting == {"input", "files", "range", "pre", "rows"}
  <2>1. CASE PickName(r)
    <3>1. Same(r, Fields \ {"at", "index"}) /\ Lasting \subseteq Fields \ {"at", "index"}
      BY <1>1, <2>1, PickNameEffect DEF Fields
    <3> QED
      BY <1>1, <2>1, <3>1, PickNameEffect DEF Same
  <2>2. CASE OpenTable(r) \/ CloseTable(r)
    <3>1. Same(r, Fields \ {"at", "kind"}) /\ Lasting \subseteq Fields \ {"at", "kind"}
      BY <1>1, <2>2, OpenTableEffect, CloseTableEffect DEF Fields
    <3>2. me.at \in {"open", "close"} /\ you.at \in {"pick", "close", "done"}
      BY <1>1, <2>2, OpenTableEffect, CloseTableEffect
    <3> QED
      BY <3>1, <3>2 DEF Same
  <2> QED
    BY <2>1, <2>2
<1>3. FilesOf(me) /\ me.files = << >> /\ \A k \in Kind : RowsOf(me, k)
  BY <1>1, <1>2 DEF RowsInv, FilesOf
<1>4. /\ you.input = me.input /\ you.files = me.files /\ you.range = me.range
      /\ you.pre = me.pre /\ you.rows = me.rows
  BY <1>2 DEF Same
<1>5. FilesOf(reader[r])'
  BY <1>1, <1>3, <1>4 DEF FilesOf
<1>6. ASSUME NEW k \in Kind PROVE RowsOf(reader[r], k)'
  BY <1>3, <1>4 DEF RowsOf
<1> QED
  BY <1>2, <1>5, <1>6 DEF RowsInv

LEMMA ReadRows ==
  ASSUME CutInv, AllGrow, NEW r \in Reader, Read(r)
  PROVE  RowsInv(r)'
<1>1. ASSUME NEW n \in Name, NoData(r, n) PROVE RowsInv(r)'
  BY <1>1, NoDataEffect DEF RowsInv, CutInv, NamesInv
<1> QED
  BY <1>1, ListRows, ReadPreRows, ReadPostRows, WriteRows DEF Read

(* What the drivers, or other readers, do leaves it.                       *)
LEMMA OtherRows ==
  ASSUME CutInv, AllGrow, NEW r \in Reader, [Next]_vars, reader'[r] = reader[r]
  PROVE  RowsInv(r)'
<1>1. RowsInv(r) /\ \A n \in Name : DOMAIN logs[n] \subseteq DOMAIN logs'[n]
  BY LogsStay DEF CutInv
<1>2. FilesOf(reader[r]) => FilesOf(reader[r])'
  BY <1>1 DEF FilesOf
<1>3. \A k \in Kind : RowsOf(reader[r], k) => RowsOf(reader[r], k)'
  BY DEF RowsOf
<1> QED
  BY <1>1, <1>2, <1>3 DEF RowsInv

LEMMA InitCutInv == MkInit => CutInv
<1> SUFFICES ASSUME MkInit PROVE CutInv
  OBVIOUS
<1>1. NamesInv /\ LogsInv
  BY InitNames, InitLogsInv DEF MkInit
<1>2. \A r \in Reader : RowsInv(r)
  BY DEF MkInit, RowsInv, Started
<1> QED
  BY <1>1, <1>2 DEF CutInv

LEMMA NextCutInv ==
  ASSUME CutInv, [MkNext]_allVars
  PROVE  CutInv'
<1>1. NamesInv' /\ LogsInv' /\ [Next]_vars
  BY NextNames, NextLogsInv, ReadersOnlyRead DEF CutInv
<1>2. ASSUME AllGrow', NEW r \in Reader PROVE RowsInv(r)'
  <2>1. setup' = setup
    BY <1>1, StepOthers DEF Next, vars, CutInv, LogsInv, SeriesInv, DirInv
  <2>2. AllGrow
    BY <1>2, <2>1 DEF AllGrow
  <2>3. CASE reader'[r] = reader[r]
    BY <1>1, <2>2, <2>3, OtherRows
  <2>4. CASE Read(r)
    BY <2>2, <2>4, ReadRows
  <2>5. reader'[r] = reader[r] \/ Read(r)
    <3>1. CASE UNCHANGED readVars
      BY <3>1 DEF readVars
    <3>2. \A s \in Reader : Read(s) => s = r \/ reader'[r] = reader[r]
      BY ReadLocal DEF CutInv, NamesInv
    <3> QED
      BY <3>1, <3>2 DEF MkNext, DriverStep, Printed, allVars, readVars
  <2> QED
    BY <2>3, <2>4, <2>5
<1> QED
  BY <1>1, <1>2 DEF CutInv

(* Whatever is running and whatever has failed: the rows of a table go by  *)
(* growing size, and only that of the latest size at the time the          *)
(* directory was listed may have cut values.                               *)
THEOREM OnlyLastRow == MkSpec => []OnlyLastRowMayBeCut
<1>1. CutInv => OnlyLastRowMayBeCut
  <2> SUFFICES ASSUME CutInv, AllGrow, NEW r \in Reader, NEW k \in Kind,
                      NEW i \in DOMAIN reader[r].rows[k]
               PROVE  /\ i > 1 => reader[r].rows[k][i - 1].size < reader[r].rows[k][i].size
                      /\ reader[r].rows[k][i].cut =>
                           reader[r].rows[k][i].size = reader[r].range[2]
    BY DEF OnlyLastRowMayBeCut, AllGrow
  <2>1. RowsInv(r) /\ reader[r].rows[k] # << >>
    BY DEF CutInv
  <2>2. GoodRows(reader[r].rows[k], reader[r].range[2])
    BY <2>1 DEF RowsInv, RowsOf
  <2>3. i \in 1..Len(reader[r].rows[k])
    <3>1. reader[r].rows[k] \in Seq(TableRow)
      BY <2>2 DEF GoodRows
    <3> QED
      BY <3>1
  <2> QED
    BY <2>2, <2>3 DEF GoodRows
<1> QED
  BY InitCutInv, NextCutInv, <1>1, PTL DEF MkSpec

(***************************************************************************)
(* What a series that was done when its directory was listed puts in the   *)
(* tables.                                                                 *)
(***************************************************************************)

(* The first rows of a table of whole values, for the sizes of a series.   *)
WholeRows(sizes, n) == [i \in 1..n |-> [size |-> sizes[i], cut |-> FALSE]]

(* A reader of a series that is done: the sizes it has still to read are   *)
(* the last ones, and it has rows of those before.                         *)
Tabulates(me, sizes, max) ==
  LET count == Len(sizes) - Len(me.files) IN
    /\ me.range = <<sizes[1], max>>
    /\ me.files \in Seq(Nat) /\ count \in Nat
    /\ \A i \in 1..Len(me.files) : me.files[i] = sizes[count + i]
    /\ me.at # "read" => me.files = << >>
    /\ me.pre \in {"none", "good"}
    /\ me.rows["proc"] = WholeRows(sizes, count)
    /\ me.rows["node"] =
         WholeRows(sizes, IF me.kind = "proc" /\ me.files # << >> THEN count + 1 ELSE count)

DoneTabulated(r) ==
  /\ reader[r].at \in {"start", "dead"} => before[r].done = {}
  /\ \A d \in before[r].done :
       /\ d \in Driver /\ pc[d] = "done"
       /\ tried[d] = reader[r].input /\ Growing(setup[d]) =>
            Tabulates(reader[r], numpes[d], setup[d].max)

(* Whether a reader has opened, and closed, its table.                     *)
Opened(me, k) ==
  \/ me.at \in {"close", "done"}
  \/ k = "node" /\ (me.at = "pick" \/ (me.at = "open" /\ me.kind = "proc"))

Closed(me, k) ==
  \/ me.at = "done"
  \/ k = "node" /\ me.at = "close" /\ me.kind = "proc"

Alone(r, k) == \A s \in Reader \ {r} : OwnName(s, k) # OwnName(r, k)

(* No other reader changes a table whose name only this one has picked.    *)
TextIsOwn(r) ==
  LET me == reader[r] IN
    /\ me.at = "pick" \/ (me.at = "open" /\ me.kind = "node") => me.index["proc"] = -1
    /\ \A k \in Kind : Opened(me, k) /\ Alone(r, k) =>
         /\ OwnName(r, k) \in DOMAIN tables
         /\ tables[OwnName(r, k)] = IF Closed(me, k) THEN Over(<< >>, me.rows[k]) ELSE << >>

TablesInv ==
  /\ NamesInv
  /\ LogsInv
  /\ \A r \in Reader : DoneTabulated(r) /\ TextIsOwn(r)

LEMMA RowsAreSequences ==
  ASSUME NEW s \in Seq(Nat), NEW n \in 0..Len(s)
  PROVE  WholeRows(s, n) \in Seq(TableRow) /\ Len(WholeRows(s, n)) = n
<1>1. \A i \in 1..n : [size |-> s[i], cut |-> FALSE] \in TableRow
  BY DEF TableRow
<1>2. WholeRows(s, n) \in [1..n -> TableRow] /\ DOMAIN WholeRows(s, n) = 1..n
  BY <1>1 DEF WholeRows
<1>3. WholeRows(s, n) \in Seq(TableRow)
  BY <1>2, SeqDef
<1> QED
  BY <1>2, <1>3, LenProperties

LEMMA RowAppended ==
  ASSUME NEW s \in Seq(Nat), NEW n \in 0..(Len(s) - 1)
  PROVE  WholeRows(s, n) \o << [size |-> s[n + 1], cut |-> FALSE] >> = WholeRows(s, n + 1)
<1> DEFINE a == WholeRows(s, n)
           b == WholeRows(s, n + 1)
           row == [size |-> s[n + 1], cut |-> FALSE]
           c == a \o << row >>
<1>1. /\ a \in Seq(TableRow) /\ Len(a) = n
      /\ b \in Seq(TableRow) /\ Len(b) = n + 1
  BY RowsAreSequences
<1>2. row \in TableRow
  BY DEF TableRow
<1>3. b[n + 1] = row /\ \A i \in 1..n : a[i] = b[i]
  BY DEF WholeRows
<1> HIDE DEF a, b, row
<1>4. /\ c \in Seq(TableRow) /\ Len(c) = n + 1 /\ c[n + 1] = row
      /\ \A i \in 1..n : c[i] = a[i]
  BY <1>1, <1>2
<1>5. \A i \in 1..(n + 1) : c[i] = b[i]
  BY <1>3, <1>4
<1>6. c = b
  BY <1>1, <1>4, <1>5, SeqEqual
<1> QED
  BY <1>6 DEF a, b, row

(* A series that is done has all its logs, whole.                          *)
LEMMA SeriesDone ==
  ASSUME LogsInv, NEW d \in Driver, pc[d] = "done", Growing(setup[d])
  PROVE  /\ tried[d] \in Name /\ Owns(d)
         /\ numpes[d] \in Seq(Nat) /\ Len(numpes[d]) > 0 /\ runs[d] = Len(numpes[d])
         /\ Increasing(numpes[d])
         /\ numpes[d][Len(numpes[d])] = setup[d].max
         /\ DOMAIN logs[tried[d]] = RunSizes(d)
         /\ \A k \in 1..Len(numpes[d]) :
              /\ numpes[d][k] \in DOMAIN logs[tried[d]]
              /\ logs[tried[d]][numpes[d][k]] = "whole"
<1>1. SeriesInv /\ DirInv /\ TypeOK /\ GrownSizes(d) /\ InOrder(d) /\ Leaves(d)
  BY ByDriver DEF LogsInv, SeriesInv, DirInv
<1>2. /\ tried[d] \in Name /\ numpes[d] \in Seq(Nat)
      /\ Finished(numpes[d], setup[d].max) /\ runs[d] = Len(numpes[d])
  BY <1>1 DEF TypeOK, GrownSizes, InOrder, Working
<1>3. Owns(d)
  BY <1>2 DEF Owns, Finished
<1>4. \A k \in 1..runs[d] : logs[tried[d]][numpes[d][k]] = "whole"
  BY <1>1, <1>3 DEF Leaves
<1>5. DOMAIN logs[tried[d]] = RunSizes(d)
  BY <1>1, <1>3 DEF Leaves
<1>6. \A k \in 1..Len(numpes[d]) : numpes[d][k] \in DOMAIN logs[tried[d]]
  BY <1>2, <1>5 DEF RunSizes
<1> QED
  BY <1>2, <1>3, <1>4, <1>5, <1>6 DEF Finished

LEMMA DoneStays ==
  ASSUME LogsInv, [Next]_vars, NEW d \in Driver, pc[d] = "done"
  PROVE  /\ pc'[d] = "done" /\ setup' = setup /\ tried'[d] = tried[d]
         /\ numpes'[d] = numpes[d]
<1>1. CASE UNCHANGED vars
  BY <1>1 DEF vars
<1>2. ASSUME NEW e \in Driver, Step(e)
      PROVE  /\ pc'[d] = "done" /\ setup' = setup /\ tried'[d] = tried[d]
             /\ numpes'[d] = numpes[d]
  <2>1. e # d
    BY <1>2 DEF Step, GetSetup, NoSetup, Taken, Free, MakeDir, MakeDirFails, Lock, BadFunction,
                Collect, FinishSizes, StartRun, StartFails, RunEnds, RunFails, Finish
  <2> QED
    BY <1>2, <2>1, StepOthers DEF LogsInv, SeriesInv, DirInv
<1> QED
  BY <1>1, <1>2 DEF Next

LEMMA DoneFiles ==
  ASSUME LogsInv, NEW d \in Driver, pc[d] = "done", Growing(setup[d])
  PROVE  DataFiles(tried[d]) = numpes[d]
<1> DEFINE S == DOMAIN logs[tried[d]]  F == DataFiles(tried[d])  s == numpes[d]  N == Len(s)
<1>1. /\ Owns(d) /\ s \in Seq(Nat) /\ runs[d] = N /\ N \in Nat /\ Increasing(s)
      /\ \A k \in 1..N : s[k] \in S
  BY SeriesDone
<1>2. /\ IsFiniteSet(S) /\ Cardinality(S) = N /\ S \in SUBSET Nat
      /\ F \in [1..N -> S] /\ Ascending(F)
  BY <1>1, DirSorted
<1>3. s \in [1..N -> S] /\ Ascending(s)
  <2>1. s \in [1..N -> Nat] /\ DOMAIN s = 1..N
    BY <1>1
  <2> QED
    BY <1>1, <2>1 DEF Ascending, Increasing
<1> HIDE DEF S, F, s, N
<1>4. F = s
  BY <1>1, <1>2, <1>3, OneOrder
<1> QED
  BY <1>4 DEF F, s

(* Every section of a log of such a series is there.                       *)
LEMMA DoneFound ==
  ASSUME LogsInv, NEW d \in Driver, pc[d] = "done", Growing(setup[d]),
         NEW r \in Reader, reader[r].input = tried[d],
         NEW k \in 1..Len(numpes[d]), Head(reader[r].files) = numpes[d][k],
         reader[r].kind \in Kind, NEW when \in {"pre", "post"}
  PROVE  Found(r, when) = "good"
<1> DEFINE n == tried[d]  s == numpes[d][k]  sec == Section[reader[r].kind][when]
<1>1. logs[n][s] = "whole"
  BY SeriesDone
<1>2. OnDisk(n, s) = 8
  BY <1>1 DEF OnDisk, Whole
<1>3. sec \in 1..4
  BY DEF Section, Kind
<1>4. DataString(n, s, sec) = "good"
  <2>1. OnDisk(n, s) >= 2 * sec /\ OnDisk(n, s) # 2 * sec - 1 /\ ~(OnDisk(n, s) < 2 * sec - 1)
    BY <1>2, <1>3
  <2> QED
    BY <2>1 DEF DataString
<1> QED
  BY <1>4 DEF Found

-----------------------------------------------------------------------------
(* What each step of a reader leaves of this.                              *)
LEMMA NextToRead ==
  ASSUME NEW s \in Seq(Nat), NEW files \in Seq(Nat), files # << >>,
         NEW count \in Nat, count = Len(s) - Len(files),
         \A i \in 1..Len(files) : files[i] = s[count + i]
  PROVE  /\ 1 \in 1..Len(files) /\ Head(files) = s[count + 1]
         /\ count + 1 \in 1..Len(s) /\ count \in 0..(Len(s) - 1)
<1>1. /\ Len(files) \in Nat /\ Len(files) > 0 /\ Len(s) \in Nat
      /\ Head(files) = files[1]
  OBVIOUS
<1>2. 1 \in 1..Len(files)
  BY <1>1
<1>3. Head(files) = s[count + 1]
  BY <1>1, <1>2
<1> QED
  BY <1>1, <1>2, <1>3

LEMMA ListTabulates ==
  ASSUME LogsInv, Shape, NEW r \in Reader, NEW d \in Driver, pc[d] = "done", Growing(setup[d]),
         List(r, tried[d]), tried[d] \in Name
  PROVE  Tabulates(reader'[r], numpes[d], setup[d].max)
<1> DEFINE you == reader'[r]  s == numpes[d]
<1>1. /\ s \in Seq(Nat) /\ Len(s) > 0 /\ s[Len(s)] = setup[d].max
      /\ DataFiles(tried[d]) = s
  BY SeriesDone, DoneFiles
<1>2. /\ you.at = "read" /\ you.kind = "node" /\ you.pre = "none" /\ you.files = s
      /\ you.range = <<s[1], setup[d].max>>
      /\ \A k \in Kind : you.rows[k] = << >>
  <2>1. /\ you.at = "read" /\ you.kind = "node" /\ you.pre = "none"
        /\ you.files = DataFiles(tried[d])
        /\ you.range = <<DataFiles(tried[d])[1], DataFiles(tried[d])[Len(DataFiles(tried[d]))]>>
        /\ \A k \in Kind : you.rows[k] = << >>
    BY ListEffect
  <2> HIDE DEF you, s
  <2> QED
    BY <1>1, <2>1
<1>3. /\ Len(s) - Len(s) = 0 /\ 0 \in 0..Len(s)
      /\ \A i \in 1..Len(s) : s[i] = s[0 + i]
  BY <1>1
<1>4. WholeRows(s, 0) = << >>
  BY <1>1, <1>3, RowsAreSequences
<1>5. you.rows["proc"] = << >> /\ you.rows["node"] = << >>
  BY <1>2 DEF Kind
<1> HIDE DEF s, you
<1>6. Tabulates(you, s, setup[d].max)
  BY <1>1, <1>2, <1>3, <1>4, <1>5 DEF Tabulates
<1> QED
  BY <1>6 DEF s, you

LEMMA ReadPreTabulates ==
  ASSUME LogsInv, Shape, NEW r \in Reader, NEW d \in Driver, pc[d] = "done", Growing(setup[d]),
         reader[r].input = tried[d], Tabulates(reader[r], numpes[d], setup[d].max), ReadPre(r)
  PROVE  Tabulates(reader'[r], numpes[d], setup[d].max)
<1> DEFINE me == reader[r]  you == reader'[r]  s == numpes[d]
           k == Len(s) - Len(me.files) + 1
<1>1. /\ you.at = me.at /\ you.range = me.range
      /\ you.files = me.files /\ you.kind = me.kind /\ you.rows = me.rows
      /\ you.pre = Found(r, "pre") /\ me.files # << >>
  BY ReadPreEffect DEF Same, Fields
<1>2. k \in 1..Len(s) /\ Head(me.files) = s[k]
  <2>1. s \in Seq(Nat)
    BY SeriesDone
  <2>2. /\ me.files \in Seq(Nat) /\ Len(s) - Len(me.files) \in Nat
        /\ \A i \in 1..Len(me.files) : me.files[i] = s[Len(s) - Len(me.files) + i]
    BY DEF Tabulates
  <2>3. me.files # << >>
    BY <1>1
  <2> HIDE DEF s, me
  <2> QED
    BY <2>1, <2>2, <2>3, NextToRead
<1>3. Found(r, "pre") = "good"
  BY <1>2, DoneFound DEF Shape
<1> QED
  BY <1>1, <1>3 DEF Tabulates

LEMMA ReadPostTabulates ==
  ASSUME LogsInv, Shape, NEW r \in Reader, NEW d \in Driver, pc[d] = "done", Growing(setup[d]),
         reader[r].input = tried[d], Tabulates(reader[r], numpes[d], setup[d].max), ReadPost(r)
  PROVE  Tabulates(reader'[r], numpes[d], setup[d].max)
<1> DEFINE me == reader[r]  you == reader'[r]  s == numpes[d]
           count == Len(s) - Len(me.files)
<1>1. /\ you.at = me.at /\ you.range = me.range /\ me.at = "read"
      /\ you.pre = "none" /\ you.kind = Other(me.kind)
      /\ you.files = IF me.kind = "proc" THEN Tail(me.files) ELSE me.files
      /\ \A k \in Kind : you.rows[k] =
           IF k = me.kind THEN me.rows[k] \o FoundRow(r) ELSE me.rows[k]
      /\ me.files # << >> /\ me.pre # "none"
  BY ReadPostEffect DEF Same
<1>2. /\ me.files \in Seq(Nat) /\ count \in Nat /\ me.pre = "good"
      /\ me.range = <<s[1], setup[d].max>>
      /\ \A i \in 1..Len(me.files) : me.files[i] = s[count + i]
      /\ me.rows["proc"] = WholeRows(s, count)
      /\ me.rows["node"] = WholeRows(s, IF me.kind = "proc" THEN count + 1 ELSE count)
      /\ s \in Seq(Nat)
  BY <1>1, SeriesDone DEF Tabulates
<1>3. /\ 1 \in 1..Len(me.files) /\ Head(me.files) = s[count + 1]
      /\ count + 1 \in 1..Len(s) /\ count \in 0..(Len(s) - 1)
  <2>1. me.files # << >> /\ count = Len(s) - Len(me.files)
    BY <1>1
  <2> HIDE DEF s, me, count
  <2> QED
    BY <1>2, <2>1, NextToRead
<1>4. me.kind \in Kind
  BY DEF Shape
<1>5. FoundRow(r) = << [size |-> s[count + 1], cut |-> FALSE] >>
  <2>1. Found(r, "post") = "good"
    BY <1>3, <1>4, DoneFound
  <2>2. FoundRow(r) = Row(s[count + 1], "good", "good")
    BY <1>2, <1>3, <2>1 DEF FoundRow
  <2>3. ("cut" \in {"good"}) = FALSE /\ "missing" \notin {"good"} /\ {"good", "good"} = {"good"}
    OBVIOUS
  <2> QED
    BY <2>2, <2>3 DEF Row
<1>6. WholeRows(s, count) \o FoundRow(r) = WholeRows(s, count + 1)
  BY <1>2, <1>3, <1>5, RowAppended
<1> HIDE DEF count
<1>7. CASE me.kind = "node"
  <2>1. /\ you.kind = "proc" /\ you.files = me.files
        /\ you.rows["node"] = WholeRows(s, count + 1) /\ you.rows["proc"] = WholeRows(s, count)
    BY <1>1, <1>2, <1>6, <1>7 DEF Other, Kind
  <2> QED
    BY <1>1, <1>2, <2>1 DEF Tabulates, count
<1>8. CASE me.kind = "proc"
  <2>1. /\ you.kind = "node" /\ you.files = Tail(me.files)
        /\ you.rows["node"] = WholeRows(s, count + 1) /\ you.rows["proc"] = WholeRows(s, count + 1)
    BY <1>1, <1>2, <1>6, <1>8 DEF Other, Kind
  <2>2. /\ you.files \in Seq(Nat) /\ Len(you.files) = Len(me.files) - 1
        /\ \A i \in 1..Len(you.files) : you.files[i] = me.files[i + 1]
    BY <1>2, <1>3, <2>1
  <2>3. Len(s) - Len(you.files) = count + 1 /\ count + 1 \in Nat
    BY <1>2, <2>2 DEF count
  <2>4. \A i \in 1..Len(you.files) : you.files[i] = s[(count + 1) + i]
    <3> SUFFICES ASSUME NEW i \in 1..Len(you.files) PROVE you.files[i] = s[(count + 1) + i]
      OBVIOUS
    <3>1. i + 1 \in 1..Len(me.files) /\ count + (i + 1) = (count + 1) + i
      BY <1>2, <2>2
    <3>2. you.files[i] = me.files[i + 1]
      BY <2>2
    <3>3. me.files[i + 1] = s[count + (i + 1)]
      BY <1>2, <3>1
    <3> QED
      BY <3>1, <3>2, <3>3
  <2> QED
    BY <1>1, <1>2, <2>1, <2>2, <2>3, <2>4 DEF Tabulates
<1> QED
  BY <1>4, <1>7, <1>8 DEF Kind

LEMMA WriteTabulates ==
  ASSUME Shape, NEW r \in Reader, NEW s, NEW max, Tabulates(reader[r], s, max),
         PickName(r) \/ OpenTable(r) \/ CloseTable(r)
  PROVE  Tabulates(reader'[r], s, max)
<1> DEFINE me == reader[r]  you == reader'[r]
<1>1. /\ you.input = me.input /\ you.files = me.files /\ you.range = me.range
      /\ you.pre = me.pre /\ you.rows = me.rows
  <2>1. Same(r, Fields \ {"at", "index"}) \/ Same(r, Fields \ {"at", "kind"})
    BY PickNameEffect, OpenTableEffect, CloseTableEffect
  <2> QED
    BY <2>1 DEF Same, Fields
<1>2. me.files = << >>
  BY PickNameEffect, OpenTableEffect, CloseTableEffect DEF Tabulates
<1> QED
  BY <1>1, <1>2 DEF Tabulates

LEMMA ReadDone ==
  ASSUME NamesInv, LogsInv, NEW r \in Reader, DoneTabulated(r), Read(r)
  PROVE  DoneTabulated(r)'
<1>1. Shape /\ reader[r].kind \in Kind
  BY DEF NamesInv, Shape
<1>2. UNCHANGED vars
  BY DEF Read, List, NoData, ReadPre, ReadPost, PickName, OpenTable, CloseTable, Become
<1>3. pc' = pc /\ tried' = tried /\ setup' = setup /\ numpes' = numpes
  BY <1>2 DEF vars
<1>4. ASSUME NEW n \in Name, List(r, n) PROVE DoneTabulated(r)'
  <2>1. /\ reader'[r].at = "read" /\ reader'[r].input = n
        /\ before'[r] = [tables |-> DOMAIN tables, done |-> {d \in Driver : pc[d] = "done"}]
    BY <1>1, <1>4, ListEffect
  <2>2. before'[r].done = {d \in Driver : pc[d] = "done"}
    BY <2>1
  <2>3. ASSUME NEW d \in Driver, pc[d] = "done", tried[d] = n, Growing(setup[d])
        PROVE  Tabulates(reader'[r], numpes[d], setup[d].max)
    BY <1>1, <1>4, <2>3, ListTabulates
  <2> QED
    BY <1>3, <2>1, <2>2, <2>3 DEF DoneTabulated
<1>5. ASSUME NEW n \in Name, NoData(r, n) PROVE DoneTabulated(r)'
  BY <1>1, <1>3, <1>5, NoDataEffect DEF DoneTabulated
<1>6. CASE ReadPre(r) \/ ReadPost(r) \/ PickName(r) \/ OpenTable(r) \/ CloseTable(r)
  <2>1. before' = before /\ reader'[r].at \notin {"start", "dead"}
        /\ reader'[r].input = reader[r].input
    <3>1. CASE ReadPre(r)
      BY <1>1, <3>1, ReadPreEffect DEF Same, Fields
    <3>2. CASE ReadPost(r)
      BY <1>1, <3>2, ReadPostEffect DEF Same
    <3>3. CASE PickName(r)
      BY <1>1, <3>3, PickNameEffect DEF Same, Fields
    <3>4. CASE OpenTable(r)
      BY <1>1, <3>4, OpenTableEffect DEF Same, Fields
    <3>5. CASE CloseTable(r)
      BY <1>1, <3>5, CloseTableEffect DEF Same, Fields
    <3> QED
      BY <1>6, <3>1, <3>2, <3>3, <3>4, <3>5
  <2>2. ASSUME NEW d \in before[r].done, tried[d] = reader[r].input, Growing(setup[d])
        PROVE  Tabulates(reader'[r], numpes[d], setup[d].max)
    <3>1. /\ d \in Driver /\ pc[d] = "done"
          /\ Tabulates(reader[r], numpes[d], setup[d].max)
      BY <2>2 DEF DoneTabulated
    <3> QED
      BY <1>1, <1>6, <2>2, <3>1, ReadPreTabulates, ReadPostTabulates, WriteTabulates
  <2> QED
    BY <1>3, <2>1, <2>2 DEF DoneTabulated
<1> QED
  BY <1>4, <1>5, <1>6 DEF Read

LEMMA OtherDone ==
  ASSUME LogsInv, [Next]_vars, NEW r \in Reader, DoneTabulated(r),
         reader'[r] = reader[r], before'[r] = before[r]
  PROVE  DoneTabulated(r)'
<1>1. ASSUME NEW d \in before[r].done
      PROVE  /\ d \in Driver /\ pc'[d] = "done"
             /\ tried'[d] = reader[r].input /\ Growing(setup'[d]) =>
                  Tabulates(reader[r], numpes'[d], setup'[d].max)
  <2>1. d \in Driver /\ pc[d] = "done"
    BY DEF DoneTabulated
  <2>2. /\ pc'[d] = "done" /\ setup' = setup /\ tried'[d] = tried[d]
        /\ numpes'[d] = numpes[d]
    BY <2>1, DoneStays
  <2> QED
    BY <2>1, <2>2 DEF DoneTabulated
<1> QED
  BY <1>1 DEF DoneTabulated

-----------------------------------------------------------------------------
(* The texts of the tables.                                                *)

(* The names of the two tables of a reader differ.                         *)
LEMMA KindsApart ==
  ASSUME NEW r \in Reader, NEW s \in Reader, NEW k \in Kind, NEW l \in Kind, k # l
  PROVE  OwnName(r, k) # OwnName(s, l)
BY DEF OwnName, FileName

(* What a reader has picked it keeps.                                      *)
LEMMA PickedStays ==
  ASSUME NamesInv, NEW s \in Reader, TextIsOwn(s), Read(s),
         NEW k \in Kind, reader[s].index[k] # -1
  PROVE  OwnName(s, k)' = OwnName(s, k)
<1>1. Shape /\ Named(s) /\ reader[s].kind \in Kind
  BY DEF NamesInv, Shape
<1>2. reader[s].at \notin {"start", "read"}
  BY <1>1 DEF Named
<1>3. PickName(s) \/ OpenTable(s) \/ CloseTable(s)
  BY <1>2 DEF Read, List, NoData, ReadPre, ReadPost
<1>4. Same(s, {"rows", "range"})
  <2>1. Same(s, Fields \ {"at", "index"}) \/ Same(s, Fields \ {"at", "kind"})
    BY <1>1, <1>3, PickNameEffect, OpenTableEffect, CloseTableEffect
  <2> QED
    BY <2>1 DEF Same, Fields
<1>5. reader'[s].index[k] = reader[s].index[k]
  <2>1. CASE PickName(s)
    <3>1. reader[s].at = "pick"
      BY <1>1, <1>2, <2>1, PickNameEffect
    <3>2. reader[s].kind = "proc" /\ reader[s].index["proc"] = -1
      BY <1>1, <3>1 DEF Named, TextIsOwn
    <3>3. \A l \in Kind : l # reader[s].kind => reader'[s].index[l] = reader[s].index[l]
      BY <1>1, <2>1, PickNameEffect
    <3> QED
      BY <3>2, <3>3
  <2>2. CASE OpenTable(s) \/ CloseTable(s)
    <3>1. Same(s, Fields \ {"at", "kind"})
      BY <1>1, <2>2, OpenTableEffect, CloseTableEffect
    <3> QED
      BY <3>1 DEF Same, Fields
  <2> QED
    BY <1>3, <2>1, <2>2
<1> QED
  BY <1>1, <1>4, <1>5, NameStays DEF OwnName

(* A step of a reader changes no table but the one whose name it has.      *)
LEMMA WritesItsOwn ==
  ASSUME NamesInv, NEW s \in Reader, Read(s)
  PROVE  /\ DOMAIN tables \subseteq DOMAIN tables'
         /\ \A f \in DOMAIN tables : (\A l \in Kind : f # OwnName(s, l)) => tables'[f] = tables[f]
<1>1. Shape /\ reader[s].kind \in Kind
  BY DEF NamesInv, Shape
<1>2. DOMAIN tables \subseteq DOMAIN tables'
  BY <1>1, ReadLocal
<1>3. ASSUME NEW f \in DOMAIN tables, \A l \in Kind : f # OwnName(s, l)
      PROVE  tables'[f] = tables[f]
  <2>1. f # OwnName(s, reader[s].kind)
    BY <1>1, <1>3
  <2>2. CASE OpenTable(s)
    BY <1>1, <2>1, <2>2, OpenTableEffect
  <2>3. CASE CloseTable(s)
    BY <1>1, <2>1, <2>3, CloseTableEffect
  <2> QED
    BY <2>2, <2>3 DEF Read, List, NoData, ReadPre, ReadPost, PickName
<1> QED
  BY <1>2, <1>3

LEMMA OtherText ==
  ASSUME NamesInv, NEW r \in Reader, NEW s \in Reader \ {r}, Read(s),
         TextIsOwn(r), TextIsOwn(s)
  PROVE  TextIsOwn(r)'
<1>1. Shape /\ \A q \in Reader \ {s} : reader'[q] = reader[q]
  BY ReadLocal DEF NamesInv
<1>2. reader'[r] = reader[r] /\ \A k \in Kind : OwnName(r, k)' = OwnName(r, k)
  BY <1>1 DEF OwnName, FileName
<1>3. ASSUME NEW k \in Kind, Opened(reader[r], k), Alone(r, k)'
      PROVE  /\ OwnName(r, k) \in DOMAIN tables'
             /\ tables'[OwnName(r, k)] =
                  IF Closed(reader[r], k) THEN Over(<< >>, reader[r].rows[k]) ELSE << >>
  <2>1. reader[r].index[k] # -1
    BY <1>3 DEF NamesInv, Named, Opened, Kind
  <2>2. ASSUME NEW q \in Reader \ {r} PROVE OwnName(q, k) # OwnName(r, k)
    <3>1. CASE q = s
      <4> SUFFICES ASSUME OwnName(s, k) = OwnName(r, k) PROVE FALSE
        BY <3>1
      <4>1. reader[s].index[k] = reader[r].index[k]
        BY DEF OwnName, FileName
      <4>2. OwnName(s, k)' = OwnName(s, k)
        BY <2>1, <4>1, PickedStays
      <4> QED
        BY <1>2, <1>3, <4>2 DEF Alone
    <3>2. CASE q # s
      <4>1. reader'[q] = reader[q]
        BY <1>1, <3>2
      <4>2. OwnName(q, k)' = OwnName(q, k)
        BY <4>1 DEF OwnName, FileName
      <4> QED
        BY <1>2, <1>3, <4>2 DEF Alone
    <3> QED
      BY <3>1, <3>2
  <2>3. /\ OwnName(r, k) \in DOMAIN tables
        /\ tables[OwnName(r, k)] =
             IF Closed(reader[r], k) THEN Over(<< >>, reader[r].rows[k]) ELSE << >>
    BY <1>3, <2>2 DEF TextIsOwn, Alone
  <2>4. \A l \in Kind : OwnName(r, k) # OwnName(s, l)
    BY <2>2, KindsApart
  <2> QED
    BY <2>3, <2>4, WritesItsOwn
<1> QED
  BY <1>2, <1>3 DEF TextIsOwn

LEMMA OwnText ==
  ASSUME NamesInv, NEW r \in Reader, Read(r), TextIsOwn(r)
  PROVE  TextIsOwn(r)'
<1> DEFINE me == reader[r]  you == reader'[r]
<1>1. /\ Shape /\ Named(r) /\ me.kind \in Kind
      /\ \A q \in Reader \ {r} : reader'[q] = reader[q]
  BY ReadLocal DEF NamesInv, Shape
<1>2. \A q \in Reader \ {r}, k \in Kind : OwnName(q, k)' = OwnName(q, k)
  BY <1>1 DEF OwnName, FileName
<1>3. ASSUME NEW k \in Kind, OwnName(r, k)' = OwnName(r, k), Alone(r, k)'
      PROVE  Alone(r, k)
  BY <1>2, <1>3 DEF Alone
<1>4. CASE you.at \in {"read", "dead"}
  BY <1>4 DEF TextIsOwn, Opened
<1>5. CASE PickName(r)
  <2>1. /\ you.at = "open" /\ you.kind = me.kind /\ you.rows = me.rows /\ tables' = tables
        /\ me.at \in {"read", "pick"}
        /\ me.at = "read" => me.files = << >>
        /\ \A k \in Kind : k # me.kind => you.index[k] = me.index[k]
    BY <1>1, <1>5, PickNameEffect DEF Same, Fields
  <2>2. you.kind = "node" => you.index["proc"] = -1
    BY <1>1, <2>1 DEF Named, Kind
  <2>3. ASSUME NEW k \in Kind, Opened(you, k), Alone(r, k)'
        PROVE  /\ OwnName(r, k)' \in DOMAIN tables'
               /\ tables'[OwnName(r, k)'] =
                    IF Closed(you, k) THEN Over(<< >>, you.rows[k]) ELSE << >>
    <3>1. k = "node" /\ you.kind = "proc" /\ me.at = "pick" /\ ~Closed(you, k)
      BY <1>1, <2>1, <2>3 DEF Opened, Closed, Named
    <3>2. OwnName(r, k)' = OwnName(r, k)
      BY <1>1, <1>5, <2>3, <3>1, PickedStays DEF Named
    <3>3. Opened(me, k) /\ ~Closed(me, k) /\ Alone(r, k)
      BY <1>3, <2>3, <3>1, <3>2 DEF Opened, Closed
    <3> QED
      BY <2>1, <3>1, <3>2, <3>3 DEF TextIsOwn
  <2> QED
    BY <2>1, <2>2, <2>3 DEF TextIsOwn
<1>6. CASE OpenTable(r)
  <2>1. /\ you.rows = me.rows /\ you.index = me.index /\ me.at = "open"
        /\ you.at = IF me.kind = "node" THEN "pick" ELSE "close"
        /\ you.kind = Other(me.kind)
        /\ DOMAIN tables' = DOMAIN tables \union {OwnName(r, me.kind)}
        /\ tables'[OwnName(r, me.kind)] = << >>
        /\ \A f \in DOMAIN tables : f # OwnName(r, me.kind) => tables'[f] = tables[f]
    BY <1>1, <1>6, OpenTableEffect DEF Same, Fields
  <2>2. \A k \in Kind : OwnName(r, k)' = OwnName(r, k)
    <3>1. Same(r, {"rows", "range"})
      <4>1. Same(r, Fields \ {"at", "kind"})
        BY <1>1, <1>6, OpenTableEffect
      <4> QED
        BY <4>1 DEF Same, Fields
    <3> QED
      BY <1>1, <2>1, <3>1, NameStays DEF OwnName
  <2>3. you.at = "pick" => you.index["proc"] = -1
    BY <2>1 DEF TextIsOwn
  <2>4. ASSUME NEW k \in Kind, Opened(you, k), Alone(r, k)'
        PROVE  /\ OwnName(r, k) \in DOMAIN tables'
               /\ tables'[OwnName(r, k)] = << >> /\ ~Closed(you, k)
    <3>1. ~Closed(you, k)
      BY <2>1 DEF Closed, Other
    <3>2. CASE k = me.kind
      BY <2>1, <3>1, <3>2
    <3>3. CASE k # me.kind
      <4>1. k = "node" /\ me.kind = "proc"
        BY <1>1, <2>1, <2>4, <3>3 DEF Opened, Kind, Other
      <4>2. Opened(me, k) /\ ~Closed(me, k) /\ Alone(r, k)
        BY <1>3, <2>1, <2>2, <2>4, <4>1 DEF Opened, Closed
      <4>3. OwnName(r, k) \in DOMAIN tables /\ tables[OwnName(r, k)] = << >>
        BY <4>2 DEF TextIsOwn
      <4>4. OwnName(r, k) # OwnName(r, me.kind)
        BY <1>1, <3>3, KindsApart
      <4> QED
        BY <2>1, <3>1, <4>3, <4>4
    <3> QED
      BY <3>2, <3>3
  <2>5. you.at # "open"
    BY <2>1
  <2> QED
    BY <2>2, <2>3, <2>4, <2>5 DEF TextIsOwn
<1>7. CASE CloseTable(r)
  <2> DEFINE name == OwnName(r, me.kind)
  <2>1. /\ you.rows = me.rows /\ you.index = me.index /\ me.at = "close"
        /\ you.at = IF me.kind = "node" THEN "close" ELSE "done"
        /\ you.kind = "proc"
        /\ DOMAIN tables' = DOMAIN tables \union {name}
        /\ tables'[name] = Over(tables[name], me.rows[me.kind])
        /\ \A f \in DOMAIN tables : f # name => tables'[f] = tables[f]
    BY <1>1, <1>7, CloseTableEffect DEF Same, Fields
  <2>2. \A k \in Kind : OwnName(r, k)' = OwnName(r, k)
    <3>1. Same(r, {"rows", "range"})
      <4>1. Same(r, Fields \ {"at", "kind"})
        BY <1>1, <1>7, CloseTableEffect
      <4> QED
        BY <4>1 DEF Same, Fields
    <3> QED
      BY <1>1, <2>1, <3>1, NameStays DEF OwnName
  <2>3. ASSUME NEW k \in Kind, Alone(r, k)'
        PROVE  /\ OwnName(r, k) \in DOMAIN tables'
               /\ tables'[OwnName(r, k)] =
                    IF Closed(you, k) THEN Over(<< >>, you.rows[k]) ELSE << >>
    <3>1. Alone(r, k) /\ Opened(me, k)
      BY <1>3, <2>1, <2>2, <2>3 DEF Opened
    <3>2. /\ OwnName(r, k) \in DOMAIN tables
          /\ tables[OwnName(r, k)] = IF Closed(me, k) THEN Over(<< >>, me.rows[k]) ELSE << >>
      BY <3>1 DEF TextIsOwn
    <3>3. CASE k = me.kind
      <4>1. ~Closed(me, k) /\ Closed(you, k)
        BY <1>1, <2>1, <3>3 DEF Closed, Kind
      <4> QED
        BY <2>1, <3>2, <3>3, <4>1
    <3>4. CASE k # me.kind
      <4>1. Closed(me, k) <=> Closed(you, k)
        BY <1>1, <2>1, <3>4 DEF Closed, Kind
      <4>2. OwnName(r, k) # name
        BY <1>1, <3>4, KindsApart
      <4> QED
        BY <2>1, <3>2, <4>1, <4>2
    <3> QED
      BY <3>3, <3>4
  <2>4. you.at \in {"close", "done"}
    BY <2>1
  <2> QED
    BY <2>2, <2>3, <2>4 DEF TextIsOwn
<1>8. you.at \in {"read", "dead"} \/ PickName(r) \/ OpenTable(r) \/ CloseTable(r)
  <2>1. CASE \E n \in Name : List(r, n) \/ NoData(r, n)
    BY <1>1, <2>1, ListEffect, NoDataEffect
  <2>2. CASE ReadPre(r)
    BY <1>1, <2>2, ReadPreEffect DEF Same, Fields
  <2>3. CASE ReadPost(r)
    BY <1>1, <2>3, ReadPostEffect DEF Same
  <2> QED
    BY <2>1, <2>2, <2>3 DEF Read
<1> QED
  BY <1>4, <1>5, <1>6, <1>7, <1>8

-----------------------------------------------------------------------------
LEMMA InitTablesInv == MkInit => TablesInv
<1> SUFFICES ASSUME MkInit PROVE TablesInv
  OBVIOUS
<1>1. NamesInv /\ LogsInv
  BY InitNames, InitLogsInv DEF MkInit
<1>2. \A r \in Reader : reader[r] = Started /\ before[r].done = {}
  BY DEF MkInit
<1>3. \A r \in Reader : DoneTabulated(r)
  BY <1>2 DEF DoneTabulated
<1>4. \A r \in Reader : TextIsOwn(r)
  BY <1>2 DEF TextIsOwn, Opened, Started
<1> QED
  BY <1>1, <1>3, <1>4 DEF TablesInv

LEMMA NextTablesInv ==
  ASSUME TablesInv, [MkNext]_allVars
  PROVE  TablesInv'
<1>1. /\ NamesInv /\ LogsInv /\ Shape /\ NamesInv' /\ LogsInv' /\ [Next]_vars
  BY NextNames, NextLogsInv, ReadersOnlyRead DEF TablesInv, NamesInv
<1>2. ASSUME NEW s \in Reader, Read(s), NEW r \in Reader
      PROVE  DoneTabulated(r)' /\ TextIsOwn(r)'
  <2>1. \A q \in Reader \ {s} : reader'[q] = reader[q] /\ before'[q] = before[q]
    BY <1>1, <1>2, ReadLocal
  <2>2. DoneTabulated(r) /\ TextIsOwn(r) /\ TextIsOwn(s)
    BY DEF TablesInv
  <2>3. CASE r = s
    BY <1>1, <1>2, <2>2, <2>3, ReadDone, OwnText
  <2>4. CASE r # s
    BY <1>1, <1>2, <2>1, <2>2, <2>4, OtherDone, OtherText
  <2> QED
    BY <2>3, <2>4
<1>3. ASSUME UNCHANGED readVars, NEW r \in Reader
      PROVE  DoneTabulated(r)' /\ TextIsOwn(r)'
  <2>1. DoneTabulated(r) /\ TextIsOwn(r)
    BY DEF TablesInv
  <2>2. reader' = reader /\ before' = before /\ tables' = tables
    BY <1>3 DEF readVars
  <2>3. DoneTabulated(r)'
    BY <1>1, <2>1, <2>2, OtherDone
  <2>4. \A q \in Reader, k \in Kind : OwnName(q, k)' = OwnName(q, k)
    BY <2>2 DEF OwnName, FileName
  <2>5. \A k \in Kind : Alone(r, k)' <=> Alone(r, k)
    BY <2>4 DEF Alone
  <2>6. TextIsOwn(r)'
    BY <2>1, <2>2, <2>4, <2>5 DEF TextIsOwn
  <2> QED
    BY <2>3, <2>6
<1>4. UNCHANGED readVars \/ \E s \in Reader : Read(s)
  BY DEF MkNext, DriverStep, Printed, allVars, readVars
<1> QED
  BY <1>1, <1>2, <1>3, <1>4 DEF TablesInv

(* Of a series that was done when its directory was listed each table      *)
(* shows every size with whole values, named for its range and date, unless*)
(* another run of mpimemu-mkstats has picked the same name.                *)
THEOREM TablesComplete == MkSpec => []SeriesTabulated
<1>1. TablesInv => SeriesTabulated
  <2> SUFFICES ASSUME TablesInv, NEW r \in Reader, NEW d \in before[r].done,
                      reader[r].at = "done", NameIsOwn(r),
                      tried[d] = reader[r].input, Growing(setup[d]), NEW k \in Kind
               PROVE  /\ tables[OwnName(r, k)] =
                           [i \in DOMAIN numpes[d] |-> [size |-> numpes[d][i], cut |-> FALSE]]
                      /\ OwnName(r, k).dated
                      /\ OwnName(r, k).range = <<numpes[d][1], setup[d].max>>
    BY DEF SeriesTabulated
  <2> DEFINE me == reader[r]  s == numpes[d]
  <2>1. /\ d \in Driver /\ pc[d] = "done" /\ Tabulates(me, s, setup[d].max)
        /\ TextIsOwn(r)
    BY DEF TablesInv, DoneTabulated
  <2>2. s \in Seq(Nat) /\ Len(s) > 0
    BY <2>1, SeriesDone DEF TablesInv
  <2>3. me.range = <<s[1], setup[d].max>> /\ \A l \in Kind : me.rows[l] = WholeRows(s, Len(s))
    <3>0. me.files = << >>
      BY <2>1 DEF Tabulates
    <3>1. Len(s) - Len(me.files) = Len(s)
      BY <2>2, <3>0
    <3> QED
      BY <2>1, <3>0, <3>1 DEF Tabulates, Kind
  <2>4. tables[OwnName(r, k)] = Over(<< >>, me.rows[k])
    BY <2>1 DEF TextIsOwn, Opened, Closed, Alone, NameIsOwn
  <2>5. WholeRows(s, Len(s)) \in Seq(TableRow) /\ Len(WholeRows(s, Len(s))) = Len(s)
    <3>1. Len(s) \in 0..Len(s)
      BY <2>2
    <3> QED
      BY <2>2, <3>1, RowsAreSequences
  <2>6. Over(<< >>, WholeRows(s, Len(s))) = WholeRows(s, Len(s))
    <3>1. \A w \in Seq(TableRow) : Over(<< >>, w) = w
      BY DEF Over
    <3> QED
      BY <2>5, <3>1
  <2>7. WholeRows(s, Len(s)) = [i \in DOMAIN s |-> [size |-> s[i], cut |-> FALSE]]
    <3>1. DOMAIN s = 1..Len(s)
      BY <2>2
    <3> QED
      BY <3>1 DEF WholeRows
  <2>8. me.rows.node # << >>
    <3>1. \A w \in Seq(TableRow) : Len(w) > 0 => w # << >>
      OBVIOUS
    <3> QED
      BY <2>2, <2>3, <2>5, <3>1 DEF Kind
  <2>9. OwnName(r, k).dated /\ OwnName(r, k).range = me.range
    BY <2>8 DEF OwnName, FileName
  <2> QED
    BY <2>3, <2>4, <2>6, <2>7, <2>9
<1> QED
  BY InitTablesInv, NextTablesInv, <1>1, PTL DEF MkSpec

=============================================================================
