--------------------------- MODULE MemnesiaProofs ---------------------------
(***************************************************************************)
(* What is proved of Memnesia and MemnesiaReport, for any number of ranks, *)
(* applications, growth of memory and faults; and, at the end, of Smaps,   *)
(* for any files.                                                          *)
(***************************************************************************)
EXTENDS MemnesiaReport, Smaps, WellFoundedInduction, FiniteSetTheorems, TLAPS

(***************************************************************************)
(* Induction and recursion, with sets and functions for predicates and     *)
(* definitions.                                                            *)
(***************************************************************************)
Smaller == {p \in Nat \X Nat : p[1] < p[2]}

LEMMA SmallerIsWellFounded == IsWellFoundedOn(Smaller, Nat)
<1>1. OpToRel(<, Nat) = Smaller
  BY DEF OpToRel, Smaller
<1> QED
  BY <1>1, NatLessThanWellFounded, Zenon

LEMMA LeastExists ==
  ASSUME NEW T \in SUBSET Nat, T # {}
  PROVE  \E x \in T : \A y \in T : x <= y
<1>1. PICK x \in T : \A y \in T : <<y, x>> \notin Smaller
  BY SmallerIsWellFounded, WFMin, Zenon
<1>2. ASSUME NEW y \in T PROVE x <= y
  <2>1. <<y, x>> \in Nat \X Nat /\ <<y, x>> \notin Smaller
    BY <1>1
  <2>2. ~(y < x)
    BY <2>1 DEF Smaller
  <2> QED
    BY <2>2
<1> QED
  BY <1>2

LEMMA Induction ==
  ASSUME NEW S, 0 \in S, \A n \in Nat : n \in S => n + 1 \in S
  PROVE  Nat \subseteq S
<1> SUFFICES ASSUME ~(Nat \subseteq S) PROVE FALSE
  OBVIOUS
<1> DEFINE T == Nat \ S
<1>1. PICK x \in T : \A y \in T : x <= y
  <2>1. T \in SUBSET Nat /\ T # {}
    OBVIOUS
  <2> QED
    BY <2>1, LeastExists
<1>2. x \in Nat /\ x # 0 /\ x - 1 \in Nat /\ (x - 1) + 1 = x
  OBVIOUS
<1>3. x - 1 \in S
  BY <1>1, <1>2
<1> QED
  BY <1>2, <1>3

(* A recursive definition over 0..n defines a function.                    *)
Steps(n, V) == [(1..n) \X V -> V]

Defines(n, V, v, g) ==
  \E f \in [0..n -> V] : f[0] = v /\ \A m \in 1..n : f[m] = g[<<m, f[m - 1]>>]

LEMMA Recursion ==
  ASSUME NEW n \in Nat, NEW V, NEW v \in V, NEW g \in Steps(n, V)
  PROVE  Defines(n, V, v, g)
<1> USE DEF Steps
<1> DEFINE Upto(i) == \E f \in [0..i -> V] :
                        f[0] = v /\ \A m \in 1..i : f[m] = g[<<m, f[m - 1]>>]
           S == {i \in Nat : i <= n => Upto(i)}
<1>1. Upto(0)
  <2>1. 0..0 = {0} /\ 1..0 = {}
    OBVIOUS
  <2> WITNESS [m \in 0..0 |-> v] \in [0..0 -> V]
  <2> QED
    BY <2>1
<1>2. ASSUME NEW i \in Nat, i + 1 <= n, Upto(i) PROVE Upto(i + 1)
  <2>1. PICK f \in [0..i -> V] : f[0] = v /\ \A m \in 1..i : f[m] = g[<<m, f[m - 1]>>]
    BY <1>2
  <2> DEFINE h == [m \in 0..(i + 1) |-> IF m = i + 1 THEN g[<<i + 1, f[i]>>] ELSE f[m]]
  <2>2. g[<<i + 1, f[i]>>] \in V
    <3>1. i \in 0..i /\ i + 1 \in 1..n /\ f[i] \in V
      BY <1>2, <2>1
    <3>2. <<i + 1, f[i]>> \in (1..n) \X V
      BY <3>1
    <3> QED
      BY <3>2
  <2>3. h \in [0..(i + 1) -> V] /\ h[0] = v
    <3>1. \A m \in 0..(i + 1) : m # i + 1 => m \in 0..i
      OBVIOUS
    <3> QED
      BY <2>1, <2>2, <3>1
  <2>4. ASSUME NEW m \in 1..(i + 1) PROVE h[m] = g[<<m, h[m - 1]>>]
    <3>1. CASE m = i + 1
      <4>1. h[m] = g[<<i + 1, f[i]>>] /\ m - 1 = i /\ h[i] = f[i]
        BY <3>1
      <4> QED
        BY <3>1, <4>1
    <3>2. CASE m # i + 1
      <4>1. m \in 1..i /\ m - 1 \in 0..i /\ h[m] = f[m] /\ h[m - 1] = f[m - 1]
        BY <3>2
      <4> QED
        BY <2>1, <4>1
    <3> QED
      BY <3>1, <3>2
  <2> HIDE DEF h
  <2> QED
    BY <2>3, <2>4
<1> HIDE DEF Upto
<1>3. Nat \subseteq S
  <2>1. 0 \in S /\ \A i \in Nat : i \in S => i + 1 \in S
    BY <1>1, <1>2
  <2> HIDE DEF S
  <2> QED
    BY <2>1, Induction
<1>4. Upto(n)
  BY <1>3
<1> QED
  BY <1>4 DEF Upto, Defines

-----------------------------------------------------------------------------
(* Types, in three groups.                                                 *)

Place == {"app", "call", "bare", "metadata", "fill", "write", "finalize", "done", "failed",
          "sync1", "sync2", "sync3", "gather", "gatherv",
          "in_sync1", "in_sync2", "in_sync3", "in_gather", "in_gatherv"}

InCall(r) == pc[r] \in {"call", "bare"} => ~Finished(r)

ControlTypes ==
  /\ program \in Programs
  /\ pc \in [Rank -> Place]
  /\ k \in [Rank -> Nat]
  /\ \A r \in Rank : k[r] <= Len(CallsOf(r)) /\ InCall(r)
  /\ log \in [Rank -> Seq(World)]

MemoryTypes ==
  /\ app \in [Rank -> Nat] /\ lib \in [Rank -> Nat] /\ tool \in [Rank -> Nat]
  /\ before \in [Rank -> Nat]
  /\ all \in [Rank -> Seq(Nat)] /\ mpi \in [Rank -> Seq(Int)]

ReportTypes ==
  /\ rank \in [Rank -> Rank] /\ numpe \in [Rank -> {0, N}]
  /\ DOMAIN text = Rank /\ DOMAIN report = Rank
  /\ file.writers \subseteq Rank

AllTyped == ControlTypes /\ MemoryTypes /\ ReportTypes

LEMMA CallsType ==
  ASSUME program \in Programs, NEW r \in Rank
  PROVE  /\ CallsOf(r) \in Seq(Call) /\ Len(CallsOf(r)) = Len(program.calls[r]) + 1
         /\ program.calls[r] \in Seq(Call) /\ program.init \in Call
<1>1. program.init \in {"MPI_Init", "MPI_Init_thread"}
  BY ProgramsAssumption
<1>2. program.calls[r] \in Seq(Call \ {"MPI_Init", "MPI_Init_thread"})
  BY ProgramsAssumption
<1>3. program.calls[r] \in Seq(Call)
  BY <1>2
<1>4. program.init \in Call
  BY <1>1 DEF Call, Wrapped, Bare
<1> QED
  BY <1>3, <1>4 DEF CallsOf

LEMMA TypesAreTypes == AllTyped => TypeOK
<1> SUFFICES ASSUME AllTyped PROVE TypeOK
  OBVIOUS
<1>1. pc \in [Rank -> {"app", "call", "bare", "metadata", "fill", "write", "finalize",
                       "done", "failed"} \union ToolPlaces \union {Inside[p] : p \in ToolPlaces}]
  <2>1. Place \subseteq {"app", "call", "bare", "metadata", "fill", "write", "finalize",
                         "done", "failed"} \union ToolPlaces \union {Inside[p] : p \in ToolPlaces}
    BY DEF Place, ToolPlaces, Inside
  <2> QED
    BY <2>1 DEF AllTyped, ControlTypes
<1>2. \A r \in Rank : k[r] \in 0..Len(CallsOf(r))
  BY CallsType DEF AllTyped, ControlTypes
<1> QED
  BY <1>1, <1>2 DEF AllTyped, ControlTypes, MemoryTypes, ReportTypes, TypeOK

LEMMA InitTypes == Init => AllTyped
<1> SUFFICES ASSUME Init PROVE AllTyped
  OBVIOUS
<1>1. 0 \in Rank
  BY NAssumption DEF Rank
<1>2. ControlTypes
  <2>1. program \in Programs
    BY DEF Init
  <2>2. \A r \in Rank : 0 <= Len(CallsOf(r))
    BY <2>1, CallsType
  <2> QED
    BY <2>1, <2>2 DEF Init, ControlTypes, InCall, Place
<1>3. MemoryTypes
  BY DEF Init, MemoryTypes
<1>4. ReportTypes
  BY <1>1 DEF Init, ReportTypes
<1> QED
  BY <1>2, <1>3, <1>4 DEF AllTyped

LEMMA EnterType ==
  ASSUME log \in [Rank -> Seq(World)], NEW r \in Rank, NEW op, Enter(r, op)
  PROVE  log' \in [Rank -> Seq(World)]
BY DEF Enter

(* Where a step of a rank may lead, and how far it counts its calls.       *)
LEMMA StepPlaces ==
  ASSUME ControlTypes, NEW r \in Rank, Step(r) \/ Fault(r)
  PROVE  /\ program' = program
         /\ pc' \in [Rank -> Place]
         /\ k' \in [Rank -> Nat]
         /\ \A s \in Rank : s # r => k'[s] = k[s] /\ (pc'[s] = pc[s] \/ pc'[s] = "failed")
         /\ \/ k'[r] = k[r] /\ (pc'[r] \in {"call", "bare"} => ~Finished(r))
            \/ k'[r] = k[r] + 1 /\ pc[r] \in {"call", "bare"} /\ pc'[r] \notin {"call", "bare"}
<1>1. pc \in [Rank -> Place] /\ k \in [Rank -> Nat]
  BY DEF ControlTypes
<1>2. program' = program
  BY DEF Step, Fault, Before, After, Abort, BareCall, BareReturns, EnterTool, Synced, Metadata,
         Finalize, FillReport, Gathered, Gatheredv, Crash, GatheredvAstray, Write, PmpiFinalize,
         SampleFails, MetadataFails, WriteFails, NoOutputPath
<1> USE <1>1 DEF Goto, Place
<1>3. CASE Before(r) BY <1>3 DEF Before
<1>4. CASE After(r) BY <1>4 DEF After
<1>5. CASE Abort(r) BY <1>5 DEF Abort
<1>6. CASE BareCall(r) BY <1>6 DEF BareCall
<1>7. CASE BareReturns(r) BY <1>7 DEF BareReturns
<1>8. CASE EnterTool(r) BY <1>8 DEF EnterTool, ToolPlaces, Inside
<1>9. CASE Synced(r) BY <1>9 DEF Synced
<1>10. CASE Metadata(r) BY <1>10 DEF Metadata
<1>11. CASE Finalize(r) BY <1>11 DEF Finalize
<1>12. CASE FillReport(r) BY <1>12 DEF FillReport
<1>13. CASE Gathered(r) BY <1>13 DEF Gathered
<1>14. CASE Gatheredv(r) BY <1>14 DEF Gatheredv
<1>15. CASE Crash(r) BY <1>15 DEF Crash
<1>16. CASE GatheredvAstray(r) BY <1>16 DEF GatheredvAstray
<1>17. CASE Write(r) BY <1>17 DEF Write
<1>18. CASE PmpiFinalize(r) BY <1>18 DEF PmpiFinalize
<1>19. CASE Fault(r) BY <1>19 DEF Fault, SampleFails, MetadataFails, WriteFails, NoOutputPath
<1> QED
  BY <1>2, <1>3, <1>4, <1>5, <1>6, <1>7, <1>8, <1>9, <1>10, <1>11, <1>12, <1>13, <1>14,
     <1>15, <1>16, <1>17, <1>18, <1>19 DEF Step

LEMMA StepLogType ==
  ASSUME log \in [Rank -> Seq(World)], NEW r \in Rank, Step(r) \/ Fault(r)
  PROVE  log' \in [Rank -> Seq(World)]
<1>1. log' = log \/ \E op : Enter(r, op)
  BY DEF Step, Fault, Before, After, Abort, BareCall, BareReturns, EnterTool, Synced, Metadata,
         Finalize, FillReport, Gathered, Gatheredv, Crash, GatheredvAstray, Write, PmpiFinalize,
         SampleFails, MetadataFails, WriteFails, NoOutputPath
<1> QED
  BY <1>1, EnterType

LEMMA StepControl ==
  ASSUME ControlTypes, NEW r \in Rank, Step(r) \/ Fault(r)
  PROVE  ControlTypes'
<1>1. /\ program \in Programs /\ program' = program
      /\ pc' \in [Rank -> Place] /\ k' \in [Rank -> Nat]
      /\ log' \in [Rank -> Seq(World)]
  BY StepPlaces, StepLogType DEF ControlTypes
<1>2. ASSUME NEW s \in Rank
      PROVE  /\ CallsOf(s)' = CallsOf(s) /\ Len(CallsOf(s)) \in Nat
             /\ k'[s] <= Len(CallsOf(s)) /\ InCall(s)'
  <2>1. /\ CallsOf(s)' = CallsOf(s) /\ Len(CallsOf(s)) \in Nat
        /\ k[s] \in Nat /\ k[s] <= Len(CallsOf(s)) /\ InCall(s)
    BY <1>1, CallsType DEF CallsOf, ControlTypes
  <2> QED
    BY <2>1, StepPlaces DEF InCall, Finished
<1> QED
  BY <1>1, <1>2 DEF ControlTypes

LEMMA GrowthType ==
  ASSUME NEW f \in [Rank -> Nat], NEW r \in Rank, NEW g \in Int, f[r] + g >= 0
  PROVE  [f EXCEPT ![r] = @ + g] \in [Rank -> Nat]
<1>1. f[r] + g \in Nat
  OBVIOUS
<1> QED
  BY <1>1

LEMMA AppType ==
  ASSUME app \in [Rank -> Nat], NEW r \in Rank, AppWorks(r)
  PROVE  app' \in [Rank -> Nat] /\ \A s \in Rank : s # r => app'[s] = app[s]
<1>1. PICK g \in Int : app[r] + g >= 0 /\ app' = [app EXCEPT ![r] = @ + g]
  BY GrowthAssumption DEF AppWorks
<1> QED
  BY <1>1, GrowthType

LEMMA LibType ==
  ASSUME lib \in [Rank -> Nat], NEW r \in Rank, LibWorks(r)
  PROVE  lib' \in [Rank -> Nat] /\ \A s \in Rank : s # r => lib'[s] = lib[s]
<1>1. PICK g \in Int : lib[r] + g >= 0 /\ lib' = [lib EXCEPT ![r] = @ + g]
  BY GrowthAssumption DEF LibWorks
<1> QED
  BY <1>1, GrowthType

(* Memory, as the other ranks see it and as the one that takes the step    *)
(* does.                                                                   *)
LEMMA StepMemory ==
  ASSUME MemoryTypes, NEW r \in Rank, Step(r) \/ Fault(r)
  PROVE  /\ MemoryTypes'
         /\ \A s \in Rank : s # r =>
              /\ app'[s] = app[s] /\ lib'[s] = lib[s] /\ tool'[s] = tool[s]
              /\ before'[s] = before[s] /\ all'[s] = all[s] /\ mpi'[s] = mpi[s]
<1> USE DEF MemoryTypes, mem, data
<1>1. CASE UNCHANGED <<mem, data>>
  BY <1>1
<1>2. CASE Before(r)
  <2>1. app' \in [Rank -> Nat] /\ \A s \in Rank : s # r => app'[s] = app[s]
    BY <1>2, AppType DEF Before
  <2> DEFINE sum == app'[r] + lib[r] + tool[r]
  <2>2. before' = [before EXCEPT ![r] = sum] /\ UNCHANGED <<lib, tool, all, mpi>>
    BY <1>2 DEF Before
  <2>3. sum \in Nat
    BY <2>1
  <2> HIDE DEF sum
  <2> QED
    BY <2>1, <2>2, <2>3
<1>3. CASE After(r)
  <2>1. /\ lib' \in [Rank -> Nat] /\ app' = app /\ before' = before
        /\ tool' = [tool EXCEPT ![r] = @ + 1]
        /\ \A s \in Rank : s # r => lib'[s] = lib[s]
    BY <1>3, LibType DEF After
  <2> DEFINE after == app[r] + lib'[r] + tool[r]
  <2>2. /\ all' = [all EXCEPT ![r] = @ \o <<before[r], after>>]
        /\ mpi' = [mpi EXCEPT ![r] = Append(@, after - before[r])]
    BY <1>3 DEF After
  <2>3. after \in Nat /\ after - before[r] \in Int /\ before[r] \in Nat
    BY <2>1
  <2> HIDE DEF after
  <2>4. all[r] \o <<before[r], after>> \in Seq(Nat) /\ Append(mpi[r], after - before[r]) \in Seq(Int)
    BY <2>3
  <2>5. all' \in [Rank -> Seq(Nat)] /\ \A s \in Rank : s # r => all'[s] = all[s]
    BY <2>2, <2>4
  <2>6. mpi' \in [Rank -> Seq(Int)] /\ \A s \in Rank : s # r => mpi'[s] = mpi[s]
    BY <2>2, <2>4
  <2>7. tool' \in [Rank -> Nat] /\ \A s \in Rank : s # r => tool'[s] = tool[s]
    BY <2>1
  <2> QED
    BY <2>1, <2>5, <2>6, <2>7
<1>4. CASE BareCall(r) \/ Finalize(r)
  BY <1>4, AppType DEF BareCall, Finalize
<1>5. CASE BareReturns(r)
  BY <1>5, LibType DEF BareReturns
<1> QED
  BY <1>1, <1>2, <1>3, <1>4, <1>5
     DEF Step, Fault, Abort, EnterTool, Synced, Metadata, FillReport, Gathered, Gatheredv, Crash,
         GatheredvAstray, Write, PmpiFinalize, SampleFails, MetadataFails, WriteFails, NoOutputPath

LEMMA StepReport ==
  ASSUME ReportTypes, NEW r \in Rank, Step(r) \/ Fault(r)
  PROVE  ReportTypes'
<1> USE DEF ReportTypes, ident, out
<1>1. CASE UNCHANGED <<ident, out>>
  BY <1>1
<1>2. CASE Metadata(r)
  BY <1>2 DEF Metadata
<1>3. CASE FillReport(r)
  BY <1>3 DEF FillReport
<1>4. CASE Gatheredv(r)
  BY <1>4 DEF Gatheredv
<1>5. CASE GatheredvAstray(r)
  BY <1>5 DEF GatheredvAstray
<1>6. CASE Write(r)
  BY <1>6 DEF Write
<1> QED
  BY <1>1, <1>2, <1>3, <1>4, <1>5, <1>6
     DEF Step, Fault, Before, After, Abort, BareCall, BareReturns, EnterTool, Synced, Finalize,
         Gathered, Crash, PmpiFinalize, SampleFails, MetadataFails, WriteFails, NoOutputPath

LEMMA NextTypes ==
  ASSUME AllTyped, [Next]_vars
  PROVE  AllTyped'
<1>1. CASE UNCHANGED vars
  <2>1. UNCHANGED <<program, pc, k, log, app, lib, tool, before, all, mpi, rank, numpe,
                    text, report, file>>
    BY <1>1 DEF vars, mem, data, ident, out
  <2> QED
    BY <2>1 DEF AllTyped, ControlTypes, MemoryTypes, ReportTypes, CallsOf, InCall, Finished
<1>2. CASE Next
  BY <1>2, StepControl, StepMemory, StepReport DEF Next, AllTyped
<1> QED
  BY <1>1, <1>2

(* The variables of the tracing library keep their types.                  *)
THEOREM MemnesiaTypeCorrect == Spec => []TypeOK
BY InitTypes, NextTypes, TypesAreTypes, PTL DEF Spec

-----------------------------------------------------------------------------
(* Sums, and the greatest of a sequence.                                   *)

Sum(s) == CHOOSE sum : sum = [n \in 0..Len(s) |-> IF n = 0 THEN 0 ELSE sum[n - 1] + s[n]]

LEMMA SumDef ==
  ASSUME NEW s \in Seq(Int)
  PROVE  /\ Sum(s) \in [0..Len(s) -> Int] /\ Sum(s)[0] = 0
         /\ \A n \in 1..Len(s) : Sum(s)[n] = Sum(s)[n - 1] + s[n]
<1> DEFINE g == [p \in (1..Len(s)) \X Int |-> p[2] + s[p[1]]]
           body(f) == [n \in 0..Len(s) |-> IF n = 0 THEN 0 ELSE f[n - 1] + s[n]]
<1>1. g \in [(1..Len(s)) \X Int -> Int] /\ Len(s) \in Nat
  <2>1. \A p \in (1..Len(s)) \X Int : p[2] + s[p[1]] \in Int
    OBVIOUS
  <2> QED
    BY <2>1
<1>2. PICK f \in [0..Len(s) -> Int] :
        f[0] = 0 /\ \A m \in 1..Len(s) : f[m] = g[<<m, f[m - 1]>>]
  <2>1. g \in Steps(Len(s), Int) /\ 0 \in Int
    BY <1>1 DEF Steps
  <2> HIDE DEF g
  <2>2. Defines(Len(s), Int, 0, g)
    BY <1>1, <2>1, Recursion
  <2> QED
    BY <2>2 DEF Defines
<1>3. \A m \in 1..Len(s) : f[m] = f[m - 1] + s[m]
  <2> SUFFICES ASSUME NEW m \in 1..Len(s) PROVE f[m] = f[m - 1] + s[m]
    OBVIOUS
  <2>0. m - 1 \in 0..Len(s)
    BY <1>1
  <2>1. <<m, f[m - 1]>> \in (1..Len(s)) \X Int
    BY <2>0
  <2>2. g[<<m, f[m - 1]>>] = f[m - 1] + s[m]
    BY <2>1
  <2> QED
    BY <1>2, <2>2
<1>4. f = body(f)
  BY <1>2, <1>3
<1>5. Sum(s) = body(Sum(s))
  BY <1>4 DEF Sum
<1> DEFINE F == Sum(s)
<1> HIDE DEF F
<1>6. /\ DOMAIN F = 0..Len(s) /\ F[0] = 0
      /\ \A n \in 1..Len(s) : F[n] = F[n - 1] + s[n]
  <2>1. F = body(F)
    BY <1>5 DEF F
  <2>2. DOMAIN F = 0..Len(s)
    BY <2>1
  <2>3. ASSUME NEW n \in 0..Len(s) PROVE F[n] = IF n = 0 THEN 0 ELSE F[n - 1] + s[n]
    BY <2>1
  <2>4. 0 \in 0..Len(s) /\ \A n \in 1..Len(s) : n \in 0..Len(s) /\ n # 0
    BY <1>1
  <2> QED
    BY <2>2, <2>3, <2>4
<1>7. \A n \in 0..Len(s) : F[n] \in Int
  <2> DEFINE S == {n \in Nat : n <= Len(s) => F[n] \in Int}
  <2>1. 0 \in S
    BY <1>6
  <2>2. ASSUME NEW n \in Nat, n \in S PROVE n + 1 \in S
    <3> SUFFICES ASSUME n + 1 <= Len(s) PROVE F[n + 1] \in Int
      OBVIOUS
    <3>1. n + 1 \in 1..Len(s) /\ (n + 1) - 1 = n /\ F[n] \in Int /\ s[n + 1] \in Int
      BY <1>1, <2>2
    <3>2. F[n + 1] = F[n] + s[n + 1]
      BY <1>6, <3>1
    <3> QED
      BY <3>1, <3>2
  <2> HIDE DEF S
  <2>3. Nat \subseteq S
    BY <2>1, <2>2, Induction
  <2> QED
    BY <1>1, <2>3 DEF S
<1>8. F \in [0..Len(s) -> Int]
  <2>1. F = [n \in 0..Len(s) |-> F[n]]
    BY <1>5 DEF F
  <2> QED
    BY <1>7, <2>1
<1> QED
  BY <1>6, <1>8 DEF F

LEMMA TotalsDef ==
  ASSUME NEW s \in Seq(Int)
  PROVE  Totals(s) = [n \in 1..Len(s) |-> Sum(s)[n]]
BY DEF Totals, Sum

LEMMA TotalsType ==
  ASSUME NEW s \in Seq(Int)
  PROVE  /\ Totals(s) \in Seq(Int) /\ Len(Totals(s)) = Len(s)
         /\ \A n \in 1..Len(s) : Totals(s)[n] = Sum(s)[n] /\ Totals(s)[n] \in Int
<1>1. Totals(s) = [n \in 1..Len(s) |-> Sum(s)[n]] /\ Len(s) \in Nat
  BY TotalsDef
<1>2. \A n \in 1..Len(s) : Sum(s)[n] \in Int
  BY SumDef
<1> QED
  BY <1>1, <1>2

(* What is added to a sequence is added to its last total.                 *)
LEMMA SumAppend ==
  ASSUME NEW s \in Seq(Int), NEW v \in Int
  PROVE  Sum(Append(s, v))[Len(Append(s, v))] = Sum(s)[Len(s)] + v
<1> DEFINE t == Append(s, v)
<1>1. /\ t \in Seq(Int) /\ Len(t) = Len(s) + 1 /\ Len(s) \in Nat
      /\ t[Len(s) + 1] = v /\ \A n \in 1..Len(s) : t[n] = s[n]
  OBVIOUS
<1> HIDE DEF t
<1> DEFINE S == {n \in Nat : n <= Len(s) => Sum(t)[n] = Sum(s)[n]}
<1>2. 0 \in S
  BY <1>1, SumDef
<1>3. ASSUME NEW n \in Nat, n \in S PROVE n + 1 \in S
  <2> SUFFICES ASSUME n + 1 <= Len(s) PROVE Sum(t)[n + 1] = Sum(s)[n + 1]
    OBVIOUS
  <2>1. /\ n + 1 \in 1..Len(s) /\ n + 1 \in 1..Len(t) /\ (n + 1) - 1 = n
        /\ Sum(t)[n] = Sum(s)[n] /\ t[n + 1] = s[n + 1]
    BY <1>1, <1>3
  <2>2. Sum(t)[n + 1] = Sum(t)[n] + t[n + 1] /\ Sum(s)[n + 1] = Sum(s)[n] + s[n + 1]
    BY <1>1, <2>1, SumDef
  <2> QED
    BY <2>1, <2>2
<1> HIDE DEF S
<1>4. Sum(t)[Len(s)] = Sum(s)[Len(s)]
  <2>1. Nat \subseteq S
    BY <1>2, <1>3, Induction
  <2> QED
    BY <1>1, <2>1 DEF S
<1>5. Sum(t)[Len(t)] = Sum(t)[Len(s)] + v
  <2>1. Len(t) \in 1..Len(t) /\ Len(t) - 1 = Len(s) /\ t[Len(t)] = v
    BY <1>1
  <2> QED
    BY <1>1, <2>1, SumDef
<1> QED
  BY <1>4, <1>5 DEF t

(* The watermark is one of the values, or 0, and none is higher.           *)
LEMMA HighIsHighest ==
  ASSUME NEW s \in Seq(Int)
  PROVE  /\ High(s) \in Nat
         /\ \A n \in 1..Len(s) : s[n] <= High(s)
<1> DEFINE Upto(m) == {0} \union {s[n] : n \in 1..m}
           Has(m) == \E v \in Upto(m) : v \in Nat /\ \A w \in Upto(m) : w <= v
           S == {m \in Nat : m <= Len(s) => Has(m)}
<1>1. 0 \in S
  <2>1. Upto(0) = {0}
    OBVIOUS
  <2> QED
    BY <2>1
<1>2. ASSUME NEW m \in Nat, m \in S PROVE m + 1 \in S
  <2> SUFFICES ASSUME m + 1 <= Len(s) PROVE Has(m + 1)
    OBVIOUS
  <2>1. PICK v \in Upto(m) : v \in Nat /\ \A w \in Upto(m) : w <= v
    BY <1>2
  <2>2. s[m + 1] \in Int /\ Upto(m + 1) = Upto(m) \union {s[m + 1]}
    <3>1. m + 1 \in 1..Len(s) /\ 1..(m + 1) = (1..m) \union {m + 1}
      OBVIOUS
    <3> QED
      BY <3>1
  <2> HIDE DEF Upto
  <2>3. CASE s[m + 1] <= v
    BY <2>1, <2>2, <2>3
  <2>4. CASE v < s[m + 1]
    <3>1. s[m + 1] \in Nat /\ \A w \in Upto(m) : w <= v
      BY <2>1, <2>2, <2>4
    <3>2. \A w \in Upto(m) : w \in Int
      BY DEF Upto
    <3>3. \A w \in Upto(m + 1) : w <= s[m + 1]
      BY <2>1, <2>2, <2>4, <3>1, <3>2
    <3> QED
      BY <2>2, <3>1, <3>3
  <2> QED
    BY <2>1, <2>2, <2>3, <2>4
<1>3. Has(Len(s))
  <2> HIDE DEF Has
  <2> HIDE DEF S
  <2>1. Nat \subseteq S
    BY <1>1, <1>2, Induction
  <2> QED
    BY <2>1 DEF S
<1> DEFINE values == {0} \union {s[n] : n \in 1..Len(s)}
<1>4. PICK v \in values : v \in Nat /\ \A w \in values : w <= v
  BY <1>3
<1>5. High(s) \in values /\ \A w \in values : w <= High(s)
  BY <1>4 DEF High
<1>6. High(s) \in Int /\ 0 <= High(s)
  BY <1>5
<1> QED
  BY <1>5, <1>6

-----------------------------------------------------------------------------
(* What is charged to MPI.                                                 *)

AllWrapped(r) == \A c \in 1..k[r] : CallsOf(r)[c] \in Wrapped

(* While all calls had wrappers the differences add up to what the library *)
(* holds, and what a caliper has sampled is still what it was.             *)
Charged(r) ==
  /\ pc[r] = "bare" => Current(r) \notin Wrapped
  /\ AllWrapped(r) =>
       /\ Sum(mpi[r])[Len(mpi[r])] = lib[r]
       /\ pc[r] = "call" => before[r] = app[r] + lib[r] + tool[r]

ChargeInv == AllTyped /\ \A r \in Rank : Charged(r)

LEMMA InitCharge == Init => ChargeInv
<1> SUFFICES ASSUME Init PROVE ChargeInv
  OBVIOUS
<1>1. AllTyped
  BY InitTypes
<1>2. ASSUME NEW r \in Rank PROVE Charged(r)
  <2>1. mpi[r] = << >> /\ lib[r] = 0 /\ pc[r] = "app"
    BY <1>2 DEF Init
  <2>2. << >> \in Seq(Int) /\ Len(<< >>) = 0
    OBVIOUS
  <2>3. Sum(<< >>)[0] = 0
    BY <2>2, SumDef
  <2> QED
    BY <2>1, <2>2, <2>3 DEF Charged
<1> QED
  BY <1>1, <1>2 DEF ChargeInv

LEMMA CallsFixed ==
  ASSUME ControlTypes, NEW r \in Rank, Step(r) \/ Fault(r), NEW s \in Rank
  PROVE  CallsOf(s)' = CallsOf(s)
BY StepPlaces DEF CallsOf

(* The return of a call charges what the library has grown by.             *)
LEMMA AfterCharges ==
  ASSUME ChargeInv, NEW r \in Rank, After(r)
  PROVE  Charged(r)'
<1>1. /\ ControlTypes /\ MemoryTypes /\ Charged(r) /\ k[r] \in Nat
      /\ CallsOf(r)' = CallsOf(r) /\ MemoryTypes'
  BY CallsFixed, StepMemory DEF ChargeInv, AllTyped, ControlTypes, Step
<1>2. pc[r] = "call" /\ k'[r] = k[r] + 1 /\ pc'[r] \notin {"call", "bare"}
  BY <1>1 DEF After, Goto, ControlTypes
<1>3. SUFFICES ASSUME AllWrapped(r)'
               PROVE  Sum(mpi'[r])[Len(mpi'[r])] = lib'[r]
  BY <1>2 DEF Charged
<1>4. AllWrapped(r)
  <2>1. \A c \in 1..k[r] : c \in 1..k'[r]
    BY <1>1, <1>2
  <2> QED
    BY <1>1, <1>3, <2>1 DEF AllWrapped
<1>5. /\ Sum(mpi[r])[Len(mpi[r])] = lib[r]
      /\ before[r] = app[r] + lib[r] + tool[r]
  BY <1>1, <1>2, <1>4 DEF Charged
<1> DEFINE grown == (app[r] + lib'[r] + tool[r]) - before[r]
<1>6. mpi'[r] = Append(mpi[r], grown)
  <2>1. mpi' = [mpi EXCEPT ![r] = Append(@, grown)]
    BY DEF After
  <2>2. mpi \in [Rank -> Seq(Int)]
    BY <1>1 DEF MemoryTypes
  <2> HIDE DEF grown
  <2> QED
    BY <2>1, <2>2
<1>7. /\ mpi[r] \in Seq(Int) /\ grown \in Int
      /\ lib[r] + grown = lib'[r]
  <2>1. mpi[r] \in Seq(Int) /\ {app[r], lib[r], tool[r], before[r], lib'[r]} \subseteq Int
    BY <1>1 DEF MemoryTypes
  <2> QED
    BY <1>5, <2>1
<1> HIDE DEF grown
<1> QED
  BY <1>5, <1>6, <1>7, SumAppend

LEMMA StepCharge ==
  ASSUME ChargeInv, NEW r \in Rank, Step(r) \/ Fault(r)
  PROVE  \A s \in Rank : Charged(s)'
<1>1. ControlTypes /\ MemoryTypes /\ \A s \in Rank : Charged(s) /\ CallsOf(s)' = CallsOf(s)
  BY CallsFixed DEF ChargeInv, AllTyped
<1>2. ASSUME NEW s \in Rank, s # r PROVE Charged(s)'
  <2>1. k'[s] = k[s] /\ (pc'[s] = pc[s] \/ pc'[s] = "failed")
    BY <1>1, <1>2, StepPlaces
  <2>2. /\ app'[s] = app[s] /\ lib'[s] = lib[s] /\ tool'[s] = tool[s]
        /\ before'[s] = before[s] /\ mpi'[s] = mpi[s]
    BY <1>1, <1>2, StepMemory
  <2>3. Charged(s) /\ CallsOf(s)' = CallsOf(s)
    BY <1>1
  <2> QED
    BY <2>1, <2>2, <2>3 DEF Charged, AllWrapped, Current
<1>3. Charged(r)'
  <2>1. /\ Charged(r) /\ CallsOf(r)' = CallsOf(r)
        /\ pc \in [Rank -> Place] /\ k \in [Rank -> Nat]
    BY <1>1 DEF ControlTypes
  <2> USE DEF Goto, mem, data
  <2>2. CASE Before(r)
    <3>1. /\ pc'[r] = "call" /\ UNCHANGED <<k, lib, tool, mpi>>
          /\ before' = [before EXCEPT ![r] = app'[r] + lib[r] + tool[r]]
      BY <2>1, <2>2 DEF Before
    <3> QED
      BY <1>1, <2>1, <3>1 DEF Charged, AllWrapped, MemoryTypes
  <2>3. CASE After(r)
    BY <2>3, AfterCharges
  <2>4. CASE BareCall(r)
    <3>1. pc'[r] = "bare" /\ UNCHANGED <<k, lib, mpi>> /\ Current(r) \notin Wrapped
      BY <2>1, <2>4 DEF BareCall
    <3> QED
      BY <2>1, <3>1 DEF Charged, AllWrapped, Current
  <2>5. CASE BareReturns(r)
    <3>1. /\ pc[r] = "bare" /\ pc'[r] = "app" /\ k'[r] = k[r] + 1
          /\ CallsOf(r)[k[r] + 1] \notin Wrapped
      BY <2>1, <2>5 DEF BareReturns, Charged, Current
    <3>2. k'[r] \in 1..k'[r]
      BY <2>1, <3>1
    <3>3. ~AllWrapped(r)'
      BY <2>1, <3>1, <3>2 DEF AllWrapped
    <3> QED
      BY <3>1, <3>3 DEF Charged
  <2>6. ASSUME k' = k, UNCHANGED <<lib, mpi>>, pc'[r] \notin {"call", "bare"} PROVE Charged(r)'
    BY <2>1, <2>6 DEF Charged, AllWrapped
  <2>7. ASSUME Step(r) \/ Fault(r), ~Before(r), ~After(r), ~BareCall(r), ~BareReturns(r)
        PROVE  k' = k /\ UNCHANGED <<lib, mpi>>
    BY <2>7
       DEF Step, Fault, Abort, EnterTool, Synced, Metadata, Finalize, FillReport, Gathered,
           Gatheredv, Crash, GatheredvAstray, Write, PmpiFinalize, SampleFails, MetadataFails,
           WriteFails, NoOutputPath
  <2>8. ASSUME Step(r) \/ Fault(r), ~Before(r), ~After(r), ~BareCall(r), ~BareReturns(r)
        PROVE  pc'[r] \notin {"call", "bare"}
    BY <2>1, <2>8
       DEF Step, Fault, Abort, EnterTool, Synced, Metadata, Finalize, FillReport, Gathered,
           Gatheredv, Crash, GatheredvAstray, Write, PmpiFinalize, SampleFails, MetadataFails,
           WriteFails, NoOutputPath, ToolPlaces, Inside
  <2> QED
    BY <2>2, <2>3, <2>4, <2>5, <2>6, <2>7, <2>8
<1> QED
  BY <1>2, <1>3

LEMMA NextCharge ==
  ASSUME ChargeInv, [Next]_vars
  PROVE  ChargeInv'
<1>1. AllTyped'
  BY NextTypes DEF ChargeInv
<1>2. CASE UNCHANGED vars
  BY <1>1, <1>2 DEF vars, mem, data, ChargeInv, Charged, AllWrapped, CallsOf, Current
<1>3. CASE Next
  BY <1>1, <1>3, StepCharge DEF Next, ChargeInv
<1> QED
  BY <1>2, <1>3

(* Where all calls have wrappers, MPI is charged with what its library     *)
(* holds, and the watermark is not below it: whatever the application and  *)
(* the dataset of the tool grow by between calls and in them.              *)
THEOREM MpiIsCharged == Spec => []ChargedToMpi
<1>1. ChargeInv => ChargedToMpi
  <2> SUFFICES ASSUME ChargeInv, NEW r \in Rank, AllWrapped(r), mpi[r] # << >>
               PROVE  /\ Totals(mpi[r])[Len(mpi[r])] = lib[r]
                      /\ High(Totals(mpi[r])) >= lib[r]
    BY DEF ChargedToMpi, AllWrapped
  <2>1. mpi[r] \in Seq(Int) /\ Sum(mpi[r])[Len(mpi[r])] = lib[r]
    BY DEF ChargeInv, AllTyped, MemoryTypes, Charged
  <2>2. Len(mpi[r]) \in 1..Len(mpi[r])
    BY <2>1
  <2>3. /\ Totals(mpi[r]) \in Seq(Int) /\ Len(Totals(mpi[r])) = Len(mpi[r])
        /\ Totals(mpi[r])[Len(mpi[r])] = lib[r]
    BY <2>1, <2>2, TotalsType
  <2>4. lib[r] <= High(Totals(mpi[r])) /\ High(Totals(mpi[r])) \in Nat /\ lib[r] \in Nat
    BY <2>2, <2>3, HighIsHighest DEF ChargeInv, AllTyped, MemoryTypes
  <2> QED
    BY <2>3, <2>4
<1> QED
  BY InitCharge, NextCharge, <1>1, PTL DEF Spec

-----------------------------------------------------------------------------
(* Collectives.                                                            *)

Prefix(a, b) == Len(a) <= Len(b) /\ \A n \in 1..Len(a) : a[n] = b[n]

LEMMA PrefixOfConcat ==
  ASSUME NEW S, NEW a \in Seq(S), NEW b \in Seq(S)
  PROVE  Prefix(a, a \o b)
BY DEF Prefix

LEMMA PrefixAfter ==
  ASSUME NEW S, NEW a \in Seq(S), NEW b \in Seq(S), NEW c \in Seq(S), Prefix(b, c)
  PROVE  Prefix(a \o b, a \o c)
<1> DEFINE x == a \o b  y == a \o c
<1>1. /\ Len(x) = Len(a) + Len(b) /\ Len(y) = Len(a) + Len(c)
      /\ Len(a) \in Nat /\ Len(b) \in Nat /\ Len(c) \in Nat
      /\ \A n \in 1..Len(a) : x[n] = a[n] /\ y[n] = a[n]
      /\ \A n \in 1..Len(b) : x[Len(a) + n] = b[n]
      /\ \A n \in 1..Len(c) : y[Len(a) + n] = c[n]
  OBVIOUS
<1> HIDE DEF x, y
<1>2. Len(b) <= Len(c) /\ \A n \in 1..Len(b) : b[n] = c[n]
  BY DEF Prefix
<1>3. ASSUME NEW n \in 1..Len(x) PROVE x[n] = y[n]
  <2>1. CASE n \in 1..Len(a)
    BY <1>1, <2>1
  <2>2. CASE n \notin 1..Len(a)
    <3>1. n - Len(a) \in 1..Len(b) /\ Len(a) + (n - Len(a)) = n
      BY <1>1, <2>2
    <3>2. n - Len(a) \in 1..Len(c)
      BY <1>1, <1>2, <3>1
    <3>3. PICK m \in 1..Len(b) : Len(a) + m = n /\ m \in 1..Len(c)
      BY <3>1, <3>2
    <3>4. x[n] = b[m] /\ y[n] = c[m]
      BY <1>1, <3>3
    <3> QED
      BY <1>2, <3>3, <3>4
  <2> QED
    BY <2>1, <2>2
<1> QED
  BY <1>1, <1>2, <1>3 DEF Prefix, x, y

LEMMA PrefixOfPrefix ==
  ASSUME NEW S, NEW a \in Seq(S), NEW b \in Seq(S), NEW c \in Seq(S), Prefix(a, b), Prefix(b, c)
  PROVE  Prefix(a, c)
<1>1. Len(a) \in Nat /\ Len(b) \in Nat /\ Len(c) \in Nat
  OBVIOUS
<1>2. \A n \in 1..Len(a) : n \in 1..Len(b)
  BY <1>1 DEF Prefix
<1> QED
  BY <1>1, <1>2 DEF Prefix

LEMMA AppendInside ==
  ASSUME NEW S, NEW a \in Seq(S), NEW b \in Seq(S), NEW v \in S
  PROVE  Append(a \o b, v) = a \o Append(b, v)
OBVIOUS

(* Of the first n calls in s, those on MPI_COMM_WORLD.                     *)
On(s) ==
  CHOOSE on : on = [n \in 0..Len(s) |->
    IF n = 0 THEN << >> ELSE IF s[n] \in World THEN Append(on[n - 1], s[n]) ELSE on[n - 1]]

With(ops, op) == IF op \in World THEN Append(ops, op) ELSE ops

LEMMA OnDef ==
  ASSUME NEW s \in Seq(Call)
  PROVE  /\ On(s) \in [0..Len(s) -> Seq(World)] /\ On(s)[0] = << >>
         /\ \A n \in 1..Len(s) : On(s)[n] = With(On(s)[n - 1], s[n])
         /\ OnWorld(s) = On(s)[Len(s)]
<1> DEFINE V == Seq(World)
           g == [p \in (1..Len(s)) \X V |-> With(p[2], s[p[1]])]
           body(f) == [n \in 0..Len(s) |->
             IF n = 0 THEN << >> ELSE IF s[n] \in World THEN Append(f[n - 1], s[n]) ELSE f[n - 1]]
<1>1. /\ Len(s) \in Nat /\ << >> \in V
      /\ \A ops \in V : \A op : With(ops, op) \in V
  BY DEF With
<1> HIDE DEF V
<1>2. g \in Steps(Len(s), V)
  BY <1>1 DEF Steps
<1>3. PICK f \in [0..Len(s) -> V] :
        f[0] = << >> /\ \A m \in 1..Len(s) : f[m] = g[<<m, f[m - 1]>>]
  <2> HIDE DEF g
  <2>1. Defines(Len(s), V, << >>, g)
    BY <1>1, <1>2, Recursion
  <2> QED
    BY <2>1 DEF Defines
<1>4. \A m \in 1..Len(s) : f[m] = With(f[m - 1], s[m])
  <2> SUFFICES ASSUME NEW m \in 1..Len(s) PROVE f[m] = With(f[m - 1], s[m])
    OBVIOUS
  <2>1. m - 1 \in 0..Len(s)
    BY <1>1
  <2>2. <<m, f[m - 1]>> \in (1..Len(s)) \X V
    BY <2>1
  <2>3. g[<<m, f[m - 1]>>] = With(f[m - 1], s[m])
    BY <2>2
  <2> QED
    BY <1>3, <2>3
<1>5. f = body(f)
  <2>1. ASSUME NEW n \in 0..Len(s) PROVE f[n] = body(f)[n]
    <3>1. n = 0 \/ n \in 1..Len(s)
      BY <1>1
    <3> QED
      BY <1>3, <1>4, <3>1 DEF With
  <2>2. f = [n \in 0..Len(s) |-> f[n]]
    OBVIOUS
  <2> HIDE DEF With
  <2> QED
    BY <2>1, <2>2
<1>6. On(s) = body(On(s))
  BY <1>5 DEF On
<1> DEFINE F == On(s)
<1> HIDE DEF F
<1>7. /\ F = [n \in 0..Len(s) |-> F[n]] /\ F[0] = << >>
      /\ \A n \in 1..Len(s) : F[n] = With(F[n - 1], s[n])
  <2>1. F = body(F)
    BY <1>6 DEF F
  <2>2. F = [n \in 0..Len(s) |-> F[n]]
    BY <2>1
  <2>3. ASSUME NEW n \in 0..Len(s)
        PROVE F[n] = IF n = 0 THEN << >> ELSE With(F[n - 1], s[n])
    BY <2>1 DEF With
  <2>4. 0 \in 0..Len(s) /\ \A n \in 1..Len(s) : n \in 0..Len(s) /\ n # 0
    BY <1>1
  <2> QED
    BY <2>2, <2>3, <2>4
<1>8. \A n \in 0..Len(s) : F[n] \in V
  <2> DEFINE S == {n \in Nat : n <= Len(s) => F[n] \in V}
  <2>1. 0 \in S
    BY <1>1, <1>7
  <2>2. ASSUME NEW n \in Nat, n \in S PROVE n + 1 \in S
    <3> SUFFICES ASSUME n + 1 <= Len(s) PROVE F[n + 1] \in V
      OBVIOUS
    <3>1. n + 1 \in 1..Len(s) /\ (n + 1) - 1 = n /\ F[n] \in V
      BY <1>1, <2>2
    <3> QED
      BY <1>1, <1>7, <3>1
  <2> HIDE DEF S
  <2>3. Nat \subseteq S
    BY <2>1, <2>2, Induction
  <2> QED
    BY <1>1, <2>3 DEF S
<1>9. OnWorld(s) = F[Len(s)]
  BY DEF OnWorld, F, On
<1>10. F \in [0..Len(s) -> V]
  BY <1>7, <1>8
<1> QED
  BY <1>7, <1>9, <1>10 DEF F, V

LEMMA OnPrefix ==
  ASSUME NEW s \in Seq(Call), NEW m \in 0..Len(s)
  PROVE  Prefix(On(s)[m], OnWorld(s)) /\ On(s)[m] \in Seq(World) /\ OnWorld(s) \in Seq(World)
<1> DEFINE F == On(s)
           S == {n \in Nat : m + n <= Len(s) => Prefix(F[m], F[m + n])}
<1>1. Len(s) \in Nat /\ \A n \in 0..Len(s) : F[n] \in Seq(World)
  BY OnDef
<1>2. 0 \in S
  BY <1>1 DEF Prefix
<1>3. ASSUME NEW n \in Nat, n \in S PROVE n + 1 \in S
  <2> SUFFICES ASSUME m + (n + 1) <= Len(s) PROVE Prefix(F[m], F[m + (n + 1)])
    OBVIOUS
  <2>1. /\ m + n \in 0..Len(s) /\ m + (n + 1) \in 1..Len(s)
        /\ (m + (n + 1)) - 1 = m + n /\ Prefix(F[m], F[m + n])
    BY <1>1, <1>3
  <2>2. F[m + (n + 1)] = With(F[m + n], s[m + (n + 1)])
    BY <2>1, OnDef
  <2> DEFINE a == F[m]  b == F[m + n]  v == s[m + (n + 1)]
  <2>3. a \in Seq(World) /\ b \in Seq(World) /\ Prefix(a, b)
    BY <1>1, <2>1
  <2> HIDE DEF a, b, v
  <2>4. Prefix(a, With(b, v))
    BY <2>3 DEF Prefix, With
  <2> QED
    BY <2>2, <2>4 DEF a, b, v
<1> HIDE DEF S
<1>4. Prefix(F[m], F[Len(s)])
  <2>1. Nat \subseteq S
    BY <1>2, <1>3, Induction
  <2>2. Len(s) - m \in Nat /\ m + (Len(s) - m) = Len(s)
    BY <1>1
  <2> QED
    BY <2>1, <2>2 DEF S
<1> QED
  BY <1>1, <1>4, OnDef

(* What a rank enters on MPI_COMM_WORLD, from MPI_Init to MPI_Finalize.    *)
Begin == IF program.init = "MPI_Init"
         THEN <<"MPI_Init", "tool_barrier", "tool_barrier">> ELSE <<"MPI_Init_thread">>

End == <<"tool_barrier", "tool_gather", "tool_gatherv", "finalize">>

Middle(r) == Begin \o OnWorld(program.calls[r])

Course(r) == Middle(r) \o End

(* What it has entered of the last of it, by where it is.                  *)
Made(p) ==
  CASE p \in {"in_sync3", "fill", "gather"}        -> <<"tool_barrier">>
    [] p \in {"in_gather", "gatherv"}              -> <<"tool_barrier", "tool_gather">>
    [] p \in {"in_gatherv", "write", "finalize"}   -> <<"tool_barrier", "tool_gather", "tool_gatherv">>
    [] p = "done"                                  -> End
    [] OTHER                                       -> << >>

Opening == {"sync1", "in_sync1", "sync2", "in_sync2", "metadata"}
Closing == {"sync3", "in_sync3", "fill", "gather", "in_gather", "gatherv", "in_gatherv",
            "write", "finalize", "done"}

(* What it has entered so far.                                             *)
Opened(r) ==
  /\ k[r] = 1 /\ program.init = "MPI_Init"
  /\ pc[r] = "sync1" => log[r] = <<"MPI_Init">>
  /\ pc[r] \in {"in_sync1", "sync2"} => log[r] = <<"MPI_Init", "tool_barrier">>
  /\ pc[r] \in {"in_sync2", "metadata"} => log[r] = Begin

Entered(r) ==
  /\ pc[r] = "app" =>
       log[r] = IF k[r] = 0 THEN << >> ELSE Begin \o On(program.calls[r])[k[r] - 1]
  /\ pc[r] \in {"call", "bare"} =>
       log[r] = IF k[r] = 0 THEN <<program.init>> ELSE Begin \o On(program.calls[r])[k[r]]
  /\ pc[r] \in Opening => Opened(r)
  /\ pc[r] \in Closing => log[r] = Middle(r) \o Made(pc[r])

OnCourse(r) == Entered(r) /\ Prefix(log[r], Course(r))

CourseInv == ChargeInv /\ \A r \in Rank : OnCourse(r)

LEMMA CourseType ==
  ASSUME program \in Programs, NEW r \in Rank
  PROVE  /\ Begin \in Seq(World) /\ End \in Seq(World)
         /\ Middle(r) \in Seq(World) /\ Course(r) \in Seq(World)
         /\ \A p \in Place : Made(p) \in Seq(World)
         /\ \A n \in 0..Len(program.calls[r]) : On(program.calls[r])[n] \in Seq(World)
         /\ OnWorld(program.calls[r]) \in Seq(World)
<1>1. /\ "MPI_Init" \in World /\ "MPI_Init_thread" \in World /\ "tool_barrier" \in World
      /\ "tool_gather" \in World /\ "tool_gatherv" \in World /\ "finalize" \in World
  BY DEF World, Loose, Synchronizing, ToRoot
<1>2. Begin \in Seq(World) /\ End \in Seq(World)
  BY <1>1 DEF Begin, End
<1>3. \A p \in Place : Made(p) \in Seq(World)
  BY <1>1, <1>2 DEF Made
<1>4. program.calls[r] \in Seq(Call)
  BY CallsType
<1>5. \A n \in 0..Len(program.calls[r]) : On(program.calls[r])[n] \in Seq(World)
  BY <1>4, OnDef
<1>6. OnWorld(program.calls[r]) \in Seq(World)
  BY <1>4, <1>5, OnDef
<1>7. Middle(r) \in Seq(World)
  BY <1>2, <1>6 DEF Middle
<1> QED
  BY <1>2, <1>3, <1>5, <1>6, <1>7 DEF Course

(* The first of a rank's calls is that which initializes MPI, and it does  *)
(* so once.                                                                *)
LEMMA CallsInOrder ==
  ASSUME program \in Programs, NEW r \in Rank, NEW n \in Nat, n < Len(CallsOf(r))
  PROVE  /\ n = 0 => CallsOf(r)[n + 1] = program.init
         /\ n > 0 => /\ CallsOf(r)[n + 1] = program.calls[r][n]
                     /\ n \in 1..Len(program.calls[r])
                     /\ CallsOf(r)[n + 1] # "MPI_Init"
<1>1. /\ program.calls[r] \in Seq(Call \ {"MPI_Init", "MPI_Init_thread"})
      /\ Len(CallsOf(r)) = Len(program.calls[r]) + 1
  BY CallsType, ProgramsAssumption
<1>2. CASE n = 0
  BY <1>1, <1>2 DEF CallsOf
<1>3. CASE n > 0
  <2> DEFINE s == program.calls[r]
  <2>1. n \in 1..Len(s) /\ s \in Seq(Call \ {"MPI_Init", "MPI_Init_thread"})
    BY <1>1, <1>3
  <2>2. CallsOf(r) = <<program.init>> \o s
    BY DEF CallsOf
  <2> HIDE DEF s
  <2>3. CallsOf(r)[n + 1] = s[n]
    BY <2>1, <2>2
  <2>4. s[n] # "MPI_Init"
    BY <2>1
  <2> QED
    BY <1>3, <2>1, <2>3, <2>4 DEF s
<1> QED
  BY <1>2, <1>3

LEMMA InitCourse == Init => CourseInv
<1> SUFFICES ASSUME Init PROVE CourseInv
  OBVIOUS
<1>1. ChargeInv /\ program \in Programs
  BY InitCharge DEF Init
<1>2. ASSUME NEW r \in Rank PROVE OnCourse(r)
  <2>1. log[r] = << >> /\ k[r] = 0 /\ pc[r] = "app"
    BY <1>2 DEF Init
  <2>2. Prefix(<< >>, Course(r))
    BY <1>1, CourseType DEF Prefix
  <2> QED
    BY <2>1, <2>2 DEF OnCourse, Entered, Opening, Closing
<1> QED
  BY <1>1, <1>2 DEF CourseInv

(* A rank that is where it is for what it has entered is on its course.    *)
LEMMA EnteredIsOnCourse ==
  ASSUME ControlTypes, NEW r \in Rank, Entered(r), pc[r] # "failed"
  PROVE  Prefix(log[r], Course(r))
<1> DEFINE s == program.calls[r]
<1>1. /\ Begin \in Seq(World) /\ End \in Seq(World) /\ Middle(r) \in Seq(World)
      /\ OnWorld(s) \in Seq(World) /\ s \in Seq(Call) /\ Len(s) \in Nat
      /\ Course(r) = Middle(r) \o End /\ Middle(r) = Begin \o OnWorld(s)
      /\ Len(CallsOf(r)) = Len(s) + 1 /\ k[r] \in Nat /\ k[r] <= Len(CallsOf(r))
      /\ pc[r] \in Place
  BY CourseType, CallsType DEF ControlTypes, Course, Middle
<1>2. Prefix(Begin, Course(r)) /\ Prefix(Middle(r), Course(r))
  <2>1. Prefix(Begin, Middle(r)) /\ Prefix(Middle(r), Course(r))
    BY <1>1, PrefixOfConcat
  <2> QED
    BY <1>1, <2>1, CourseType, PrefixOfPrefix DEF ControlTypes
<1>3. ASSUME NEW n \in 0..Len(s) PROVE Prefix(Begin \o On(s)[n], Course(r))
  <2>1. Prefix(On(s)[n], OnWorld(s)) /\ On(s)[n] \in Seq(World)
    BY <1>1, OnPrefix
  <2>2. Prefix(Begin \o On(s)[n], Middle(r)) /\ Begin \o On(s)[n] \in Seq(World)
    BY <1>1, <2>1, PrefixAfter
  <2> QED
    BY <1>1, <1>2, <2>2, CourseType, PrefixOfPrefix DEF ControlTypes
<1>4. CASE pc[r] = "app"
  <2>1. CASE k[r] = 0
    BY <1>1, <1>4, <2>1 DEF Entered, Prefix
  <2>2. CASE k[r] # 0
    <3>1. k[r] - 1 \in 0..Len(s)
      <4> HIDE DEF s
      <4> QED
        BY <1>1, <2>2
    <3>2. log[r] = Begin \o On(s)[k[r] - 1]
      BY <1>4, <2>2, Zenon DEF Entered
    <3> HIDE DEF s
    <3> QED
      BY <1>3, <3>1, <3>2
  <2> QED
    BY <2>1, <2>2
<1>5. CASE pc[r] \in {"call", "bare"}
  <2>1. k[r] < Len(CallsOf(r))
    BY <1>1, <1>5 DEF ControlTypes, InCall, Finished
  <2>2. CASE k[r] = 0
    <3>1. log[r] = <<program.init>> /\ Prefix(<<program.init>>, Begin)
      <4>1. program.init \in {"MPI_Init", "MPI_Init_thread"}
        BY ProgramsAssumption DEF ControlTypes
      <4> QED
        BY <1>5, <2>2, <4>1 DEF Entered, Begin, Prefix
    <3>2. <<program.init>> \in Seq(World)
      BY <3>1 DEF ControlTypes
    <3> QED
      BY <1>1, <1>2, <3>1, <3>2, CourseType, PrefixOfPrefix DEF ControlTypes
  <2>3. CASE k[r] # 0
    <3>1. k[r] \in 0..Len(s)
      <4> HIDE DEF s
      <4> QED
        BY <1>1, <2>1
    <3>2. log[r] = Begin \o On(s)[k[r]]
      BY <1>5, <2>3, Zenon DEF Entered
    <3> HIDE DEF s
    <3> QED
      BY <1>3, <3>1, <3>2
  <2> QED
    BY <2>2, <2>3
<1>6. CASE pc[r] \in Opening
  <2>1. Opened(r) /\ Begin = <<"MPI_Init", "tool_barrier", "tool_barrier">>
    BY <1>6 DEF Entered, Opened, Begin
  <2>2. Prefix(log[r], Begin)
    <3>0. Len(Begin) = 3 /\ Begin[1] = "MPI_Init" /\ Begin[2] = "tool_barrier"
      BY <2>1
    <3>1. CASE pc[r] = "sync1"
      <4>1. log[r] = <<"MPI_Init">>
        BY <2>1, <3>1 DEF Opened
      <4>2. Len(log[r]) = 1 /\ log[r][1] = "MPI_Init" /\ 1..1 = {1}
        BY <4>1
      <4> QED
        BY <3>0, <4>2 DEF Prefix
    <3>2. CASE pc[r] \in {"in_sync1", "sync2"}
      <4>1. log[r] = <<"MPI_Init", "tool_barrier">>
        BY <2>1, <3>2 DEF Opened
      <4>2. Len(log[r]) = 2 /\ log[r][1] = "MPI_Init" /\ log[r][2] = "tool_barrier"
        BY <4>1
      <4>3. \A n \in 1..2 : n = 1 \/ n = 2
        OBVIOUS
      <4> QED
        BY <3>0, <4>2, <4>3 DEF Prefix
    <3>3. CASE pc[r] \in {"in_sync2", "metadata"}
      <4>1. log[r] = Begin
        BY <2>1, <3>3 DEF Opened
      <4>2. Prefix(Begin, Begin)
        BY <3>0 DEF Prefix
      <4> QED
        BY <4>1, <4>2
    <3> QED
      BY <1>6, <3>1, <3>2, <3>3 DEF Opening
  <2>3. log[r] \in Seq(World)
    BY DEF ControlTypes
  <2> QED
    BY <1>1, <1>2, <2>2, <2>3, CourseType, PrefixOfPrefix DEF ControlTypes
<1>7. CASE pc[r] \in Closing
  <2>1. log[r] = Middle(r) \o Made(pc[r])
    BY <1>7 DEF Entered
  <2>2. Made(pc[r]) \in Seq(World)
    BY <1>1, CourseType DEF ControlTypes
  <2>3. Prefix(Made(pc[r]), End)
    <3>1. Len(End) = 4 /\ End[1] = "tool_barrier" /\ End[2] = "tool_gather" /\ End[3] = "tool_gatherv"
      BY DEF End
    <3>2. \A n \in 1..3 : n = 1 \/ n = 2 \/ n = 3
      OBVIOUS
    <3>3. CASE Made(pc[r]) = << >>
      BY <3>1, <3>3 DEF Prefix
    <3>4. CASE Made(pc[r]) = <<"tool_barrier">>
      BY <3>1, <3>4 DEF Prefix
    <3>5. CASE Made(pc[r]) = <<"tool_barrier", "tool_gather">>
      <4> DEFINE a == <<"tool_barrier", "tool_gather">>
      <4>1. Len(a) = 2 /\ a[1] = "tool_barrier" /\ a[2] = "tool_gather"
        OBVIOUS
      <4> HIDE DEF a
      <4>2. \A n \in 1..2 : n = 1 \/ n = 2
        OBVIOUS
      <4>3. Prefix(a, End)
        BY <3>1, <4>1, <4>2 DEF Prefix
      <4> QED
        BY <3>5, <4>3 DEF a
    <3>6. CASE Made(pc[r]) = <<"tool_barrier", "tool_gather", "tool_gatherv">>
      <4> DEFINE a == <<"tool_barrier", "tool_gather", "tool_gatherv">>
      <4>1. Len(a) = 3 /\ a[1] = "tool_barrier" /\ a[2] = "tool_gather" /\ a[3] = "tool_gatherv"
        OBVIOUS
      <4> HIDE DEF a
      <4>3. Prefix(a, End)
        BY <3>1, <3>2, <4>1 DEF Prefix
      <4> QED
        BY <3>6, <4>3 DEF a
    <3>7. CASE Made(pc[r]) = End
      BY <1>1, <3>7 DEF Prefix
    <3> QED
      BY <3>3, <3>4, <3>5, <3>6, <3>7 DEF Made
  <2> QED
    BY <1>1, <2>1, <2>2, <2>3, PrefixAfter
<1> QED
  BY <1>1, <1>4, <1>5, <1>6, <1>7 DEF Place, Opening, Closing

LEMMA EnterLog ==
  ASSUME log \in [Rank -> Seq(World)], NEW r \in Rank, NEW op, Enter(r, op)
  PROVE  log'[r] = With(log[r], op) /\ \A s \in Rank : s # r => log'[s] = log[s]
BY DEF Enter, With

LEMMA WithInside ==
  ASSUME NEW a \in Seq(World), NEW b \in Seq(World), NEW op
  PROVE  With(a \o b, op) = a \o With(b, op)
<1>1. CASE op \in World
  <2>1. Append(a \o b, op) = a \o Append(b, op)
    BY <1>1
  <2> QED
    BY <1>1, <2>1, Zenon DEF With
<1>2. CASE op \notin World
  BY <1>2 DEF With
<1> QED
  BY <1>1, <1>2

(* A call enters what the rank's program has next.                         *)
LEMMA CallEnters ==
  ASSUME ControlTypes, NEW r \in Rank, Entered(r), pc[r] = "app", ~Finished(r)
  PROVE  With(log[r], Current(r)) =
           IF k[r] = 0 THEN <<program.init>> ELSE Begin \o On(program.calls[r])[k[r]]
<1> DEFINE s == program.calls[r]
<1>1. /\ k[r] \in Nat /\ k[r] < Len(CallsOf(r)) /\ Begin \in Seq(World)
      /\ Len(CallsOf(r)) = Len(s) + 1 /\ s \in Seq(Call) /\ Len(s) \in Nat
  BY CallsType, CourseType DEF ControlTypes, Finished
<1>2. CASE k[r] = 0
  <2>1. Current(r) = program.init /\ log[r] = << >>
    BY <1>1, <1>2, CallsInOrder DEF ControlTypes, Current, Entered
  <2>2. program.init \in World
    BY ProgramsAssumption DEF ControlTypes, World, Loose
  <2> QED
    BY <1>2, <2>1, <2>2 DEF With
<1>3. CASE k[r] # 0
  <2>1. k[r] > 0
    BY <1>1, <1>3
  <2>2. Current(r) = s[k[r]] /\ k[r] \in 1..Len(s)
    BY <1>1, <2>1, CallsInOrder DEF ControlTypes, Current
  <2>3. log[r] = Begin \o On(s)[k[r] - 1]
    BY <1>3, Zenon DEF Entered
  <2> HIDE DEF s
  <2>4. k[r] - 1 \in 0..Len(s)
    BY <1>1, <2>2
  <2>5. On(s)[k[r] - 1] \in Seq(World) /\ On(s)[k[r]] = With(On(s)[k[r] - 1], s[k[r]])
    BY <1>1, <2>2, <2>4, OnDef
  <2>6. With(log[r], Current(r)) = Begin \o On(s)[k[r]]
    <3>1. With(Begin \o On(s)[k[r] - 1], s[k[r]]) = Begin \o With(On(s)[k[r] - 1], s[k[r]])
      BY <1>1, <2>5, WithInside, Zenon
    <3> QED
      BY <2>2, <2>3, <2>5, <3>1, Zenon
  <2> QED
    BY <1>3, <2>6, Zenon DEF s
<1> QED
  BY <1>2, <1>3

(* What a call that has returned has entered.                              *)
LEMMA CallEntered ==
  ASSUME ControlTypes, NEW r \in Rank, Entered(r), pc[r] \in {"call", "bare"}
  PROVE  /\ k[r] = 0 => log[r] = <<program.init>> /\ Current(r) = program.init
         /\ k[r] # 0 => /\ log[r] = Begin \o On(program.calls[r])[k[r]]
                        /\ Current(r) # "MPI_Init"
<1>1. k[r] \in Nat /\ k[r] < Len(CallsOf(r)) /\ program \in Programs
  BY CallsType DEF ControlTypes, InCall, Finished
<1>2. CASE k[r] = 0
  BY <1>1, <1>2, CallsInOrder DEF Entered, Current
<1>3. CASE k[r] # 0
  <2>1. k[r] > 0
    BY <1>1, <1>3
  <2>2. Current(r) # "MPI_Init"
    BY <1>1, <2>1, CallsInOrder DEF Current
  <2> QED
    BY <1>3, <2>2, Zenon DEF Entered
<1> QED
  BY <1>2, <1>3

(* Back in the application after the n-th call.                            *)
LEMMA BackInApp ==
  ASSUME ControlTypes, NEW r \in Rank, NEW n \in Nat, n > 0, program' = program,
         pc'[r] = "app", k'[r] = n, log'[r] = Begin \o On(program.calls[r])[n - 1]
  PROVE  Entered(r)'
<1>1. k'[r] # 0 /\ pc'[r] \notin {"call", "bare"} /\ pc'[r] \notin Opening /\ pc'[r] \notin Closing
  BY DEF Opening, Closing
<1>2. Begin' = Begin
  BY DEF Begin
<1> QED
  BY <1>1, <1>2, Zenon DEF Entered

LEMMA FirstBackInApp ==
  ASSUME ControlTypes, NEW r \in Rank, program' = program,
         pc'[r] = "app", k'[r] = 1, log'[r] = Begin
  PROVE  Entered(r)'
<1> DEFINE ops == On(program.calls[r])
<1>1. ops[0] = << >> /\ Begin \in Seq(World)
  BY CallsType, CourseType, OnDef DEF ControlTypes
<1>2. Begin = Begin \o ops[0] /\ 1 - 1 = 0 /\ 1 > 0
  BY <1>1
<1> HIDE DEF ops
<1>3. log'[r] = Begin \o ops[1 - 1]
  BY <1>2
<1> QED
  BY <1>2, <1>3, BackInApp DEF ops

LEMMA AfterEntered ==
  ASSUME ControlTypes, NEW r \in Rank, Entered(r), After(r)
  PROVE  Entered(r)'
<1> DEFINE s == program.calls[r]
<1>1. /\ pc[r] = "call" /\ log' = log /\ program' = program /\ k' = [k EXCEPT ![r] = @ + 1]
      /\ pc' = [pc EXCEPT ![r] = IF Current(r) = "MPI_Init" THEN "sync1" ELSE "app"]
  BY DEF After, Goto
<1>2. k[r] \in Nat /\ k'[r] = k[r] + 1 /\ program \in Programs /\ Begin' = Begin
  BY <1>1 DEF ControlTypes, Begin
<1>3. pc'[r] = IF Current(r) = "MPI_Init" THEN "sync1" ELSE "app"
  BY <1>1 DEF ControlTypes
<1>4. CASE k[r] = 0
  <2>1. log[r] = <<program.init>> /\ Current(r) = program.init
    BY <1>1, <1>4, CallEntered
  <2>2. CASE program.init = "MPI_Init"
    <3>1. pc'[r] = "sync1" /\ k'[r] = 1 /\ log'[r] = <<"MPI_Init">> /\ program'.init = "MPI_Init"
      BY <1>1, <1>2, <1>3, <1>4, <2>1, <2>2
    <3> QED
      BY <3>1 DEF Entered, Opened, Opening, Closing
  <2>3. CASE program.init # "MPI_Init"
    <3>1. Begin = <<program.init>>
      BY <1>2, <2>3, ProgramsAssumption DEF Begin
    <3>2. pc'[r] = "app" /\ k'[r] = 1 /\ log'[r] = Begin
      BY <1>1, <1>2, <1>3, <1>4, <2>1, <2>3, <3>1
    <3> QED
      BY <1>1, <3>2, FirstBackInApp
  <2> QED
    BY <2>2, <2>3
<1>5. CASE k[r] # 0
  <2>1. log[r] = Begin \o On(s)[k[r]] /\ Current(r) # "MPI_Init"
    BY <1>1, <1>5, CallEntered
  <2>2. pc'[r] = "app" /\ (k[r] + 1) - 1 = k[r] /\ k[r] + 1 \in Nat /\ k[r] + 1 > 0
    BY <1>2, <1>3, <2>1
  <2>3. log'[r] = Begin \o On(s)[(k[r] + 1) - 1]
    BY <1>1, <2>1, <2>2, Zenon
  <2> QED
    BY <1>1, <1>2, <2>2, <2>3, BackInApp
<1> QED
  BY <1>4, <1>5

LEMMA BareReturnsEntered ==
  ASSUME ControlTypes, NEW r \in Rank, Entered(r), Charged(r), BareReturns(r)
  PROVE  Entered(r)'
<1> DEFINE s == program.calls[r]
<1>1. /\ pc[r] = "bare" /\ log' = log /\ program' = program /\ k' = [k EXCEPT ![r] = @ + 1]
      /\ pc' = [pc EXCEPT ![r] = "app"]
  BY DEF BareReturns, Goto
<1>2. k[r] \in Nat /\ k'[r] = k[r] + 1 /\ program \in Programs /\ Begin' = Begin /\ pc'[r] = "app"
  BY <1>1 DEF ControlTypes, Begin
<1>3. Current(r) # "MPI_Init"
  BY <1>1 DEF Charged, Wrapped
<1>4. CASE k[r] = 0
  <2>1. log[r] = <<program.init>> /\ program.init # "MPI_Init"
    BY <1>1, <1>3, <1>4, CallEntered
  <2>2. log'[r] = Begin /\ k'[r] = 1
    BY <1>1, <1>2, <1>4, <2>1, ProgramsAssumption DEF Begin
  <2> QED
    BY <1>1, <1>2, <2>2, FirstBackInApp
<1>5. CASE k[r] # 0
  <2>1. log[r] = Begin \o On(s)[k[r]]
    BY <1>1, <1>5, CallEntered
  <2>2. (k[r] + 1) - 1 = k[r] /\ k[r] + 1 \in Nat /\ k[r] + 1 > 0
    BY <1>2
  <2>3. log'[r] = Begin \o On(s)[(k[r] + 1) - 1]
    BY <1>1, <2>1, <2>2, Zenon
  <2> QED
    BY <1>1, <1>2, <2>2, <2>3, BackInApp
<1> QED
  BY <1>4, <1>5

(* Into a call.                                                            *)
LEMMA BeforeEntered ==
  ASSUME ControlTypes, NEW r \in Rank, Entered(r), Before(r) \/ BareCall(r)
  PROVE  Entered(r)'
<1> DEFINE entered == IF k[r] = 0 THEN <<program.init>> ELSE Begin \o On(program.calls[r])[k[r]]
<1>1. /\ pc[r] = "app" /\ ~Finished(r) /\ Enter(r, Current(r)) /\ UNCHANGED <<program, k>>
      /\ pc'[r] \in {"call", "bare"}
  BY DEF Before, BareCall, Goto, ControlTypes
<1>2. log'[r] = entered
  BY <1>1, EnterLog, CallEnters DEF ControlTypes
<1>3. entered' = entered /\ pc'[r] \notin Opening /\ pc'[r] \notin Closing /\ pc'[r] # "app"
  BY <1>1 DEF Begin, Opening, Closing
<1> QED
  BY <1>1, <1>2, <1>3, Zenon DEF Entered

(* From the application into MPI_Finalize.                                 *)
LEMMA FinalizeEntered ==
  ASSUME ControlTypes, NEW r \in Rank, Entered(r), Finalize(r)
  PROVE  Entered(r)'
<1> DEFINE s == program.calls[r]
<1>1. /\ pc[r] = "app" /\ Finished(r) /\ UNCHANGED <<program, k, log>> /\ pc'[r] = "sync3"
      /\ s \in Seq(Call) /\ k[r] = Len(s) + 1 /\ Len(s) \in Nat
      /\ Begin \in Seq(World) /\ Middle(r) \in Seq(World)
  BY CallsType, CourseType DEF Finalize, Goto, ControlTypes, Finished
<1>2. k[r] # 0 /\ k[r] - 1 = Len(s)
  BY <1>1
<1>3. log[r] = Begin \o On(s)[k[r] - 1]
  BY <1>1, <1>2, Zenon DEF Entered
<1>4. log[r] = Middle(r)
  <2>1. OnWorld(program.calls[r]) = On(s)[Len(s)]
    BY <1>1, OnDef
  <2> HIDE DEF s
  <2> QED
    BY <1>2, <1>3, <2>1 DEF Middle
<1>5. Made("sync3") = << >>
  BY DEF Made
<1>6. log'[r] = Middle(r) \o Made(pc'[r])
  <2>1. Middle(r) \o << >> = Middle(r)
    BY <1>1
  <2> QED
    BY <1>1, <1>4, <1>5, <2>1, Zenon
<1>7. Middle(r)' = Middle(r)
  BY <1>1 DEF Middle, Begin
<1> QED
  BY <1>1, <1>6, <1>7 DEF Entered, Opening, Closing

LEMMA AppendIs ==
  ASSUME NEW S, NEW s \in Seq(S), NEW t \in Seq(S), NEW v \in S,
         Len(t) = Len(s) + 1, t[Len(s) + 1] = v, \A n \in 1..Len(s) : t[n] = s[n]
  PROVE  Append(s, v) = t
OBVIOUS

LEMMA Appends ==
  ASSUME NEW a \in World, NEW b \in World, NEW c \in World, NEW d \in World
  PROVE  Append(<<a>>, b) = <<a, b>> /\ Append(<<a, b>>, c) = <<a, b, c>>
           /\ Append(<<a, b, c>>, d) = <<a, b, c, d>>
<1> DEFINE one == <<a>>  two == <<a, b>>  three == <<a, b, c>>  four == <<a, b, c, d>>
<1>1. /\ one \in Seq(World) /\ two \in Seq(World) /\ three \in Seq(World) /\ four \in Seq(World)
      /\ a \in World /\ b \in World /\ c \in World /\ d \in World
  OBVIOUS
<1>2. Len(one) = 1 /\ one[1] = a
  OBVIOUS
<1>3. Len(two) = 2 /\ two[1] = a /\ two[2] = b
  OBVIOUS
<1>4. Len(three) = 3 /\ three[1] = a /\ three[2] = b /\ three[3] = c
  OBVIOUS
<1>5. Len(four) = 4 /\ four[1] = a /\ four[2] = b /\ four[3] = c /\ four[4] = d
  OBVIOUS
<1> HIDE DEF one, two, three, four
<1>6. Append(one, b) = two
  <2>1. Len(two) = Len(one) + 1 /\ two[Len(one) + 1] = b /\ \A n \in 1..Len(one) : two[n] = one[n]
    BY <1>2, <1>3
  <2> QED
    BY ONLY <1>1, <2>1, AppendIs
<1>7. Append(two, c) = three
  <2>1. \A n \in 1..2 : n = 1 \/ n = 2
    OBVIOUS
  <2>2. Len(three) = Len(two) + 1 /\ three[Len(two) + 1] = c /\ \A n \in 1..Len(two) : three[n] = two[n]
    BY <1>3, <1>4, <2>1
  <2> QED
    BY ONLY <1>1, <2>2, AppendIs
<1>8. Append(three, d) = four
  <2>1. \A n \in 1..3 : n = 1 \/ n = 2 \/ n = 3
    OBVIOUS
  <2>2. Len(four) = Len(three) + 1 /\ four[Len(three) + 1] = d /\ \A n \in 1..Len(three) : four[n] = three[n]
    BY <1>4, <1>5, <2>1
  <2> QED
    BY ONLY <1>1, <2>2, AppendIs
<1> QED
  BY <1>6, <1>7, <1>8 DEF one, two, three, four

(* The collectives of the tool, one after the other.                       *)
LEMMA ToolNames ==
  /\ "MPI_Init" \in World /\ "tool_barrier" \in World /\ "tool_gather" \in World
  /\ "tool_gatherv" \in World /\ "finalize" \in World
BY DEF World, Loose, Synchronizing, ToRoot

LEMMA ToolAppends ==
  /\ With(<<"MPI_Init">>, "tool_barrier") = <<"MPI_Init", "tool_barrier">>
  /\ With(<<"MPI_Init", "tool_barrier">>, "tool_barrier")
       = <<"MPI_Init", "tool_barrier", "tool_barrier">>
  /\ With(<< >>, "tool_barrier") = <<"tool_barrier">>
  /\ With(<<"tool_barrier">>, "tool_gather") = <<"tool_barrier", "tool_gather">>
  /\ With(<<"tool_barrier", "tool_gather">>, "tool_gatherv")
       = <<"tool_barrier", "tool_gather", "tool_gatherv">>
  /\ With(<<"tool_barrier", "tool_gather", "tool_gatherv">>, "finalize")
       = <<"tool_barrier", "tool_gather", "tool_gatherv", "finalize">>
<1> DEFINE i == "MPI_Init"  b == "tool_barrier"  g == "tool_gather"  v == "tool_gatherv"
           f == "finalize"
<1>1. i \in World /\ b \in World /\ g \in World /\ v \in World /\ f \in World
  BY ToolNames
<1>2. With(<< >>, b) = <<b>>
  BY <1>1 DEF With
<1> HIDE DEF i, b, g, v, f
<1>3. Append(<<i>>, b) = <<i, b>> /\ Append(<<i, b>>, b) = <<i, b, b>>
  <2>1. ASSUME NEW c \in World
        PROVE  Append(<<i>>, b) = <<i, b>> /\ Append(<<i, b>>, c) = <<i, b, c>>
                 /\ Append(<<i, b, c>>, c) = <<i, b, c, c>>
    BY <1>1, Appends
  <2> QED
    BY <1>1, <2>1, Zenon
<1>4. /\ Append(<<b>>, g) = <<b, g>> /\ Append(<<b, g>>, v) = <<b, g, v>>
      /\ Append(<<b, g, v>>, f) = <<b, g, v, f>>
  BY <1>1, Appends
<1>5. With(<<i>>, b) = <<i, b>> /\ With(<<i, b>>, b) = <<i, b, b>>
  BY <1>1, <1>3, Zenon DEF With
<1>6. With(<<b>>, g) = <<b, g>> /\ With(<<b, g>>, v) = <<b, g, v>> /\ With(<<b, g, v>>, f) = <<b, g, v, f>>
  BY <1>1, <1>4, Zenon DEF With
<1> QED
  BY <1>2, <1>5, <1>6, Zenon DEF i, b, g, v, f

(* Into a collective of the tool.                                          *)
LEMMA ToolEntered ==
  ASSUME ControlTypes, NEW r \in Rank, Entered(r), EnterTool(r) \/ PmpiFinalize(r)
  PROVE  Entered(r)'
<1>0. UNCHANGED <<program, k>> /\ Begin' = Begin /\ Middle(r)' = Middle(r)
  BY DEF EnterTool, PmpiFinalize, Begin, Middle
<1>1. CASE EnterTool(r) /\ pc[r] \in {"sync1", "sync2"}
  <2>1. /\ Opened(r) /\ log'[r] = With(log[r], "tool_barrier")
        /\ pc'[r] = IF pc[r] = "sync1" THEN "in_sync1" ELSE "in_sync2"
    BY <1>1, EnterLog DEF EnterTool, ToolOp, Inside, Goto, ControlTypes, Entered, Opening
  <2>3. Opened(r)'
    <3>1. CASE pc[r] = "sync1"
      <4>1. log[r] = <<"MPI_Init">>
        BY <2>1, <3>1 DEF Opened
      <4>2. With(<<"MPI_Init">>, "tool_barrier") = <<"MPI_Init", "tool_barrier">>
        BY ToolAppends
      <4> QED
        BY <1>0, <2>1, <3>1, <4>1, <4>2 DEF Opened
    <3>2. CASE pc[r] = "sync2"
      <4>1. log[r] = <<"MPI_Init", "tool_barrier">>
            /\ Begin = <<"MPI_Init", "tool_barrier", "tool_barrier">>
        BY <2>1, <3>2 DEF Opened, Begin
      <4>2. With(<<"MPI_Init", "tool_barrier">>, "tool_barrier")
              = <<"MPI_Init", "tool_barrier", "tool_barrier">>
        BY ToolAppends
      <4> QED
        BY <1>0, <2>1, <3>2, <4>1, <4>2 DEF Opened
    <3> QED
      BY <1>1, <3>1, <3>2
  <2> QED
    BY <2>1, <2>3 DEF Entered, Opening, Closing
<1>2. CASE \/ EnterTool(r) /\ pc[r] \in {"sync3", "gather", "gatherv"}
           \/ PmpiFinalize(r)
  <2> DEFINE op == IF pc[r] = "finalize" THEN "finalize" ELSE ToolOp(pc[r])
             next == IF pc[r] = "finalize" THEN "done" ELSE Inside[pc[r]]
  <2>1. /\ log'[r] = With(log[r], op) /\ pc'[r] = next /\ pc[r] \in Place
        /\ pc[r] \in {"sync3", "gather", "gatherv", "finalize"}
    BY <1>2, EnterLog DEF EnterTool, PmpiFinalize, Goto, ControlTypes
  <2>2. log[r] = Middle(r) \o Made(pc[r])
    BY <2>1 DEF Entered, Closing
  <2>3. Middle(r) \in Seq(World) /\ Made(pc[r]) \in Seq(World)
    BY <2>1, CourseType DEF ControlTypes
  <2>4. With(Made(pc[r]), op) = Made(next)
    <3>2. CASE pc[r] = "sync3"
      <4>1. /\ op = "tool_barrier" /\ Made(pc[r]) = << >>
            /\ Made(next) = <<"tool_barrier">>
        BY <3>2 DEF ToolOp, Inside, Made
      <4> HIDE DEF op, next
      <4> QED
        BY <4>1, ToolAppends, Zenon
    <3>3. CASE pc[r] = "gather"
      <4>1. /\ op = "tool_gather" /\ Made(pc[r]) = <<"tool_barrier">>
            /\ Made(next) = <<"tool_barrier", "tool_gather">>
        BY <3>3 DEF ToolOp, Inside, Made
      <4> HIDE DEF op, next
      <4> QED
        BY <4>1, ToolAppends, Zenon
    <3>4. CASE pc[r] = "gatherv"
      <4>1. /\ op = "tool_gatherv" /\ Made(pc[r]) = <<"tool_barrier", "tool_gather">>
            /\ Made(next) = <<"tool_barrier", "tool_gather", "tool_gatherv">>
        BY <3>4 DEF ToolOp, Inside, Made
      <4> HIDE DEF op, next
      <4> QED
        BY <4>1, ToolAppends, Zenon
    <3>5. CASE pc[r] = "finalize"
      <4>1. /\ op = "finalize" /\ Made(pc[r]) = <<"tool_barrier", "tool_gather", "tool_gatherv">>
            /\ Made(next) = <<"tool_barrier", "tool_gather", "tool_gatherv", "finalize">>
        BY <3>5 DEF Made, End
      <4> HIDE DEF op, next
      <4> QED
        BY <4>1, ToolAppends, Zenon
    <3> QED
      BY <2>1, <3>2, <3>3, <3>4, <3>5
  <2>5. pc'[r] \in Closing
    BY <2>1 DEF Inside, Closing
  <2> HIDE DEF op, next
  <2>6. log'[r] = Middle(r)' \o Made(pc'[r])
    <3>1. With(Middle(r) \o Made(pc[r]), op) = Middle(r) \o With(Made(pc[r]), op)
      BY <2>3, WithInside
    <3> QED
      BY <1>0, <2>1, <2>2, <2>4, <3>1, Zenon
  <2> QED
    BY <2>5, <2>6 DEF Entered, Opening, Closing
<1> QED
  BY <1>1, <1>2 DEF EnterTool, ToolPlaces

(* From place to place, with nothing entered.                              *)
LEMMA MoveEntered ==
  ASSUME ControlTypes, NEW r \in Rank, Entered(r), UNCHANGED <<program, k, log>>,
         pc'[r] \in Place, Made(pc'[r]) = Made(pc[r]),
         \/ pc[r] \in Closing /\ pc'[r] \in Closing
         \/ pc[r] = "in_sync1" /\ pc'[r] = "sync2"
         \/ pc[r] = "in_sync2" /\ pc'[r] = "metadata"
  PROVE  Entered(r)'
<1>1. Begin' = Begin /\ Middle(r)' = Middle(r)
  BY DEF Begin, Middle
<1>2. CASE pc[r] \in Closing /\ pc'[r] \in Closing
  <2>1. log'[r] = Middle(r)' \o Made(pc'[r])
    BY <1>1, <1>2 DEF Entered
  <2> QED
    BY <1>2, <2>1 DEF Entered, Opening, Closing
<1>3. CASE ~(pc[r] \in Closing /\ pc'[r] \in Closing)
  <2>1. Opened(r)
    BY <1>3 DEF Entered, Opening
  <2>2. Opened(r)'
    BY <1>1, <1>3, <2>1 DEF Opened
  <2> QED
    BY <1>3, <2>2 DEF Entered, Opening, Closing
<1> QED
  BY <1>2, <1>3

LEMMA StepEntered ==
  ASSUME ControlTypes, NEW r \in Rank, Charged(r), Entered(r), Step(r) \/ Fault(r)
  PROVE  Entered(r)'
<1>0. pc'[r] \in Place /\ pc \in [Rank -> Place]
  BY StepPlaces DEF ControlTypes
<1>1. CASE Before(r) \/ BareCall(r) BY <1>1, BeforeEntered
<1>2. CASE After(r) BY <1>2, AfterEntered
<1>3. CASE BareReturns(r) BY <1>3, BareReturnsEntered
<1>4. CASE Finalize(r) BY <1>4, FinalizeEntered
<1>5. CASE EnterTool(r) \/ PmpiFinalize(r) BY <1>5, ToolEntered
<1>6. CASE pc'[r] = "failed"
  BY <1>6 DEF Entered, Opening, Closing
<1>7. CASE Synced(r)
  <2>1. UNCHANGED <<program, k, log>>
    BY <1>7 DEF Synced
  <2>2. \/ pc[r] = "in_sync1" /\ pc'[r] = "sync2"
        \/ pc[r] = "in_sync2" /\ pc'[r] = "metadata"
        \/ pc[r] = "in_sync3" /\ pc'[r] = "fill"
    BY <1>0, <1>7 DEF Synced, Inside, Goto
  <2>3. Made(pc'[r]) = Made(pc[r])
    BY <2>2 DEF Made
  <2> QED
    BY <1>0, <2>1, <2>2, <2>3, MoveEntered DEF Closing
<1>8. CASE Metadata(r)
  <2>1. UNCHANGED <<program, k, log>> /\ pc[r] = "metadata" /\ pc'[r] = "app"
    BY <1>0, <1>8 DEF Metadata, Goto
  <2>2. k'[r] = 1 /\ log'[r] = Begin
    BY <2>1 DEF Entered, Opened, Opening
  <2> QED
    BY <2>1, <2>2, FirstBackInApp
<1>9. CASE FillReport(r) \/ Gathered(r) \/ Gatheredv(r) \/ GatheredvAstray(r) \/ Write(r) \/ WriteFails(r)
  <2>1. UNCHANGED <<program, k, log>>
    BY <1>9 DEF FillReport, Gathered, Gatheredv, GatheredvAstray, Write, WriteFails
  <2>2. \/ pc[r] = "fill" /\ pc'[r] = "gather"
        \/ pc[r] = "in_gather" /\ pc'[r] = "gatherv"
        \/ pc[r] = "in_gatherv" /\ pc'[r] \in {"write", "finalize"}
        \/ pc[r] = "write" /\ pc'[r] = "finalize"
    BY <1>0, <1>9
       DEF FillReport, Gathered, Gatheredv, GatheredvAstray, Write, WriteFails, Inside, Goto
  <2>3. Made(pc'[r]) = Made(pc[r])
    BY <2>2 DEF Made
  <2> QED
    BY <1>0, <2>1, <2>2, <2>3, MoveEntered DEF Closing
<1>10. CASE Abort(r) \/ Crash(r) \/ SampleFails(r) \/ MetadataFails(r) \/ NoOutputPath(r)
  BY <1>0, <1>6, <1>10 DEF Abort, Crash, SampleFails, MetadataFails, NoOutputPath, Goto
<1> QED
  BY <1>1, <1>2, <1>3, <1>4, <1>5, <1>7, <1>8, <1>9, <1>10 DEF Step, Fault

(* A rank that does not take the step has entered nothing, and one that    *)
(* fails does not either.                                                  *)
LEMMA StepLog ==
  ASSUME ControlTypes, NEW r \in Rank, Step(r) \/ Fault(r)
  PROVE  /\ \A s \in Rank : s # r => log'[s] = log[s]
         /\ pc'[r] = "failed" => log' = log
<1>0. pc \in [Rank -> Place] /\ log \in [Rank -> Seq(World)]
  BY DEF ControlTypes
<1>1. CASE Before(r) \/ BareCall(r) \/ EnterTool(r) \/ PmpiFinalize(r)
  <2>1. PICK op : Enter(r, op)
    BY <1>1 DEF Before, BareCall, EnterTool, PmpiFinalize
  <2>2. pc'[r] # "failed"
    BY <1>0, <1>1 DEF Before, BareCall, EnterTool, PmpiFinalize, Goto, ToolPlaces, Inside
  <2> QED
    BY <1>0, <2>1, <2>2, EnterLog
<1>2. CASE ~(Before(r) \/ BareCall(r) \/ EnterTool(r) \/ PmpiFinalize(r))
  <2>1. log' = log
    BY <1>2 DEF Step, Fault, After, Abort, BareReturns, Synced, Metadata, Finalize, FillReport,
         Gathered, Gatheredv, Crash, GatheredvAstray, Write, SampleFails, MetadataFails,
         WriteFails, NoOutputPath
  <2> QED
    BY <2>1
<1> QED
  BY <1>1, <1>2

LEMMA StepCourse ==
  ASSUME CourseInv, ChargeInv', NEW r \in Rank, Step(r) \/ Fault(r)
  PROVE  CourseInv'
<1>1. ControlTypes /\ ControlTypes' /\ program' = program
  BY StepPlaces DEF CourseInv, ChargeInv, AllTyped
<1>2. ASSUME NEW s \in Rank PROVE Begin' = Begin /\ Middle(s)' = Middle(s) /\ Course(s)' = Course(s)
  BY <1>1 DEF Begin, Middle, Course
<1>3. ASSUME NEW s \in Rank, s # r PROVE OnCourse(s)'
  <2>1. OnCourse(s) /\ k'[s] = k[s] /\ (pc'[s] = pc[s] \/ pc'[s] = "failed") /\ log'[s] = log[s]
    BY <1>1, <1>3, StepPlaces, StepLog DEF CourseInv
  <2>2. Entered(s)'
    <3>1. CASE pc'[s] = "failed"
      BY <3>1 DEF Entered, Opening, Closing
    <3>2. CASE pc'[s] = pc[s]
      <4>1. /\ Entered(s) /\ Begin' = Begin /\ Middle(s)' = Middle(s)
            /\ (Opened(s) => Opened(s)') /\ program' = program
        BY <1>1, <1>2, <2>1, <3>2 DEF Opened, OnCourse
      <4> QED
        BY <2>1, <3>2, <4>1, Zenon DEF Entered
    <3> QED
      BY <2>1, <3>1, <3>2
  <2>3. Prefix(log[s], Course(s)) /\ Course(s)' = Course(s)
    BY <1>2, <2>1 DEF OnCourse
  <2> QED
    BY <2>1, <2>2, <2>3, Zenon DEF OnCourse
<1>4. OnCourse(r)'
  <2>1. OnCourse(r) /\ Charged(r)
    BY DEF CourseInv, ChargeInv
  <2>2. Entered(r)'
    BY <1>1, <2>1, StepEntered DEF OnCourse
  <2>3. Prefix(log'[r], Course(r)')
    <3>1. CASE pc'[r] = "failed"
      BY <1>1, <1>2, <2>1, <3>1, StepLog DEF OnCourse
    <3>2. CASE pc'[r] # "failed"
      <4>1. ControlTypes /\ Entered(r) /\ pc[r] # "failed" => Prefix(log[r], Course(r))
        BY EnteredIsOnCourse
      <4>2. (ControlTypes /\ Entered(r) /\ pc[r] # "failed" => Prefix(log[r], Course(r)))'
        BY EnteredIsOnCourse, PTL
      <4> QED
        BY <1>1, <2>2, <3>2, <4>2
    <3> QED
      BY <3>1, <3>2
  <2> QED
    BY <2>2, <2>3 DEF OnCourse
<1> QED
  BY <1>3, <1>4 DEF CourseInv

LEMMA NextCourse ==
  ASSUME CourseInv, [Next]_vars
  PROVE  CourseInv'
<1>1. ChargeInv'
  BY NextCharge DEF CourseInv
<1>2. CASE UNCHANGED vars
  <2>1. UNCHANGED <<program, pc, k, log>>
    BY <1>2 DEF vars
  <2>2. ASSUME NEW r \in Rank PROVE OnCourse(r)'
    <3>1. /\ OnCourse(r) /\ Begin' = Begin /\ Middle(r)' = Middle(r) /\ Course(r)' = Course(r)
          /\ (Opened(r) => Opened(r)')
      BY <2>1 DEF CourseInv, Begin, Middle, Course, Opened
    <3> QED
      BY <2>1, <3>1, Zenon DEF OnCourse, Entered
  <2> QED
    BY <1>1, <2>2 DEF CourseInv
<1>3. CASE Next
  BY <1>1, <1>3, StepCourse DEF Next
<1> QED
  BY <1>2, <1>3

LEMMA OneCourse ==
  ASSUME program \in Programs, NEW r \in Rank, NEW s \in Rank
  PROVE  Course(r) = Course(s)
<1>1. 0 \in Rank
  BY NAssumption DEF Rank
<1>2. OnWorld(program.calls[r]) = OnWorld(program.calls[s])
  BY <1>1, ProgramsAssumption
<1> QED
  BY <1>2 DEF Course, Middle

LEMMA CourseAgrees == CourseInv => CollectivesAgree
<1> SUFFICES ASSUME CourseInv, NEW r \in Rank, NEW s \in Rank,
                    NEW n \in 1..Len(log[r]), n <= Len(log[s])
             PROVE  log[r][n] = log[s][n]
  BY DEF CollectivesAgree
<1>1. Course(r) = Course(s)
  BY OneCourse DEF CourseInv, ChargeInv, AllTyped, ControlTypes
<1>2. Prefix(log[r], Course(r)) /\ Prefix(log[s], Course(s))
  BY DEF CourseInv, OnCourse
<1>3. log[s] \in Seq(World) /\ log[r] \in Seq(World)
  BY DEF CourseInv, ChargeInv, AllTyped, ControlTypes
<1>4. n \in 1..Len(log[r]) /\ n \in 1..Len(log[s])
  BY <1>3
<1> QED
  BY <1>1, <1>2, <1>4, Zenon DEF Prefix

(* The collectives the ranks enter on MPI_COMM_WORLD, the application's    *)
(* and the tool's, agree as far as both have come: no barrier or gather of *)
(* the tool is ever matched with a call of the application.                *)
THEOREM MemnesiaCollectives == Spec => []CollectivesAgree
BY InitCourse, NextCourse, CourseAgrees, PTL DEF Spec

-----------------------------------------------------------------------------
(* The report.  What the buffers hold is seen as sequences of lines.       *)

Lines == UNION {{text[s][n] : n \in 1..Len(text[s])} : s \in Rank}

Joined == CHOOSE upto : upto =
            [n \in 0..N |-> IF n = 0 THEN << >> ELSE upto[n - 1] \o text[n - 1]]

TextsAreTexts == \A s \in Rank : text[s] \in Seq(Lines)

LEMMA JoinedDef ==
  ASSUME TextsAreTexts
  PROVE  /\ Joined \in [0..N -> Seq(Lines)] /\ Joined[0] = << >>
         /\ \A n \in 1..N : n - 1 \in Rank /\ Joined[n] = Joined[n - 1] \o text[n - 1]
         /\ Report!InOrder = Joined[N]
<1> DEFINE V == Seq(Lines)
           g == [p \in (1..N) \X V |-> p[2] \o text[p[1] - 1]]
           body(f) == [n \in 0..N |-> IF n = 0 THEN << >> ELSE f[n - 1] \o text[n - 1]]
<1>1. /\ N \in Nat /\ << >> \in V /\ \A n \in 1..N : n - 1 \in Rank
      /\ \A s \in Rank : text[s] \in V
      /\ \A a, b \in V : a \o b \in V
  BY NAssumption DEF Rank, TextsAreTexts
<1> HIDE DEF V
<1>2. g \in Steps(N, V)
  BY <1>1 DEF Steps
<1>3. PICK f \in [0..N -> V] :
        f[0] = << >> /\ \A m \in 1..N : f[m] = g[<<m, f[m - 1]>>]
  <2> HIDE DEF g
  <2>1. Defines(N, V, << >>, g)
    BY <1>1, <1>2, Recursion
  <2> QED
    BY <2>1 DEF Defines
<1>4. \A m \in 1..N : f[m] = f[m - 1] \o text[m - 1]
  <2> SUFFICES ASSUME NEW m \in 1..N PROVE f[m] = f[m - 1] \o text[m - 1]
    OBVIOUS
  <2>1. m - 1 \in 0..N
    BY <1>1
  <2>2. <<m, f[m - 1]>> \in (1..N) \X V
    BY <2>1
  <2>3. g[<<m, f[m - 1]>>] = f[m - 1] \o text[m - 1]
    BY <2>2
  <2> QED
    BY <1>3, <2>3
<1>5. f = body(f)
  <2>1. ASSUME NEW n \in 0..N PROVE f[n] = body(f)[n]
    <3>1. n = 0 \/ n \in 1..N
      BY <1>1
    <3> QED
      BY <1>3, <1>4, <3>1
  <2>2. f = [n \in 0..N |-> f[n]]
    OBVIOUS
  <2> QED
    BY <2>1, <2>2
<1>6. Joined = body(Joined)
  BY <1>5 DEF Joined
<1> DEFINE F == Joined
<1> HIDE DEF F
<1>7. /\ F = [n \in 0..N |-> F[n]] /\ F[0] = << >>
      /\ \A n \in 1..N : F[n] = F[n - 1] \o text[n - 1]
  <2>1. F = body(F)
    BY <1>6 DEF F
  <2>2. F = [n \in 0..N |-> F[n]]
    BY <2>1
  <2>3. ASSUME NEW n \in 0..N PROVE F[n] = IF n = 0 THEN << >> ELSE F[n - 1] \o text[n - 1]
    BY <2>1
  <2>4. 0 \in 0..N /\ \A n \in 1..N : n \in 0..N /\ n # 0
    BY <1>1
  <2> QED
    BY <2>2, <2>3, <2>4
<1>8. \A n \in 0..N : F[n] \in V
  <2> DEFINE S == {n \in Nat : n <= N => F[n] \in V}
  <2>1. 0 \in S
    BY <1>1, <1>7
  <2>2. ASSUME NEW n \in Nat, n \in S PROVE n + 1 \in S
    <3> SUFFICES ASSUME n + 1 <= N PROVE F[n + 1] \in V
      OBVIOUS
    <3>1. n + 1 \in 1..N /\ (n + 1) - 1 = n /\ F[n] \in V
      BY <1>1, <2>2
    <3> QED
      BY <1>1, <1>7, <3>1
  <2> HIDE DEF S
  <2>3. Nat \subseteq S
    BY <2>1, <2>2, Induction
  <2> QED
    BY <1>1, <2>3 DEF S
<1>9. Report!InOrder = F[N]
  BY DEF Report!InOrder, F, Joined
<1>10. F \in [0..N -> V]
  BY <1>7, <1>8
<1> QED
  BY <1>1, <1>7, <1>9, <1>10 DEF F, V

(* The displacement of a rank is the length of the texts before it.        *)
LEMMA DisplsDef ==
  ASSUME TextsAreTexts
  PROVE  \A s \in Rank : displs[s] = Len(Joined[s])
<1> DEFINE g == [p \in (1..(N - 1)) \X Nat |-> p[2] + recv_sizes[p[1] - 1]]
           body(f) == [s \in Rank |-> IF s = 0 THEN 0 ELSE f[s - 1] + recv_sizes[s - 1]]
<1>1. /\ N - 1 \in Nat /\ Rank = 0..(N - 1)
      /\ \A s \in Rank : recv_sizes[s] = Len(text[s]) /\ recv_sizes[s] \in Nat
      /\ \A m \in 1..(N - 1) : m - 1 \in Rank /\ m \in Rank
  BY NAssumption DEF Rank, recv_sizes, TextsAreTexts
<1>2. g \in Steps(N - 1, Nat)
  BY <1>1 DEF Steps
<1>3. PICK f \in [Rank -> Nat] :
        f[0] = 0 /\ \A m \in 1..(N - 1) : f[m] = g[<<m, f[m - 1]>>]
  <2> HIDE DEF g
  <2>1. Defines(N - 1, Nat, 0, g)
    BY <1>1, <1>2, Recursion
  <2> QED
    BY <1>1, <2>1 DEF Defines
<1>4. \A m \in 1..(N - 1) : f[m] = f[m - 1] + recv_sizes[m - 1]
  <2> SUFFICES ASSUME NEW m \in 1..(N - 1) PROVE f[m] = f[m - 1] + recv_sizes[m - 1]
    OBVIOUS
  <2>2. <<m, f[m - 1]>> \in (1..(N - 1)) \X Nat
    BY <1>1
  <2>3. g[<<m, f[m - 1]>>] = f[m - 1] + recv_sizes[m - 1]
    BY <2>2
  <2> QED
    BY <1>3, <2>3
<1>5. f = body(f)
  <2>1. ASSUME NEW n \in Rank PROVE f[n] = body(f)[n]
    <3>1. n = 0 \/ n \in 1..(N - 1)
      BY <1>1
    <3> QED
      BY <1>3, <1>4, <3>1
  <2>2. f = [n \in Rank |-> f[n]]
    OBVIOUS
  <2> QED
    BY <2>1, <2>2
<1>6. displs = body(displs)
  BY <1>5 DEF displs
<1> DEFINE D == displs
<1> HIDE DEF D
<1>7. D[0] = 0 /\ \A m \in 1..(N - 1) : D[m] = D[m - 1] + Len(text[m - 1])
  <2>1. D = body(D)
    BY <1>6 DEF D
  <2>2. ASSUME NEW s \in Rank PROVE D[s] = IF s = 0 THEN 0 ELSE D[s - 1] + recv_sizes[s - 1]
    BY <2>1
  <2>3. 0 \in Rank /\ \A m \in 1..(N - 1) : m # 0
    BY <1>1
  <2> QED
    BY <1>1, <2>2, <2>3
<1> DEFINE S == {s \in Nat : s <= N - 1 => D[s] = Len(Joined[s])}
<1>8. 0 \in S
  <2>1. Joined[0] = << >>
    BY JoinedDef
  <2> QED
    BY <1>7, <2>1
<1>9. ASSUME NEW s \in Nat, s \in S PROVE s + 1 \in S
  <2> SUFFICES ASSUME s + 1 <= N - 1 PROVE D[s + 1] = Len(Joined[s + 1])
    OBVIOUS
  <2>1. /\ s + 1 \in 1..(N - 1) /\ s + 1 \in 1..N /\ (s + 1) - 1 = s /\ s \in 0..N /\ s \in Rank
    BY NAssumption, <1>1
  <2>5. D[s] = Len(Joined[s])
    BY <1>1, <1>9, <2>1
  <2>2. D[s + 1] = D[s] + Len(text[s])
    BY <1>7, <2>1
  <2>3. Joined[s + 1] = Joined[s] \o text[s] /\ Joined[s] \in Seq(Lines) /\ text[s] \in Seq(Lines)
    BY <2>1, JoinedDef DEF TextsAreTexts
  <2>4. Len(Joined[s] \o text[s]) = Len(Joined[s]) + Len(text[s])
    BY <2>3
  <2> QED
    BY <2>2, <2>3, <2>4, <2>5
<1> HIDE DEF S
<1>10. Nat \subseteq S
  BY <1>8, <1>9, Induction
<1> QED
  BY <1>1, <1>10 DEF S, D

LEMMA FullLength ==
  ASSUME TextsAreTexts
  PROVE  full_report_len = Len(Joined[N])
<1> DEFINE g == [p \in (1..(N - 1)) \X Nat |-> recv_sizes[p[1]] + p[2]]
           body(f) == [s \in Rank |-> recv_sizes[s] + IF s = 0 THEN 0 ELSE f[s - 1]]
           D == CHOOSE len : len = body(len)
<1>1. /\ N - 1 \in Nat /\ Rank = 0..(N - 1) /\ 0 \in Rank /\ N - 1 \in Rank
      /\ \A s \in Rank : recv_sizes[s] = Len(text[s]) /\ recv_sizes[s] \in Nat
      /\ \A m \in 1..(N - 1) : m - 1 \in Rank /\ m \in Rank
  BY NAssumption DEF Rank, recv_sizes, TextsAreTexts
<1>2. g \in Steps(N - 1, Nat)
  BY <1>1 DEF Steps
<1>3. PICK f \in [Rank -> Nat] :
        f[0] = recv_sizes[0] /\ \A m \in 1..(N - 1) : f[m] = g[<<m, f[m - 1]>>]
  <2> HIDE DEF g
  <2>1. Defines(N - 1, Nat, recv_sizes[0], g)
    BY <1>1, <1>2, Recursion
  <2> QED
    BY <1>1, <2>1 DEF Defines
<1>4. \A m \in 1..(N - 1) : f[m] = recv_sizes[m] + f[m - 1]
  <2> SUFFICES ASSUME NEW m \in 1..(N - 1) PROVE f[m] = recv_sizes[m] + f[m - 1]
    OBVIOUS
  <2>2. <<m, f[m - 1]>> \in (1..(N - 1)) \X Nat
    BY <1>1
  <2>3. g[<<m, f[m - 1]>>] = recv_sizes[m] + f[m - 1]
    BY <2>2
  <2> QED
    BY <1>3, <2>3
<1>5. f = body(f)
  <2>1. ASSUME NEW n \in Rank PROVE f[n] = body(f)[n]
    <3>1. CASE n = 0
      <4>1. recv_sizes[0] + 0 = recv_sizes[0]
        BY <1>1
      <4> QED
        BY <1>3, <3>1, <4>1
    <3>2. CASE n # 0
      <4>1. n \in 1..(N - 1)
        BY <1>1, <3>2
      <4> QED
        BY <1>4, <3>2, <4>1
    <3> QED
      BY <3>1, <3>2
  <2>2. f = [n \in Rank |-> f[n]]
    OBVIOUS
  <2> QED
    BY <2>1, <2>2
<1>6. D = body(D) /\ full_report_len = D[N - 1]
  BY <1>5 DEF full_report_len
<1> HIDE DEF D
<1>7. D[0] = Len(text[0]) /\ \A m \in 1..(N - 1) : D[m] = Len(text[m]) + D[m - 1]
  <2>2. ASSUME NEW s \in Rank PROVE D[s] = recv_sizes[s] + IF s = 0 THEN 0 ELSE D[s - 1]
    BY <1>6
  <2>3. \A m \in 1..(N - 1) : m # 0
    BY <1>1
  <2> QED
    BY <1>1, <2>2, <2>3
<1> DEFINE S == {s \in Nat : s <= N - 1 => D[s] = Len(Joined[s + 1])}
<1>8. ASSUME NEW s \in Rank
      PROVE  Len(Joined[s + 1]) = Len(Joined[s]) + Len(text[s]) /\ Len(Joined[s]) \in Nat
  <2>1. s + 1 \in 1..N /\ (s + 1) - 1 = s /\ s \in 0..N
    BY NAssumption, <1>1
  <2>2. Joined[s + 1] = Joined[s] \o text[s] /\ Joined[s] \in Seq(Lines) /\ text[s] \in Seq(Lines)
    BY <2>1, JoinedDef DEF TextsAreTexts
  <2>3. Len(Joined[s] \o text[s]) = Len(Joined[s]) + Len(text[s]) /\ Len(Joined[s]) \in Nat
    BY <2>2
  <2> QED
    BY <2>2, <2>3
<1>9. 0 \in S
  <2>1. Len(Joined[0]) = 0
    BY JoinedDef
  <2>2. Len(Joined[0 + 1]) = Len(Joined[0]) + Len(text[0]) /\ Len(text[0]) \in Nat
    BY <1>1, <1>8
  <2>3. D[0] = Len(Joined[0 + 1])
    BY <1>7, <2>1, <2>2
  <2> QED
    BY <2>3
<1>10. ASSUME NEW s \in Nat, s \in S PROVE s + 1 \in S
  <2> SUFFICES ASSUME s + 1 <= N - 1 PROVE D[s + 1] = Len(Joined[(s + 1) + 1])
    OBVIOUS
  <2>1. s + 1 \in 1..(N - 1) /\ s + 1 \in Rank /\ (s + 1) - 1 = s
    BY <1>1
  <2>2. D[s] = Len(Joined[s + 1])
    BY <1>1, <1>10, <2>1
  <2>3. D[s + 1] = Len(text[s + 1]) + D[s]
    BY <1>7, <2>1
  <2>4. Len(Joined[(s + 1) + 1]) = Len(Joined[s + 1]) + Len(text[s + 1])
    BY <1>8, <2>1
  <2>5. Len(text[s + 1]) \in Nat /\ Len(Joined[s + 1]) \in Nat
    BY <1>1, <1>8, <2>1
  <2> DEFINE x == Len(text[s + 1])  y == Len(Joined[s + 1])  z == Len(Joined[(s + 1) + 1])
  <2>6. x \in Nat /\ y \in Nat /\ D[s + 1] = x + y /\ z = y + x
    BY <2>2, <2>3, <2>4, <2>5
  <2> HIDE DEF x, y, z
  <2>7. D[s + 1] = z
    BY <2>6
  <2> QED
    BY <2>7 DEF z
<1> HIDE DEF S
<1>11. D[N - 1] = Len(Joined[(N - 1) + 1])
  <2>1. Nat \subseteq S
    BY <1>9, <1>10, Induction
  <2> QED
    BY <1>1, <2>1 DEF S
<1>12. (N - 1) + 1 = N
  BY NAssumption
<1> QED
  BY <1>6, <1>11, <1>12

LEMMA ConcatIs ==
  ASSUME NEW S, NEW a \in Seq(S), NEW b \in Seq(S), NEW c, c = a \o b
  PROVE  /\ Len(c) = Len(a) + Len(b) /\ Len(a) \in Nat /\ Len(b) \in Nat
         /\ \A i \in 1..Len(a) : c[i] = a[i]
         /\ \A i \in 1..Len(b) : c[Len(a) + i] = b[i]
OBVIOUS

(* What is before the text of rank n ends where it begins, and it is there.*)
Upto(n) ==
  /\ \A s \in Rank : s < n =>
       \A i \in 1..Len(text[s]) : /\ Len(Joined[s]) + i \in 1..Len(Joined[n])
                                  /\ Joined[n][Len(Joined[s]) + i] = text[s][i]
  /\ \A p \in 1..Len(Joined[n]) :
       \E s \in Rank : s < n /\ p - Len(Joined[s]) \in 1..Len(text[s])

LEMMA JoinedUpto ==
  ASSUME TextsAreTexts
  PROVE  \A n \in 0..N : Upto(n)
<1> DEFINE S == {n \in Nat : n <= N => Upto(n)}
<1>1. 0 \in S
  <2>1. Len(Joined[0]) = 0 /\ \A s \in Rank : ~(s < 0)
    BY JoinedDef DEF Rank
  <2> QED
    BY <2>1 DEF Upto
<1>2. ASSUME NEW n \in Nat, n \in S PROVE n + 1 \in S
  <2> SUFFICES ASSUME n + 1 <= N PROVE Upto(n + 1)
    OBVIOUS
  <2>1. n + 1 \in 1..N /\ (n + 1) - 1 = n /\ n \in 0..N /\ n <= N /\ n \in Rank
    BY NAssumption DEF Rank
  <2>2. /\ Joined[n + 1] = Joined[n] \o text[n]
        /\ Joined[n] \in Seq(Lines) /\ text[n] \in Seq(Lines)
    BY <2>1, JoinedDef DEF TextsAreTexts
  <2> DEFINE a == Joined[n]  b == text[n]  c == Joined[n + 1]
  <2>3. /\ Len(c) = Len(a) + Len(b) /\ Len(a) \in Nat /\ Len(b) \in Nat
        /\ \A i \in 1..Len(a) : c[i] = a[i]
        /\ \A i \in 1..Len(b) : c[Len(a) + i] = b[i]
    <3> HIDE DEF a, b, c
    <3>1. c = a \o b /\ a \in Seq(Lines) /\ b \in Seq(Lines)
      BY <2>2 DEF a, b, c
    <3> QED
      BY ONLY <3>1, ConcatIs
  <2>4. Upto(n)
    BY <1>2, <2>1
  <2> HIDE DEF S
  <2>5. ASSUME NEW s \in Rank, s < n + 1, NEW i \in 1..Len(text[s])
        PROVE  Len(Joined[s]) + i \in 1..Len(c) /\ c[Len(Joined[s]) + i] = text[s][i]
    <3>1. CASE s = n
      <4>1. Len(a) + i \in 1..Len(c) /\ c[Len(a) + i] = b[i]
        <5>1. i \in 1..Len(b)
          BY <2>5, <3>1
        <5> HIDE DEF a, b, c
        <5> QED
          BY <2>3, <5>1
      <4> QED
        BY <3>1, <4>1
    <3>2. CASE s # n
      <4>1. s < n
        BY <2>5, <3>2 DEF Rank
      <4>2. Len(Joined[s]) + i \in 1..Len(a) /\ a[Len(Joined[s]) + i] = text[s][i]
        BY <2>4, <2>5, <4>1 DEF Upto
      <4> DEFINE p == Len(Joined[s]) + i
      <4> HIDE DEF a, b, c, p
      <4>3. p \in 1..Len(c) /\ c[p] = a[p]
        BY <2>3, <4>2 DEF p
      <4> QED
        BY <4>2, <4>3 DEF p
    <3> QED
      BY <3>1, <3>2
  <2>6. ASSUME NEW p \in 1..Len(c)
        PROVE  \E s \in Rank : s < n + 1 /\ p - Len(Joined[s]) \in 1..Len(text[s])
    <3>1. CASE p \in 1..Len(a)
      <4>1. PICK s \in Rank : s < n /\ p - Len(Joined[s]) \in 1..Len(text[s])
        BY <2>4, <3>1 DEF Upto
      <4>2. s < n + 1
        BY <4>1 DEF Rank
      <4> QED
        BY <4>1, <4>2
    <3>2. CASE p \notin 1..Len(a)
      <4>1. p - Len(a) \in 1..Len(b)
        <5> HIDE DEF a, b, c
        <5> QED
          BY <2>3, <2>6, <3>2
      <4>2. n < n + 1
        OBVIOUS
      <4> QED
        BY <2>1, <4>1, <4>2
    <3> QED
      BY <3>1, <3>2
  <2> QED
    BY <2>5, <2>6 DEF Upto
<1> HIDE DEF S
<1>3. Nat \subseteq S
  BY <1>1, <1>2, Induction
<1> QED
  BY <1>3, NAssumption DEF S

(* What PMPI_Gatherv leaves is the texts in the order of ranks: each is at *)
(* its displacement, none covers another, and no gap is left between them. *)
LEMMA ReportIsJoined ==
  ASSUME TextsAreTexts
  PROVE  node_report = Report!InOrder
<1> DEFINE J == Joined[N]
<1>1. J \in Seq(Lines) /\ Report!InOrder = J /\ full_report_len = Len(J) /\ Upto(N)
  <2>1. N \in 0..N
    BY NAssumption
  <2> QED
    BY <2>1, JoinedDef, FullLength, JoinedUpto
<1>2. \A s \in Rank : s < N /\ displs[s] = Len(Joined[s]) /\ recv_sizes[s] = Len(text[s])
  BY DisplsDef, NAssumption DEF Rank, recv_sizes
<1>3. ASSUME NEW s \in Rank, NEW p \in 1..Len(J), p - displs[s] \in 1..recv_sizes[s]
      PROVE  text[s][p - displs[s]] = J[p]
  <2> DEFINE i == p - displs[s]
  <2>1. i \in 1..Len(text[s]) /\ Len(Joined[s]) + i = p
    <3>1. Len(Joined[s]) \in Nat
      <4>1. s \in 0..N
        BY NAssumption DEF Rank
      <4> QED
        BY <4>1, JoinedDef
    <3> QED
      BY <1>2, <1>3, <3>1
  <2> HIDE DEF i
  <2>2. J[Len(Joined[s]) + i] = text[s][i]
    BY <1>1, <1>2, <2>1 DEF Upto
  <2> QED
    BY <2>1, <2>2 DEF i
<1>4. ASSUME NEW p \in 1..Len(J)
      PROVE  \E s \in Rank : p - displs[s] \in 1..recv_sizes[s]
  BY <1>1, <1>2 DEF Upto
<1>5. J = [p \in 1..Len(J) |-> J[p]]
  BY <1>1
<1> HIDE DEF J
<1>6. node_report = [p \in 1..Len(J) |-> J[p]]
  <2> DEFINE whose(p) == CHOOSE s \in Rank : p - displs[s] \in 1..recv_sizes[s]
  <2>1. ASSUME NEW p \in 1..Len(J)
        PROVE  /\ \E s \in Rank : p - displs[s] \in 1..recv_sizes[s]
               /\ text[whose(p)][p - displs[whose(p)]] = J[p]
    <3>1. whose(p) \in Rank /\ p - displs[whose(p)] \in 1..recv_sizes[whose(p)]
      BY <1>4
    <3> HIDE DEF whose
    <3> QED
      BY <1>3, <1>4, <3>1
  <2>2. node_report =
          [p \in 1..Len(J) |-> IF \E s \in Rank : p - displs[s] \in 1..recv_sizes[s]
                               THEN text[whose(p)][p - displs[whose(p)]] ELSE Garbage]
    BY <1>1 DEF node_report
  <2> HIDE DEF whose
  <2> QED
    BY <2>1, <2>2
<1> QED
  BY <1>1, <1>5, <1>6

-----------------------------------------------------------------------------
(* The tracing library implements ReportFile.                              *)

IsSequence(t) == \E n \in Nat : t = [i \in 1..n |-> t[i]]

LEMMA SequencesAreTexts ==
  ASSUME \A s \in Rank : IsSequence(text[s])
  PROVE  TextsAreTexts
<1> SUFFICES ASSUME NEW s \in Rank PROVE text[s] \in Seq(Lines)
  BY DEF TextsAreTexts
<1>1. PICK n \in Nat : text[s] = [i \in 1..n |-> text[s][i]]
  BY DEF IsSequence
<1> DEFINE t == text[s]
<1>2. t \in Seq({t[i] : i \in 1..n}) /\ Len(t) = n
  <2> DEFINE S == {t[i] : i \in 1..n}
  <2>1. [i \in 1..n |-> t[i]] \in [1..n -> S]
    OBVIOUS
  <2> HIDE DEF t, S
  <2>2. t \in [1..n -> S]
    BY <1>1, <2>1, Zenon DEF t
  <2>3. t \in Seq(S) /\ Len(t) = n
    BY <2>2
  <2> QED
    BY <2>3 DEF S
<1>3. \A i \in 1..n : t[i] \in Lines
  BY <1>2 DEF Lines
<1> HIDE DEF t
<1>4. t \in Seq(Lines)
  BY <1>2, <1>3
<1> QED
  BY <1>4 DEF t

(* A text begins with a line that says whose it is.                        *)
LEMMA TextIsText ==
  ASSUME MemoryTypes, NEW r \in Rank
  PROVE  /\ IsSequence(Text(r)) /\ Text(r) # << >>
         /\ Text(r)[1][1] = "RUN" /\ Text(r)[1][2] = rank[r] /\ Text(r)[1][3] = numpe[r]
<1> DEFINE head == <<"RUN", rank[r], numpe[r], Len(all[r]), High(Totals(mpi[r])), High(all[r])>>
           a == TextLines("MPI_MEM_USAGE", MpiTimes(r), Totals(mpi[r]))
           b == TextLines("ALL_MEM_USAGE", AllTimes(r), all[r])
           S == {head} \union {a[n] : n \in 1..Len(Totals(mpi[r]))} \union {b[n] : n \in 1..Len(all[r])}
<1>1. Len(Totals(mpi[r])) \in Nat /\ Len(all[r]) \in Nat
  BY TotalsType DEF MemoryTypes
<1>2. a \in Seq(S)
  <2>1. a = [n \in 1..Len(Totals(mpi[r])) |-> a[n]]
    BY DEF TextLines
  <2>2. \A n \in 1..Len(Totals(mpi[r])) : a[n] \in S
    OBVIOUS
  <2> HIDE DEF a, S
  <2> QED
    BY <1>1, <2>1, <2>2
<1>3. b \in Seq(S)
  <2>1. b = [n \in 1..Len(all[r]) |-> b[n]]
    BY DEF TextLines
  <2>2. \A n \in 1..Len(all[r]) : b[n] \in S
    OBVIOUS
  <2> HIDE DEF b, S
  <2> QED
    BY <1>1, <2>1, <2>2
<1>4. head \in S /\ head[1] = "RUN" /\ head[2] = rank[r] /\ head[3] = numpe[r]
  OBVIOUS
<1>5. Text(r) = (<<head>> \o a) \o b
  BY DEF Text
<1> HIDE DEF head, a, b, S
<1>6. <<head>> \o a \in Seq(S) /\ Len(<<head>> \o a) = 1 + Len(a) /\ (<<head>> \o a)[1] = head
  BY <1>2, <1>4
<1> DEFINE t == (<<head>> \o a) \o b
<1>7. t \in Seq(S) /\ t[1] = head /\ Len(t) \in Nat /\ Len(t) >= 1
  <2> DEFINE c == <<head>> \o a
  <2>1. c \in Seq(S) /\ Len(c) = 1 + Len(a) /\ c[1] = head /\ Len(a) \in Nat
    BY <1>2, <1>6
  <2> HIDE DEF c
  <2>2. c \o b \in Seq(S) /\ (c \o b)[1] = head /\ Len(c \o b) \in Nat /\ Len(c \o b) >= 1
    BY <1>3, <2>1
  <2> QED
    BY <2>2 DEF c
<1> HIDE DEF t
<1>8. IsSequence(t) /\ t # << >>
  <2>1. t = [i \in 1..Len(t) |-> t[i]]
    BY <1>7
  <2>2. t # << >>
    BY <1>7
  <2> QED
    BY <1>7, <2>1, <2>2 DEF IsSequence
<1> QED
  BY <1>4, <1>5, <1>7, <1>8 DEF t

Filled == {"gather", "in_gather", "gatherv", "in_gatherv", "write", "finalize", "done"}

Knows(r) == rank[r] = r /\ numpe[r] = N

(* Past pinit.                                                             *)
Settled(r) == pc[r] \in Closing \/ (pc[r] \in {"app", "call", "bare"} /\ k[r] # 0)

(* A rank has its text from the time it is filled; where it knows who it   *)
(* is it says so.                                                          *)
Contributed(r) ==
  /\ IsSequence(text[r])
  /\ text[r] # << >> => pc[r] \in Filled \union {"failed"}
  /\ pc[r] \in Filled => text[r] # << >>
  /\ (\E n \in 1..Len(log[r]) : log[r][n] = "tool_gatherv") => text[r] # << >>
  /\ program.init = "MPI_Init" /\ Settled(r) => Knows(r)

(* Rank 0 alone has the report, once it has all texts.                     *)
OnlyRoot ==
  program.init = "MPI_Init" =>
    /\ file.writers \subseteq {0}
    /\ \A r \in Rank : pc[r] = "write" => r = 0
    /\ pc[0] \in {"write", "finalize", "done"} => Report!Complete
    /\ pc[0] = "write" => report[0] = Report!InOrder

ReportInv == CourseInv /\ (\A r \in Rank : Contributed(r)) /\ OnlyRoot

LEMMA InitReport == Init => ReportInv /\ Report!Init
<1> SUFFICES ASSUME Init PROVE ReportInv /\ Report!Init
  OBVIOUS
<1>1. CourseInv
  BY InitCourse
<1>2. 0 \in Rank
  BY NAssumption DEF Rank
<1>3. ASSUME NEW r \in Rank PROVE Contributed(r)
  <2>1. text[r] = << >> /\ pc[r] = "app" /\ log[r] = << >> /\ k[r] = 0
    BY DEF Init
  <2>2. IsSequence(<< >>)
    <3>1. << >> = [i \in 1..0 |-> << >>[i]]
      OBVIOUS
    <3> QED
      BY <3>1 DEF IsSequence
  <2> QED
    BY <2>1, <2>2 DEF Contributed, Filled, Closing, Settled
<1>4. OnlyRoot
  BY <1>2 DEF Init, OnlyRoot
<1>5. Report!Init
  BY <1>2 DEF Init, Report!Init, Report!Rank, Rank
<1> QED
  BY <1>1, <1>3, <1>4, <1>5 DEF ReportInv

LEMMA StepFilled ==
  ASSUME ControlTypes, NEW r \in Rank, Step(r) \/ Fault(r)
  PROVE  /\ pc[r] \in Filled \union {"failed"} => pc'[r] \in Filled \union {"failed"}
         /\ pc'[r] \in Filled => pc[r] \in Filled \/ FillReport(r)
         /\ text' = text \/ FillReport(r)
         /\ UNCHANGED ident \/ Metadata(r)
<1>1. pc \in [Rank -> Place] /\ pc' \in [Rank -> Place]
  BY StepPlaces DEF ControlTypes
<1>2. text' = text \/ FillReport(r)
  BY DEF Step, Fault, Before, After, Abort, BareCall, BareReturns, EnterTool, Synced, Metadata,
         Finalize, FillReport, Gathered, Gatheredv, Crash, GatheredvAstray, Write, PmpiFinalize,
         SampleFails, MetadataFails, WriteFails, NoOutputPath, out
<1>3. UNCHANGED ident \/ Metadata(r)
  BY DEF Step, Fault, Before, After, Abort, BareCall, BareReturns, EnterTool, Synced, Metadata,
         Finalize, FillReport, Gathered, Gatheredv, Crash, GatheredvAstray, Write, PmpiFinalize,
         SampleFails, MetadataFails, WriteFails, NoOutputPath
<1>4. CASE EnterTool(r) \/ PmpiFinalize(r)
  BY <1>1, <1>2, <1>3, <1>4 DEF EnterTool, PmpiFinalize, ToolPlaces, Inside, Goto, Filled
<1>5. CASE Before(r) \/ After(r) \/ Abort(r) \/ BareCall(r) \/ BareReturns(r) \/ Metadata(r) \/ Finalize(r)
  BY <1>1, <1>2, <1>3, <1>5
     DEF Before, After, Abort, BareCall, BareReturns, Metadata, Finalize, Goto, Filled
<1>6. CASE Synced(r)
  BY <1>1, <1>2, <1>3, <1>6 DEF Synced, Inside, Goto, Filled
<1>7. CASE FillReport(r) \/ Gathered(r) \/ Gatheredv(r) \/ Crash(r) \/ GatheredvAstray(r) \/ Write(r)
  BY <1>1, <1>2, <1>3, <1>7
     DEF FillReport, Gathered, Gatheredv, Crash, GatheredvAstray, Write, Inside, Goto, Filled
<1>8. CASE Fault(r)
  BY <1>1, <1>2, <1>3, <1>8
     DEF Fault, SampleFails, MetadataFails, WriteFails, NoOutputPath, Goto, Filled
<1> QED
  BY <1>4, <1>5, <1>6, <1>7, <1>8 DEF Step

(* tool_gatherv is entered by ranks that have a text only.                 *)
LEMMA StepGatherv ==
  ASSUME ControlTypes, NEW r \in Rank, Step(r) \/ Fault(r),
         NEW n \in 1..Len(log'[r]), log'[r][n] = "tool_gatherv"
  PROVE  pc[r] = "gatherv" \/ (n \in 1..Len(log[r]) /\ log[r][n] = "tool_gatherv")
<1>0. log \in [Rank -> Seq(World)]
  BY DEF ControlTypes
<1>1. ASSUME NEW op, op # "tool_gatherv", Enter(r, op)
      PROVE  n \in 1..Len(log[r]) /\ log[r][n] = "tool_gatherv"
  <2>1. log'[r] = With(log[r], op) /\ log[r] \in Seq(World)
    BY <1>0, <1>1, EnterLog
  <2> DEFINE a == log[r]  b == log'[r]
  <2>2. b = With(a, op) /\ a \in Seq(World) /\ n \in 1..Len(b) /\ b[n] = "tool_gatherv"
    BY <2>1
  <2> HIDE DEF a, b
  <2>3. n \in 1..Len(a) /\ a[n] = "tool_gatherv"
    BY <1>1, <2>2 DEF With
  <2> QED
    BY <2>3 DEF a
<1>2. CASE Before(r) \/ BareCall(r)
  <2>1. Current(r) # "tool_gatherv"
    <3>1. k[r] \in Nat /\ k[r] < Len(CallsOf(r)) /\ CallsOf(r) \in Seq(Call)
      BY <1>2, CallsType DEF Before, BareCall, Finished, ControlTypes
    <3>2. Current(r) \in Call
      BY <3>1 DEF Current
    <3> QED
      BY <3>2 DEF Call, Wrapped, Bare, Messages, Completions, Queries, Collectives,
                  Communicators, Types
  <2> QED
    BY <1>1, <1>2, <2>1 DEF Before, BareCall
<1>3. CASE EnterTool(r)
  <2>1. CASE pc[r] = "gatherv"
    BY <2>1
  <2>2. CASE pc[r] # "gatherv"
    <3>1. ToolOp(pc[r]) # "tool_gatherv" /\ Enter(r, ToolOp(pc[r]))
      BY <1>3, <2>2 DEF EnterTool, ToolPlaces, ToolOp
    <3> QED
      BY <1>1, <3>1
  <2> QED
    BY <2>1, <2>2
<1>4. CASE PmpiFinalize(r)
  BY <1>1, <1>4 DEF PmpiFinalize
<1>5. CASE ~(Before(r) \/ BareCall(r) \/ EnterTool(r) \/ PmpiFinalize(r))
  <2>1. log' = log
    BY <1>5 DEF Step, Fault, After, Abort, BareReturns, Synced, Metadata, Finalize, FillReport,
         Gathered, Gatheredv, Crash, GatheredvAstray, Write, SampleFails, MetadataFails,
         WriteFails, NoOutputPath
  <2> QED
    BY <2>1
<1> QED
  BY <1>2, <1>3, <1>4, <1>5

(* Only by MPI_Init, where the application calls it, does a rank settle.   *)
LEMMA StepSettled ==
  ASSUME ControlTypes, NEW r \in Rank, Charged(r), Entered(r), Step(r) \/ Fault(r),
         program.init = "MPI_Init", Settled(r)'
  PROVE  Settled(r) \/ Metadata(r)
<1>0. pc \in [Rank -> Place] /\ k \in [Rank -> Nat]
  BY DEF ControlTypes
<1>1. CASE Before(r) \/ BareCall(r)
  BY <1>0, <1>1 DEF Before, BareCall, Goto, Settled, Closing
<1>2. CASE After(r)
  <2>1. pc[r] = "call" /\ pc'[r] = IF Current(r) = "MPI_Init" THEN "sync1" ELSE "app"
    BY <1>0, <1>2 DEF After, Goto
  <2>2. CASE k[r] = 0
    BY <2>1, <2>2, CallEntered DEF Settled, Closing
  <2>3. CASE k[r] # 0
    BY <2>1, <2>3 DEF Settled
  <2> QED
    BY <2>2, <2>3
<1>3. CASE BareReturns(r)
  <2>1. pc[r] = "bare" /\ Current(r) # "MPI_Init"
    BY <1>3 DEF BareReturns, Charged, Wrapped
  <2>2. k[r] # 0
    BY <2>1, CallEntered
  <2> QED
    BY <2>1, <2>2 DEF Settled
<1>4. CASE Finalize(r)
  <2>1. pc[r] = "app" /\ k[r] = Len(program.calls[r]) + 1 /\ program.calls[r] \in Seq(Call)
    BY <1>4, CallsType DEF Finalize, Finished, ControlTypes
  <2>2. k[r] # 0
    BY <2>1
  <2> QED
    BY <2>1, <2>2 DEF Settled
<1>5. CASE EnterTool(r) \/ PmpiFinalize(r)
  BY <1>0, <1>5 DEF EnterTool, PmpiFinalize, ToolPlaces, Inside, Goto, Settled, Closing
<1>6. CASE Synced(r)
  BY <1>0, <1>6 DEF Synced, Inside, Goto, Settled, Closing
<1>7. CASE FillReport(r) \/ Gathered(r) \/ Gatheredv(r) \/ Crash(r) \/ GatheredvAstray(r) \/ Write(r)
  BY <1>0, <1>7
     DEF FillReport, Gathered, Gatheredv, Crash, GatheredvAstray, Write, Inside, Goto, Settled, Closing
<1>8. CASE Fault(r) \/ Abort(r)
  BY <1>0, <1>8
     DEF Fault, Abort, SampleFails, MetadataFails, WriteFails, NoOutputPath, Goto, Settled, Closing
<1> QED
  BY <1>1, <1>2, <1>3, <1>4, <1>5, <1>6, <1>7, <1>8 DEF Step

LEMMA StepContributed ==
  ASSUME ReportInv, NEW r \in Rank, Step(r) \/ Fault(r), NEW s \in Rank
  PROVE  Contributed(s)'
<1>0. /\ ControlTypes /\ MemoryTypes /\ ReportTypes /\ Contributed(s)
      /\ Charged(s) /\ Entered(s) /\ program' = program /\ pc' \in [Rank -> Place]
  BY StepPlaces DEF ReportInv, CourseInv, ChargeInv, AllTyped, OnCourse, ControlTypes
<1>1. CASE s # r
  <2>1. /\ k'[s] = k[s] /\ log'[s] = log[s] /\ (pc'[s] = pc[s] \/ pc'[s] = "failed")
    BY <1>0, <1>1, StepPlaces, StepLog
  <2>2. text'[s] = text[s]
    BY <1>0, <1>1, StepFilled DEF FillReport, ReportTypes
  <2>3. rank'[s] = rank[s] /\ numpe'[s] = numpe[s]
    BY <1>0, <1>1, StepFilled DEF Metadata, ident, ReportTypes
  <2> QED
    BY <1>0, <2>1, <2>2, <2>3 DEF Contributed, Settled, Knows, Filled, Closing
<1>2. CASE s = r
  <2>1. /\ text'[r] = IF FillReport(r) THEN Text(r) ELSE text[r]
        /\ FillReport(r) => pc[r] = "fill" /\ pc'[r] = "gather"
    BY <1>0, <1>2, StepFilled DEF FillReport, ReportTypes, Goto, ControlTypes
  <2>2. IsSequence(text'[r])
    BY <1>0, <1>2, <2>1, TextIsText DEF Contributed
  <2>3. text'[r] # << >> => pc'[r] \in Filled \union {"failed"}
    BY <1>0, <1>2, <2>1, StepFilled DEF Contributed, Filled
  <2>4. pc'[r] \in Filled => text'[r] # << >>
    BY <1>0, <1>2, <2>1, StepFilled, TextIsText DEF Contributed
  <2>5. ASSUME NEW n \in 1..Len(log'[r]), log'[r][n] = "tool_gatherv" PROVE text'[r] # << >>
    <3>1. pc[r] = "gatherv" \/ (n \in 1..Len(log[r]) /\ log[r][n] = "tool_gatherv")
      BY <1>0, <2>5, StepGatherv
    <3>2. text[r] # << >>
      BY <1>0, <1>2, <3>1 DEF Contributed, Filled
    <3> QED
      BY <1>0, <1>2, <2>1, <3>2, TextIsText
  <2>6. ASSUME program'.init = "MPI_Init", Settled(r)' PROVE Knows(r)'
    <3>1. Settled(r) \/ Metadata(r)
      BY <1>0, <1>2, <2>6, StepSettled
    <3>2. CASE Metadata(r)
      BY <1>0, <3>2 DEF Metadata, Knows, ReportTypes
    <3>3. CASE ~Metadata(r)
      <4>1. UNCHANGED ident
        BY <1>0, <3>3, StepFilled
      <4> QED
        BY <1>0, <1>2, <2>6, <3>1, <3>3, <4>1 DEF ident, Contributed, Knows
    <3> QED
      BY <3>2, <3>3
  <2> QED
    BY <1>2, <2>2, <2>3, <2>4, <2>5, <2>6 DEF Contributed
<1> QED
  BY <1>1, <1>2

LEMMA StepWrites ==
  ASSUME ControlTypes, NEW r \in Rank, Step(r) \/ Fault(r)
  PROVE  /\ file' = file \/ Write(r)
         /\ report' = report \/ Gatheredv(r) \/ GatheredvAstray(r)
         /\ pc'[r] = "write" => Gatheredv(r) \/ GatheredvAstray(r)
         /\ pc'[r] \in {"finalize", "done"} =>
              PmpiFinalize(r) \/ Write(r) \/ WriteFails(r) \/ Gatheredv(r)
<1>1. pc \in [Rank -> Place]
  BY DEF ControlTypes
<1>2. (file' = file \/ Write(r)) /\ (report' = report \/ Gatheredv(r) \/ GatheredvAstray(r))
  BY DEF Step, Fault, Before, After, Abort, BareCall, BareReturns, EnterTool, Synced, Metadata,
         Finalize, FillReport, Gathered, Gatheredv, Crash, GatheredvAstray, Write, PmpiFinalize,
         SampleFails, MetadataFails, WriteFails, NoOutputPath, out
<1>3. CASE EnterTool(r) \/ Synced(r)
  BY <1>1, <1>2, <1>3 DEF EnterTool, Synced, ToolPlaces, Inside, Goto
<1>4. CASE Before(r) \/ After(r) \/ Abort(r) \/ BareCall(r) \/ BareReturns(r) \/ Metadata(r) \/ Finalize(r)
  BY <1>1, <1>2, <1>4
     DEF Before, After, Abort, BareCall, BareReturns, Metadata, Finalize, Goto
<1>5. CASE FillReport(r) \/ Gathered(r) \/ Crash(r) \/ GatheredvAstray(r)
  BY <1>1, <1>2, <1>5 DEF FillReport, Gathered, Crash, GatheredvAstray, Inside, Goto
<1>6. CASE Gatheredv(r) \/ Write(r) \/ PmpiFinalize(r)
  BY <1>1, <1>2, <1>6 DEF Write, PmpiFinalize, Goto
<1>7. CASE Fault(r)
  BY <1>1, <1>2, <1>7
     DEF Fault, SampleFails, MetadataFails, WriteFails, NoOutputPath, Goto
<1> QED
  BY <1>3, <1>4, <1>5, <1>6, <1>7 DEF Step

(* Where ranks are known only rank 0 gets to write, with its arrays whole. *)
LEMMA RootIsZero ==
  ASSUME ReportInv, NEW r \in Rank, program.init = "MPI_Init"
  PROVE  /\ ~GatheredvAstray(r) /\ ~Crash(r)
         /\ Gatheredv(r) => /\ Root(r) <=> r = 0
                            /\ pc'[r] = IF r = 0 THEN "write" ELSE "finalize"
                            /\ report' = IF r = 0 THEN [report EXCEPT ![r] = node_report] ELSE report
<1>1. Contributed(r) /\ pc \in [Rank -> Place]
  BY DEF ReportInv, CourseInv, ChargeInv, AllTyped, ControlTypes
<1>2. pc[r] \in {"in_gather", "in_gatherv"} => rank[r] = r /\ numpe[r] = N
  BY <1>1 DEF Contributed, Settled, Closing, Knows
<1>3. ~GatheredvAstray(r) /\ ~Crash(r)
  BY <1>2 DEF GatheredvAstray, Crash, Astray, Inside
<1>4. ASSUME Gatheredv(r)
      PROVE  /\ Root(r) <=> r = 0
             /\ pc'[r] = IF r = 0 THEN "write" ELSE "finalize"
             /\ report' = IF r = 0 THEN [report EXCEPT ![r] = node_report] ELSE report
  <2>1. pc[r] = "in_gatherv"
    BY <1>4 DEF Gatheredv, Inside
  <2>2. Root(r) <=> r = 0
    BY <1>2, <2>1 DEF Root
  <2> QED
    BY <1>1, <1>4, <2>2 DEF Gatheredv, Goto
<1> QED
  BY <1>3, <1>4

(* What rank 0 gathers is the texts of all.                                *)
LEMMA GatheredIsComplete ==
  ASSUME ReportInv, 0 \in Rank, Gatheredv(0)
  PROVE  Report!Complete
<1>1. pc[0] = "in_gatherv" /\ Returns(0)
  BY DEF Gatheredv, Inside
<1>2. ControlTypes /\ Entered(0)
  BY DEF ReportInv, CourseInv, ChargeInv, AllTyped, OnCourse
<1>3. log[0] = Middle(0) \o <<"tool_barrier", "tool_gather", "tool_gatherv">> /\ Middle(0) \in Seq(World)
  BY <1>1, <1>2, CourseType DEF Entered, Closing, Made, ControlTypes
<1> DEFINE n == Len(log[0])
<1>4. n \in Nat /\ n >= 1 /\ log[0][n] = "tool_gatherv"
  <2> DEFINE a == Middle(0)  b == <<"tool_barrier", "tool_gather", "tool_gatherv">>
  <2>1. b \in Seq(World) /\ Len(b) = 3 /\ b[3] = "tool_gatherv"
    BY ToolNames
  <2>2. a \in Seq(World) /\ log[0] = a \o b
    BY <1>3
  <2> DEFINE c == log[0]
  <2> HIDE DEF a, b, c
  <2>3. a \in Seq(World) /\ b \in Seq(World) /\ c = a \o b
    BY <2>1, <2>2 DEF c
  <2>4. Len(c) = Len(a) + Len(b) /\ Len(a) \in Nat /\ \A i \in 1..Len(b) : c[Len(a) + i] = b[i]
    BY ONLY <2>3, ConcatIs
  <2>5. Len(c) = Len(a) + 3 /\ c[Len(a) + 3] = "tool_gatherv"
    BY <2>1, <2>4
  <2> QED
    BY <2>4, <2>5 DEF c
<1>5. WaitsFor(0, "tool_gatherv") = Rank
  <2>1. "tool_gatherv" \notin Synchronizing /\ "tool_gatherv" \in ToRoot
    BY DEF Synchronizing, ToRoot
  <2>2. "tool_gatherv" \notin FromRoot
    BY DEF FromRoot
  <2>3. ASSUME NEW op, op \notin Synchronizing, op \in ToRoot, op \notin FromRoot
        PROVE  WaitsFor(0, op) = Rank
    BY <2>3 DEF WaitsFor
  <2> QED
    BY <2>1, <2>2, <2>3
<1> HIDE DEF n
<1>6. ASSUME NEW s \in Rank PROVE text[s] # << >>
  <2>1. Len(log[s]) >= n /\ log[s][n] = "tool_gatherv" /\ Len(log[s]) \in Nat
    BY <1>1, <1>2, <1>4, <1>5 DEF Returns, n, ControlTypes
  <2>2. n \in 1..Len(log[s])
    BY <1>4, <2>1
  <2> QED
    BY <2>1, <2>2 DEF ReportInv, Contributed
<1> QED
  BY <1>6 DEF Report!Complete, Report!Rank, Rank

LEMMA TextsStay ==
  ASSUME ReportInv, NEW r \in Rank, Step(r) \/ Fault(r), Report!Complete
  PROVE  text' = text
<1>1. text[r] # << >>
  BY DEF Report!Complete, Report!Rank, Rank
<1>2. pc[r] # "fill"
  BY <1>1 DEF ReportInv, Contributed, Filled
<1> QED
  BY <1>2, StepFilled DEF FillReport, ReportInv, CourseInv, ChargeInv, AllTyped

LEMMA StepOnlyRoot ==
  ASSUME ReportInv, NEW r \in Rank, Step(r) \/ Fault(r)
  PROVE  OnlyRoot'
<1>0. /\ ControlTypes /\ ReportTypes /\ OnlyRoot /\ program' = program /\ 0 \in Rank
      /\ TextsAreTexts
  <2>1. \A s \in Rank : IsSequence(text[s])
    BY DEF ReportInv, Contributed
  <2> QED
    BY <2>1, SequencesAreTexts, StepPlaces, NAssumption
       DEF ReportInv, CourseInv, ChargeInv, AllTyped, Rank
<1> SUFFICES ASSUME program.init = "MPI_Init"
             PROVE  /\ file'.writers \subseteq {0}
                    /\ \A s \in Rank : pc'[s] = "write" => s = 0
                    /\ pc'[0] \in {"write", "finalize", "done"} => Report!Complete'
                    /\ pc'[0] = "write" => report'[0] = Report!InOrder'
  BY <1>0 DEF OnlyRoot
<1>1. file'.writers \subseteq {0}
  BY <1>0, StepWrites DEF Write, OnlyRoot
<1>2. \A s \in Rank : pc'[s] = "write" => s = 0
  BY <1>0, StepPlaces, StepWrites, RootIsZero DEF OnlyRoot
<1>3. ASSUME pc'[0] \in {"write", "finalize", "done"} PROVE Report!Complete /\ text' = text
  <2>1. CASE pc[0] \in {"write", "finalize", "done"}
    BY <1>0, <2>1, TextsStay DEF OnlyRoot
  <2>2. CASE pc[0] \notin {"write", "finalize", "done"}
    <3>1. r = 0
      BY <1>0, <1>3, <2>2, StepPlaces
    <3>2. Gatheredv(0)
      BY <1>0, <1>3, <2>2, <3>1, StepWrites, RootIsZero DEF PmpiFinalize, Write, WriteFails
    <3>3. Report!Complete
      BY <1>0, <3>2, GatheredIsComplete
    <3> QED
      BY <3>3, TextsStay
  <2> QED
    BY <2>1, <2>2
<1>4. ASSUME pc'[0] = "write" PROVE report'[0] = Report!InOrder'
  <2>1. text' = text /\ Report!InOrder' = Report!InOrder
    BY <1>3, <1>4 DEF Report!InOrder
  <2>2. CASE r = 0
    <3>1. Gatheredv(0)
      BY <1>0, <1>4, <2>2, StepWrites, RootIsZero
    <3>2. report'[0] = node_report
      BY <1>0, <2>2, <3>1, RootIsZero DEF ReportTypes
    <3> QED
      BY <1>0, <2>1, <3>2, ReportIsJoined
  <2>3. CASE r # 0
    <3>1. pc[0] = "write"
      BY <1>0, <1>4, <2>3, StepPlaces
    <3>2. report' = report
      BY <1>0, <2>3, StepWrites, RootIsZero
    <3> QED
      BY <1>0, <2>1, <3>1, <3>2 DEF OnlyRoot
  <2> QED
    BY <2>2, <2>3
<1> QED
  BY <1>1, <1>2, <1>3, <1>4 DEF Report!Complete, Report!Rank

LEMMA NextReport ==
  ASSUME ReportInv, [Next]_vars
  PROVE  ReportInv'
<1>1. CourseInv'
  BY NextCourse DEF ReportInv
<1>2. CASE UNCHANGED vars
  <2>1. UNCHANGED <<program, pc, k, log, rank, numpe, text, report, file>>
    BY <1>2 DEF vars, ident, out
  <2>2. \A r \in Rank : Contributed(r)'
    BY <2>1 DEF ReportInv, Contributed, Settled, Knows
  <2>3. OnlyRoot'
    BY <2>1 DEF ReportInv, OnlyRoot, Report!Complete, Report!InOrder
  <2> QED
    BY <1>1, <2>2, <2>3 DEF ReportInv
<1>3. CASE Next
  BY <1>1, <1>3, StepContributed, StepOnlyRoot DEF Next, ReportInv
<1> QED
  BY <1>2, <1>3

(* A rank's step moves no other rank, unless it aborts; and a rank that is *)
(* through with its report stays so.                                       *)
LEMMA OthersStay ==
  ASSUME ControlTypes, NEW r \in Rank, Step(r) \/ Fault(r), ~Abort(r), NEW s \in Rank, s # r
  PROVE  pc'[s] = pc[s]
<1>1. \E p : Goto(r, p)
  BY DEF Step, Fault, Before, After, BareCall, BareReturns, EnterTool, Synced, Metadata,
         Finalize, FillReport, Gathered, Gatheredv, Crash, GatheredvAstray, Write, PmpiFinalize,
         SampleFails, MetadataFails, WriteFails, NoOutputPath
<1> QED
  BY <1>1 DEF Goto, ControlTypes

LEMMA ClosedStays ==
  ASSUME ControlTypes, NEW r \in Rank, Step(r) \/ Fault(r), pc[r] \in {"finalize", "done"}
  PROVE  pc'[r] = "done"
<1>1. PmpiFinalize(r)
  BY DEF Step, Fault, Before, After, Abort, BareCall, BareReturns, EnterTool, Synced, Metadata,
         Finalize, FillReport, Gathered, Gatheredv, Crash, GatheredvAstray, Write,
         SampleFails, MetadataFails, WriteFails, NoOutputPath, ToolPlaces, Inside
<1> QED
  BY <1>1 DEF PmpiFinalize, Goto, ControlTypes

(* Where MPI_Init is called, each step of a rank is one of the report's.   *)
LEMMA StepImplements ==
  ASSUME ReportInv, NEW r \in Rank, Step(r) \/ Fault(r), program.init = "MPI_Init"
  PROVE  Report!Next \/ UNCHANGED Report!vars
<1> DEFINE closed == pc[0] \in {"finalize", "done"}
           content == IF file.writers \subseteq {0} THEN file.content ELSE Garbage
<1>0. /\ ControlTypes /\ ReportTypes /\ MemoryTypes /\ OnlyRoot /\ OnlyRoot'
      /\ program' = program /\ 0 \in Rank
      /\ pc \in [Rank -> Place] /\ TextsAreTexts
  <2>1. \A s \in Rank : IsSequence(text[s])
    BY DEF ReportInv, Contributed
  <2>2. TextsAreTexts
    BY <2>1, SequencesAreTexts
  <2>3. /\ ControlTypes /\ ReportTypes /\ MemoryTypes /\ OnlyRoot /\ OnlyRoot'
        /\ pc \in [Rank -> Place]
    BY StepOnlyRoot DEF ReportInv, CourseInv, ChargeInv, AllTyped, ControlTypes
  <2>4. program' = program
    BY <2>3, StepPlaces
  <2>5. 0 \in Rank
    BY NAssumption DEF Rank
  <2> QED
    BY <2>2, <2>3, <2>4, <2>5
<1>1. file.writers \subseteq {0} /\ file'.writers \subseteq {0}
  BY <1>0 DEF OnlyRoot
<1>2. ASSUME ~FillReport(r), ~Write(r), ~WriteFails(r) PROVE UNCHANGED Report!vars
  <2>1. text' = text /\ file' = file
    BY <1>0, <1>2, StepFilled, StepWrites
  <2>2. closed' = closed
    <3>1. CASE closed
      <4>1. Report!Complete
        BY <1>0, <3>1 DEF OnlyRoot
      <4>2. pc[r] # "bare" /\ pc[r] \in Filled \union {"failed"}
        <5>1. text[r] # << >>
          BY <4>1 DEF Report!Complete, Report!Rank, Rank
        <5> QED
          BY <5>1 DEF ReportInv, Contributed, Filled
      <4>3. ~Abort(r)
        BY <4>2 DEF Abort
      <4>4. CASE r # 0
        <5>1. pc'[0] = pc[0]
          BY <1>0, <4>2, <4>3, <4>4, OthersStay
        <5> QED
          BY <5>1
      <4>5. CASE r = 0
        BY <1>0, <3>1, <4>2, <4>5, ClosedStays
      <4> QED
        BY <4>4, <4>5
    <3>2. CASE ~closed
      <4>1. CASE closed'
        <5>1. r = 0
          BY <1>0, <3>2, <4>1, StepPlaces
        <5>2. Gatheredv(0)
          BY <1>0, <1>2, <3>2, <4>1, <5>1, StepWrites DEF PmpiFinalize
        <5> QED
          BY <1>0, <4>1, <5>1, <5>2, RootIsZero
      <4> QED
        BY <3>2, <4>1
    <3> QED
      BY <3>1, <3>2
  <2> QED
    BY <1>0, <2>1, <2>2 DEF Report!vars
<1>3. CASE FillReport(r)
  <2>1. /\ pc[r] = "fill" /\ pc' = [pc EXCEPT ![r] = "gather"]
        /\ text' = [text EXCEPT ![r] = Text(r)] /\ file' = file
    BY <1>3 DEF FillReport, Goto
  <2>2. text[r] = << >> /\ Knows(r)
    BY <1>0, <2>1 DEF ReportInv, Contributed, Filled, Settled, Closing
  <2>3. text'[r] = Text(r) /\ \A s \in Rank \ {r} : text'[s] = text[s]
    BY <1>0, <2>1 DEF ReportTypes
  <2>4. Text(r) # << >> /\ Text(r)[1][1] = "RUN" /\ Text(r)[1][2] = r /\ Text(r)[1][3] = N
    BY <1>0, <2>2, TextIsText DEF Knows
  <2>5. closed' = closed
    BY <1>0, <2>1
  <2>6. Report!Contribute(r)
    BY <1>0, <2>1, <2>2, <2>3, <2>4, <2>5 DEF Report!Contribute, Report!Rank, Rank
  <2> QED
    BY <2>6 DEF Report!Next, Report!Rank, Rank
<1>4. CASE Write(r)
  <2>1. r = 0 /\ Report!Complete /\ report[0] = Report!InOrder
    BY <1>0, <1>4 DEF Write, OnlyRoot
  <2>2. /\ ~closed /\ closed' /\ text' = text
        /\ file'.content = report[0]
    BY <1>0, <1>4, <2>1 DEF Write, Goto
  <2>3. Report!Publish
    BY <1>0, <1>1, <2>1, <2>2 DEF Report!Publish
  <2> QED
    BY <2>3 DEF Report!Next
<1>5. CASE WriteFails(r)
  <2>1. r = 0 /\ Report!Complete
    BY <1>0, <1>5 DEF WriteFails, OnlyRoot
  <2>2. /\ ~closed /\ closed' /\ text' = text /\ file' = file /\ "open" \in program.faults
    BY <1>0, <1>5, <2>1 DEF WriteFails, Goto, out
  <2>3. Report!Lose
    BY <1>0, <1>1, <2>1, <2>2 DEF Report!Lose
  <2> QED
    BY <2>3 DEF Report!Next
<1> QED
  BY <1>2, <1>3, <1>4, <1>5

LEMMA NextImplements ==
  ASSUME ReportInv, [Next]_vars
  PROVE  [Report!Next]_(Report!vars)
<1>1. CASE UNCHANGED vars
  BY <1>1 DEF vars, out, Report!vars
<1>2. CASE Next
  <2>1. PICK r \in Rank : Step(r) \/ Fault(r)
    BY <1>2 DEF Next
  <2>2. CASE program.init = "MPI_Init"
    BY <2>1, <2>2, StepImplements
  <2>3. CASE program.init # "MPI_Init"
    <3>1. program' = program
      BY <2>1, StepPlaces DEF ReportInv, CourseInv, ChargeInv, AllTyped
    <3>2. Report!Anything
      BY <2>3, <3>1 DEF Report!Anything
    <3> QED
      BY <3>2 DEF Report!Next
  <2> QED
    BY <2>2, <2>3
<1> QED
  BY <1>1, <1>2

(* The tracing library implements ReportFile: in an application that calls *)
(* MPI_Init the report is written once, by rank 0, whole and in the order  *)
(* of ranks, each of which says who it is; it is missing only where it     *)
(* could not be opened.                                                    *)
THEOREM MemnesiaImplementsReport == Spec => ImplementsReport
BY InitReport, NextReport, NextImplements, PTL DEF Spec, ImplementsReport, Report!Spec

-----------------------------------------------------------------------------
(* A quiet job: nobody fails, and rank 0 has written the report when it is *)
(* through with it.                                                        *)
Sound ==
  Quiet => /\ \A r \in Rank : pc[r] # "failed"
           /\ pc[0] \in {"finalize", "done"} => 0 \in file.writers

QuietInv == ReportInv /\ Sound

LEMMA QuietNeverFails ==
  ASSUME ReportInv, Quiet, NEW r \in Rank, Step(r) \/ Fault(r), pc[r] # "failed"
  PROVE  ~Abort(r) /\ ~Fault(r) /\ pc'[r] # "failed"
<1>0. /\ ControlTypes /\ pc \in [Rank -> Place] /\ program \in Programs
      /\ program.init = "MPI_Init" /\ program.faults = {}
      /\ k[r] \in Nat /\ k[r] <= Len(CallsOf(r)) /\ InCall(r) /\ Entered(r)
  BY DEF ReportInv, CourseInv, ChargeInv, AllTyped, ControlTypes, Quiet, OnCourse
<1>1. ~Fault(r)
  BY <1>0 DEF Fault, SampleFails, MetadataFails, WriteFails, NoOutputPath
<1>2. ~Abort(r)
  <2> SUFFICES ASSUME pc[r] = "bare" PROVE Current(r) # "MPI_Abort"
    BY DEF Abort
  <2>1. Len(CallsOf(r)) \in Nat /\ k[r] < Len(CallsOf(r))
    BY <1>0, CallsType DEF InCall, Finished
  <2>2. CASE k[r] = 0
    BY <1>0, <2>1, <2>2, CallsInOrder DEF Current
  <2>3. CASE k[r] # 0
    <3>1. k[r] > 0
      BY <1>0, <2>3
    <3>2. Current(r) = program.calls[r][k[r]] /\ k[r] \in 1..Len(program.calls[r])
      BY <1>0, <2>1, <3>1, CallsInOrder DEF Current
    <3> QED
      BY <3>2 DEF Quiet
  <2> QED
    BY <2>2, <2>3
<1>3. ~Crash(r)
  BY <1>0, RootIsZero
<1>4. CASE Before(r) \/ After(r) \/ BareCall(r) \/ BareReturns(r) \/ Metadata(r) \/ Finalize(r)
  BY <1>0, <1>1, <1>2, <1>4 DEF Before, After, BareCall, BareReturns, Metadata, Finalize, Goto
<1>5. CASE EnterTool(r) \/ Synced(r)
  BY <1>0, <1>1, <1>2, <1>5 DEF EnterTool, Synced, ToolPlaces, Inside, Goto
<1>6. CASE FillReport(r) \/ Gathered(r) \/ Gatheredv(r) \/ GatheredvAstray(r) \/ Write(r) \/ PmpiFinalize(r)
  BY <1>0, <1>1, <1>2, <1>6
     DEF FillReport, Gathered, Gatheredv, GatheredvAstray, Write, PmpiFinalize, Goto
<1> QED
  BY <1>1, <1>2, <1>3, <1>4, <1>5, <1>6 DEF Step

LEMMA StepSound ==
  ASSUME QuietInv, NEW r \in Rank, Step(r) \/ Fault(r)
  PROVE  Sound'
<1>0. /\ ReportInv /\ ControlTypes /\ ReportTypes /\ pc \in [Rank -> Place] /\ program' = program
      /\ 0 \in Rank
  <2>1. ReportInv /\ ControlTypes /\ ReportTypes /\ pc \in [Rank -> Place]
    BY DEF QuietInv, ReportInv, CourseInv, ChargeInv, AllTyped, ControlTypes
  <2>2. 0 \in Rank
    BY NAssumption DEF Rank
  <2> QED
    BY <2>1, <2>2, StepPlaces
<1> SUFFICES ASSUME Quiet
             PROVE  /\ \A s \in Rank : pc'[s] # "failed"
                    /\ pc'[0] \in {"finalize", "done"} => 0 \in file'.writers
  BY <1>0 DEF Sound, Quiet
<1>1. /\ \A s \in Rank : pc[s] # "failed"
      /\ pc[0] \in {"finalize", "done"} => 0 \in file.writers
  BY DEF QuietInv, Sound
<1>2. ~Abort(r) /\ ~Fault(r) /\ pc'[r] # "failed"
  BY <1>0, <1>1, QuietNeverFails
<1>3. \A s \in Rank : s # r => pc'[s] = pc[s]
  BY <1>0, <1>2, OthersStay
<1>4. file.writers \subseteq file'.writers
  BY <1>0, StepWrites DEF Write
<1>5. ASSUME pc'[0] \in {"finalize", "done"} PROVE 0 \in file'.writers
  <2>1. CASE r # 0 \/ PmpiFinalize(r)
    <3>1. pc[0] \in {"finalize", "done"}
      BY <1>0, <1>3, <1>5, <2>1 DEF PmpiFinalize
    <3> QED
      BY <1>1, <1>4, <3>1
  <2>2. CASE r = 0 /\ Write(r)
    BY <2>2 DEF Write
  <2>3. CASE r = 0 /\ Gatheredv(r)
    <3>1. pc'[0] = "write"
      BY <1>0, <2>3, RootIsZero DEF Quiet
    <3> QED
      BY <1>5, <3>1
  <2> QED
    BY <1>0, <1>2, <1>5, <2>1, <2>2, <2>3, StepWrites DEF Fault
<1> QED
  BY <1>1, <1>2, <1>3, <1>5

LEMMA NextQuiet ==
  ASSUME QuietInv, [Next]_vars
  PROVE  QuietInv'
<1>1. ReportInv'
  BY NextReport DEF QuietInv
<1>2. CASE UNCHANGED vars
  <2>1. UNCHANGED <<program, pc, file>>
    BY <1>2 DEF vars, out
  <2> QED
    BY <1>1, <2>1 DEF QuietInv, Sound, Quiet
<1>3. CASE Next
  BY <1>1, <1>3, StepSound DEF Next, QuietInv
<1> QED
  BY <1>2, <1>3

(* A rank in a collective has entered one.                                 *)
LEMMA InsideHasEntered ==
  ASSUME ControlTypes, NEW r \in Rank, Entered(r), pc[r] # "failed",
         \/ pc[r] \in {"call", "bare"} /\ Current(r) \in World
         \/ pc[r] \in {Inside[p] : p \in ToolPlaces}
  PROVE  Len(log[r]) \in Nat \ {0}
<1>0. /\ log[r] \in Seq(World) /\ Begin \in Seq(World) /\ Len(Begin) \in Nat \ {0}
      /\ program \in Programs /\ pc[r] \in Place /\ k[r] \in Nat
      /\ Middle(r) \in Seq(World)
  <2>1. Len(Begin) \in Nat \ {0}
    BY DEF Begin
  <2> QED
    BY <2>1, CourseType DEF ControlTypes
<1>1. CASE pc[r] \in {"call", "bare"}
  <2>1. CASE k[r] = 0
    <3>1. log[r] = <<program.init>>
      BY <1>1, <2>1, CallEntered
    <3> QED
      BY <3>1
  <2>2. CASE k[r] # 0
    <3>1. log[r] = Begin \o On(program.calls[r])[k[r]]
      BY <1>1, <2>2, CallEntered
    <3>2. /\ k[r] \in 0..Len(program.calls[r])
      BY <1>0, <1>1, CallsType DEF ControlTypes, InCall, Finished
    <3>3. On(program.calls[r])[k[r]] \in Seq(World)
      BY <1>0, <3>2, CourseType
    <3> HIDE DEF Begin
    <3> QED
      BY <1>0, <3>1, <3>3
  <2> QED
    BY <2>1, <2>2
<1>2. CASE pc[r] \in {"in_sync1", "in_sync2"}
  <2>1. log[r] = <<"MPI_Init", "tool_barrier">> \/ log[r] = Begin
    BY <1>2 DEF Entered, Opened, Opening
  <2>2. CASE log[r] = <<"MPI_Init", "tool_barrier">>
    BY <2>2
  <2> QED
    BY <1>0, <2>1, <2>2
<1>3. CASE pc[r] \in {"in_sync3", "in_gather", "in_gatherv"}
  <2>1. log[r] = Middle(r) \o Made(pc[r])
    BY <1>3 DEF Entered, Closing
  <2>2. Made(pc[r]) \in Seq(World) /\ Len(Made(pc[r])) \in Nat \ {0}
    BY <1>0, <1>3, CourseType DEF Made
  <2> QED
    BY <1>0, <2>1, <2>2
<1> QED
  BY <1>1, <1>2, <1>3 DEF Inside, ToolPlaces

(* A rank that has entered no more than any other waits for nobody.        *)
LEMMA BehindReturns ==
  ASSUME CourseInv, NEW r \in Rank, Len(log[r]) \in Nat \ {0},
         \A s \in Rank : Len(log[r]) <= Len(log[s])
  PROVE  Returns(r)
<1> DEFINE n == Len(log[r])
<1>1. CollectivesAgree
  BY CourseAgrees
<1>2. 0 \in Rank /\ n \in 1..Len(log[r])
  BY NAssumption DEF Rank
<1>3. WaitsFor(r, log[r][n]) \subseteq Rank
  BY <1>2 DEF WaitsFor
<1>4. \A s \in Rank : n <= Len(log[s]) /\ log[s][n] = log[r][n]
  BY <1>1, <1>2 DEF CollectivesAgree
<1> QED
  BY <1>3, <1>4 DEF Returns

LEMMA QuietNeverStuck == QuietInv => NeverStuck
<1> SUFFICES ASSUME QuietInv, Quiet
             PROVE  Ended \/ \E r \in Rank : CanGoOn(r)
  BY DEF NeverStuck
<1>0. /\ ReportInv /\ CourseInv /\ OnlyRoot /\ ControlTypes /\ 0 \in Rank
      /\ program \in Programs /\ program.init = "MPI_Init"
      /\ \A r \in Rank : log[r] \in Seq(World) /\ Len(log[r]) \in Nat
      /\ \A r \in Rank : pc[r] # "failed" /\ OnCourse(r)
  <2>1. ReportInv /\ CourseInv /\ OnlyRoot /\ ControlTypes /\ \A r \in Rank : OnCourse(r)
    BY DEF QuietInv, ReportInv, CourseInv, ChargeInv, AllTyped
  <2>2. \A r \in Rank : log[r] \in Seq(World)
    BY <2>1 DEF ControlTypes
  <2>3. 0 \in Rank
    BY NAssumption DEF Rank
  <2>4. /\ program \in Programs /\ program.init = "MPI_Init"
        /\ \A r \in Rank : pc[r] # "failed"
    BY <2>1 DEF QuietInv, Sound, Quiet, ControlTypes
  <2> QED
    BY <2>1, <2>2, <2>3, <2>4
<1> DEFINE going == {r \in Rank : pc[r] # "done"}
<1>1. CASE going = {}
  <2>1. file.writers = {0}
    BY <1>0, <1>1 DEF QuietInv, Sound, OnlyRoot
  <2> QED
    BY <1>1, <2>1 DEF Ended
<1>2. CASE going # {}
  <2>1. PICK r \in going : \A s \in going : Len(log[r]) <= Len(log[s])
    <3> DEFINE lengths == {Len(log[s]) : s \in going}
    <3>1. lengths \in SUBSET Nat /\ lengths # {}
      BY <1>0, <1>2
    <3>2. PICK x \in lengths : \A y \in lengths : x <= y
      BY <3>1, LeastExists
    <3> QED
      BY <3>2
  <2>2. \A s \in Rank : Len(log[r]) <= Len(log[s])
    <3> SUFFICES ASSUME NEW s \in Rank, pc[s] = "done"
                 PROVE  Len(log[r]) <= Len(log[s])
      BY <2>1
    <3>1. log[s] = Course(s)
      BY <1>0 DEF OnCourse, Entered, Closing, Made, Course
    <3>2. Course(r) = Course(s)
      BY <1>0, OneCourse
    <3> QED
      BY <1>0, <3>1, <3>2 DEF OnCourse, Prefix
  <2>3. Len(log[r]) \in Nat \ {0} => Returns(r)
    BY <1>0, <2>2, BehindReturns
  <2>4. CanGoOn(r)
    BY <1>0, <2>3, InsideHasEntered DEF CanGoOn, CallReturns, OnCourse
  <2> QED
    BY <2>4
<1> QED
  BY <1>1, <1>2

(* A job without faults that calls MPI_Init and not MPI_Abort is never     *)
(* stuck: until all ranks are done and rank 0 has written the report, some *)
(* rank is outside the collectives or in one that all it waits for have    *)
(* entered, whatever calls each rank makes, wrapped or not.                *)
THEOREM TracedNeverStuck == Spec => []NeverStuck
<1>1. Init => QuietInv
  BY InitReport, NAssumption DEF Init, QuietInv, Sound, Rank
<1> QED
  BY <1>1, NextQuiet, QuietNeverStuck, PTL DEF Spec

(***************************************************************************)
(* Each step takes one of what is left of a rank.                          *)
(***************************************************************************)
LEMMA LeftByPlace ==
  ASSUME ControlTypes, NEW r \in Rank
  PROVE  /\ StepsLeft(r) \in Nat
         /\ pc[r] \notin {"done", "failed"} => StepsLeft(r) > 0
<1>1. /\ pc[r] \in Place /\ k[r] \in Nat /\ Len(CallsOf(r)) \in Nat /\ k[r] <= Len(CallsOf(r))
  BY CallsType DEF ControlTypes
<1>2. pc[r] # "failed" => StepsFrom[pc[r]] \in Nat /\ (pc[r] # "done" => StepsFrom[pc[r]] > 0)
  BY <1>1 DEF StepsFrom, Place
<1>3. Len(CallsOf(r)) - k[r] \in Nat
  BY <1>1
<1> DEFINE calls == Len(CallsOf(r)) - k[r]  from == StepsFrom[pc[r]]
<1>4. StepsLeft(r) = IF pc[r] = "failed" THEN 0 ELSE from + 2 * calls + IF k[r] = 0 THEN 5 ELSE 0
  BY DEF StepsLeft
<1> HIDE DEF calls, from
<1>5. calls \in Nat /\ (pc[r] # "failed" => from \in Nat /\ (pc[r] # "done" => from > 0))
  BY <1>2, <1>3 DEF calls, from
<1> QED
  BY <1>4, <1>5

LEMMA StepLess ==
  ASSUME CourseInv, NEW r \in Rank, Step(r) \/ Fault(r)
  PROVE  /\ pc[r] \notin {"done", "failed"}
         /\ StepsLeft(r)' < StepsLeft(r)
         /\ \A s \in Rank \ {r} : StepsLeft(s)' \in {StepsLeft(s), 0}
<1>0. /\ ControlTypes /\ pc \in [Rank -> Place] /\ k \in [Rank -> Nat] /\ program' = program
      /\ Entered(r) /\ pc'[r] \in Place /\ k'[r] \in Nat
      /\ Len(CallsOf(r)) \in Nat /\ k[r] <= Len(CallsOf(r)) /\ InCall(r)
  BY StepPlaces, CallsType DEF CourseInv, ChargeInv, AllTyped, ControlTypes, OnCourse
<1>1. \A s \in Rank : CallsOf(s)' = CallsOf(s)
  BY <1>0 DEF CallsOf
<1>2. \A s \in Rank \ {r} : StepsLeft(s)' \in {StepsLeft(s), 0}
  BY <1>0, <1>1, StepPlaces DEF StepsLeft
<1>3. StepsLeft(r) \in Nat /\ (pc[r] \notin {"done", "failed"} => StepsLeft(r) > 0)
  BY <1>0, LeftByPlace
<1> DEFINE left(p, n) == StepsFrom[p] + 2 * (Len(CallsOf(r)) - n) + IF n = 0 THEN 5 ELSE 0
<1>4. /\ pc[r] # "failed" => StepsLeft(r) = left(pc[r], k[r])
      /\ pc'[r] # "failed" => StepsLeft(r)' = left(pc'[r], k'[r])
  BY <1>1 DEF StepsLeft
<1>5. CASE pc'[r] = "failed" /\ pc[r] \notin {"done", "failed"}
  BY <1>2, <1>3, <1>5 DEF StepsLeft
<1>6. CASE /\ k'[r] = k[r] /\ pc[r] \in DOMAIN StepsFrom /\ pc'[r] \in DOMAIN StepsFrom
           /\ StepsFrom[pc'[r]] < StepsFrom[pc[r]]
  <2>1. pc[r] \notin {"done", "failed"} /\ pc'[r] # "failed"
    BY <1>6 DEF StepsFrom
  <2>2. StepsFrom[pc'[r]] \in Nat /\ StepsFrom[pc[r]] \in Nat
    BY <1>6 DEF StepsFrom
  <2> HIDE DEF StepsFrom
  <2>3. left(pc'[r], k[r]) < left(pc[r], k[r])
    BY <1>0, <1>6, <2>2
  <2> QED
    BY <1>2, <1>4, <1>6, <2>1, <2>3
<1>7. CASE After(r) \/ BareReturns(r)
  <2>1. /\ pc[r] \in {"call", "bare"} /\ k'[r] = k[r] + 1
        /\ pc'[r] = "app" \/ (pc'[r] = "sync1" /\ Current(r) = "MPI_Init")
    BY <1>0, <1>7 DEF After, BareReturns, Goto
  <2>2. pc'[r] = "sync1" => k[r] = 0
    BY <1>0, <2>1, CallEntered
  <2>3. left(pc[r], k[r]) = 9 + 2 * (Len(CallsOf(r)) - k[r]) + IF k[r] = 0 THEN 5 ELSE 0
    BY <2>1 DEF StepsFrom
  <2>4. left(pc'[r], k'[r]) = (IF pc'[r] = "app" THEN 10 ELSE 15) + 2 * (Len(CallsOf(r)) - (k[r] + 1))
    <3>1. StepsFrom[pc'[r]] = IF pc'[r] = "app" THEN 10 ELSE 15
      BY <2>1 DEF StepsFrom
    <3>2. k[r] + 1 # 0 /\ k[r] + 1 \in Nat
      BY <1>0
    <3> HIDE DEF StepsFrom
    <3> QED
      BY <1>0, <2>1, <3>1, <3>2
  <2>5. left(pc'[r], k'[r]) < left(pc[r], k[r])
    BY <1>0, <2>1, <2>2, <2>3, <2>4
  <2> QED
    BY <1>2, <1>4, <2>1, <2>5
<1>8. CASE Before(r) \/ BareCall(r) \/ Metadata(r) \/ Finalize(r)
  <2>1. /\ k'[r] = k[r]
        /\ \/ pc[r] = "app" /\ pc'[r] \in {"call", "bare", "sync3"}
           \/ pc[r] = "metadata" /\ pc'[r] = "app"
    BY <1>0, <1>8 DEF Before, BareCall, Metadata, Finalize, Goto
  <2> QED
    BY <1>6, <2>1 DEF StepsFrom
<1>9. CASE EnterTool(r) \/ Synced(r)
  <2>1. /\ k'[r] = k[r]
        /\ \/ \E p \in ToolPlaces : pc[r] = p /\ pc'[r] = Inside[p]
           \/ pc[r] = "in_sync1" /\ pc'[r] = "sync2"
           \/ pc[r] = "in_sync2" /\ pc'[r] = "metadata"
           \/ pc[r] = "in_sync3" /\ pc'[r] = "fill"
    BY <1>0, <1>9 DEF EnterTool, Synced, Inside, Goto
  <2> QED
    BY <1>6, <2>1 DEF StepsFrom, ToolPlaces, Inside
<1>10. CASE \/ FillReport(r) \/ Gathered(r) \/ Gatheredv(r) \/ GatheredvAstray(r)
            \/ Write(r) \/ WriteFails(r) \/ PmpiFinalize(r)
  <2>1. /\ k'[r] = k[r]
        /\ \/ pc[r] = "fill" /\ pc'[r] = "gather"
           \/ pc[r] = "in_gather" /\ pc'[r] = "gatherv"
           \/ pc[r] = "in_gatherv" /\ pc'[r] \in {"write", "finalize"}
           \/ pc[r] = "write" /\ pc'[r] = "finalize"
           \/ pc[r] = "finalize" /\ pc'[r] = "done"
    BY <1>0, <1>10 DEF FillReport, Gathered, Gatheredv, GatheredvAstray, Write, WriteFails,
                       PmpiFinalize, Inside, Goto
  <2> QED
    BY <1>6, <2>1 DEF StepsFrom
<1>11. CASE Abort(r) \/ Crash(r) \/ SampleFails(r) \/ MetadataFails(r) \/ NoOutputPath(r)
  <2>1. pc'[r] = "failed" /\ pc[r] \notin {"done", "failed"}
    BY <1>0, <1>11 DEF Abort, Crash, SampleFails, MetadataFails, NoOutputPath, Inside, Goto
  <2> QED
    BY <1>5, <2>1
<1> QED
  BY <1>7, <1>8, <1>9, <1>10, <1>11 DEF Step, Fault

(* Whatever fails, a job under the tracing library makes only so many      *)
(* steps: each is one less for the rank that takes it, and none more for   *)
(* any other, for any number of ranks and calls.                           *)
THEOREM TracedRunsOut == Spec => StepsRunOut
<1>1. CourseInv => \A r \in Rank : StepsLeft(r) >= 0
  BY LeftByPlace DEF CourseInv, ChargeInv, AllTyped
<1>2. ASSUME CourseInv, (\A r \in Rank : StepsLeft(r) >= 0)', [Next]_vars
      PROVE  [\E r \in Rank :
                /\ StepsLeft(r)' < StepsLeft(r) /\ StepsLeft(r)' >= 0
                /\ \A s \in Rank \ {r} : StepsLeft(s)' \in {StepsLeft(s), 0}]_vars
  <2>1. CASE Next
    BY <1>2, <2>1, StepLess DEF Next
  <2> QED
    BY <1>2, <2>1
<1> QED
  BY <1>1, <1>2, InitCourse, NextCourse, PTL DEF Spec, StepsRunOut

-----------------------------------------------------------------------------
(* What memnesia-report makes of the report.                               *)

(* Numbers that grow are told apart by how many of them are no greater.    *)
LEMMA GrowingCounted ==
  ASSUME NEW n \in Nat, NEW at \in [1..n -> Int],
         \A i, j \in 1..n : i < j => at[i] < at[j]
  PROVE  /\ Cardinality({at[i] : i \in 1..n}) = n
         /\ \A i \in 1..n : Cardinality({q \in {at[j] : j \in 1..n} : q <= at[i]}) = i
<1> DEFINE T(m) == {at[i] : i \in 1..m}
<1>1. ASSUME NEW m \in 0..n PROVE Cardinality(T(m)) = m
  <2> DEFINE f == [i \in 1..m |-> at[i]]
  <2>1. \A i \in 1..m : i \in 1..n
    OBVIOUS
  <2>2. f \in Bijection(1..m, T(m))
    <3>1. f \in [1..m -> T(m)]
      OBVIOUS
    <3>2. \A i, j \in 1..m : f[i] = f[j] => i = j
      <4> SUFFICES ASSUME NEW i \in 1..m, NEW j \in 1..m, f[i] = f[j] PROVE i = j
        OBVIOUS
      <4>1. at[i] = at[j] /\ at[i] \in Int /\ i \in 1..n /\ j \in 1..n
        BY <2>1
      <4>2. ~(i < j) /\ ~(j < i)
        BY <4>1
      <4> QED
        BY <4>2
    <3>3. \A v \in T(m) : \E i \in 1..m : f[i] = v
      OBVIOUS
    <3> QED
      BY <3>1, <3>2, <3>3 DEF Bijection, Injection, Surjection, IsInjective
  <2>3. m \in Nat /\ IsFiniteSet(1..m) /\ Cardinality(1..m) = m
    <3>1. m \in Nat
      OBVIOUS
    <3> QED
      BY <3>1, FS_Interval
  <2>4. ExistsBijection(1..m, T(m))
    BY <2>2 DEF ExistsBijection
  <2> HIDE DEF T, f
  <2> QED
    BY <2>3, <2>4, FS_Bijection
<1>2. Cardinality(T(n)) = n
  <2>1. n \in 0..n
    OBVIOUS
  <2> HIDE DEF T
  <2> QED
    BY <1>1, <2>1
<1>3. ASSUME NEW i \in 1..n PROVE Cardinality({q \in T(n) : q <= at[i]}) = i
  <2>1. \A j \in 1..n : at[j] <= at[i] <=> j <= i
    <3> SUFFICES ASSUME NEW j \in 1..n PROVE at[j] <= at[i] <=> j <= i
      OBVIOUS
    <3>1. (j < i => at[j] < at[i]) /\ (i < j => at[i] < at[j]) /\ at[i] \in Int /\ at[j] \in Int
      OBVIOUS
    <3> QED
      BY <3>1
  <2>2. {q \in T(n) : q <= at[i]} = T(i)
    BY <2>1
  <2>3. i \in 0..n
    OBVIOUS
  <2> HIDE DEF T
  <2> QED
    BY <1>1, <2>2, <2>3
<1> QED
  BY <1>2, <1>3

(* The index of the least of a sequence of numbers, from 0.                *)
LEMMA LeastIndex ==
  ASSUME NEW n \in Nat \ {0}, NEW f \in [1..n -> Int]
  PROVE  /\ minidx(f) \in 0..(n - 1)
         /\ \A j \in 1..n : f[minidx(f) + 1] <= f[j]
<1> DEFINE Has(m) == \E i \in 1..m : \A j \in 1..m : f[i] <= f[j]
           S == {m \in Nat : m < n => Has(m + 1)}
<1>1. 0 \in S
  <2>1. 1..(0 + 1) = {1} /\ f[1] \in Int
    OBVIOUS
  <2> QED
    BY <2>1
<1>2. ASSUME NEW m \in Nat, m \in S PROVE m + 1 \in S
  <2> SUFFICES ASSUME m + 1 < n PROVE Has((m + 1) + 1)
    OBVIOUS
  <2> DEFINE l == (m + 1) + 1
  <2>1. PICK i \in 1..(m + 1) : \A j \in 1..(m + 1) : f[i] <= f[j]
    BY <1>2
  <2>2. /\ l \in 1..n /\ 1..l = (1..(m + 1)) \union {l} /\ i \in 1..n /\ i \in 1..l
        /\ \A j \in 1..(m + 1) : j \in 1..n
    OBVIOUS
  <2>3. f[l] \in Int /\ f[i] \in Int /\ \A j \in 1..(m + 1) : f[j] \in Int
    BY <2>2
  <2> HIDE DEF l
  <2>4. CASE f[i] <= f[l]
    BY <2>1, <2>2, <2>4 DEF l
  <2>5. CASE f[l] < f[i]
    <3>1. ASSUME NEW j \in 1..l PROVE f[l] <= f[j]
      <4>1. CASE j = l
        BY <2>3, <4>1
      <4>2. CASE j \in 1..(m + 1)
        <5>1. f[i] <= f[j] /\ f[j] \in Int
          BY <2>1, <2>3, <4>2
        <5> QED
          BY <2>3, <2>5, <5>1
      <4> QED
        BY <2>2, <4>1, <4>2
    <3>2. l \in 1..l
      BY <2>2
    <3> QED
      BY <3>1, <3>2 DEF l
  <2> QED
    BY <2>3, <2>4, <2>5
<1>3. Has(n)
  <2> HIDE DEF Has
  <2> HIDE DEF S
  <2>1. Nat \subseteq S
    BY <1>1, <1>2, Induction
  <2>2. n - 1 \in Nat /\ n - 1 < n /\ (n - 1) + 1 = n
    OBVIOUS
  <2> QED
    BY <2>1, <2>2 DEF S
<1> DEFINE Least == {i \in 1..n : \A j \in 1..n : f[i] <= f[j]}
<1>4. PICK x \in Least : \A y \in Least : x <= y
  <2>1. Least \in SUBSET Nat /\ Least # {}
    BY <1>3
  <2> QED
    BY <2>1, LeastExists
<1>5. x \in 1..n /\ \A j \in 1..n : f[x] <= f[j]
  BY <1>4
<1>6. ASSUME NEW j \in 1..(x - 1) PROVE f[x] < f[j]
  <2>1. j \in 1..n /\ j < x /\ j \notin Least
    BY <1>4, <1>5
  <2>2. PICK h \in 1..n : ~(f[j] <= f[h])
    BY <2>1
  <2> QED
    BY <1>5, <2>1, <2>2
<1> DEFINE c == CHOOSE i \in 1..n : /\ \A j \in 1..n : f[i] <= f[j]
                                    /\ \A j \in 1..(i - 1) : f[i] < f[j]
<1>7. c \in 1..n /\ \A j \in 1..n : f[c] <= f[j]
  BY <1>5, <1>6
<1>8. minidx(f) = c - 1
  BY DEF minidx
<1> HIDE DEF c
<1> QED
  BY <1>7, <1>8

(* After the run information come the lines of MPI, then those of all.     *)
Lined(t, r) ==
  /\ Len(t) = (1 + Len(mpi[r])) + Len(all[r])
  /\ \A n \in 1..Len(mpi[r]) : t[1 + n] = <<"MPI_MEM_USAGE", MpiTimes(r)[n], Totals(mpi[r])[n]>>
  /\ \A n \in 1..Len(all[r]) :
       t[(1 + Len(mpi[r])) + n] = <<"ALL_MEM_USAGE", AllTimes(r)[n], all[r][n]>>

(* A text begins with its run information, and no other line is one.       *)
LEMMA TextHasOneInfo ==
  ASSUME MemoryTypes, NEW r \in Rank
  PROVE  /\ Len(Text(r)) \in Nat /\ Len(Text(r)) >= 1
         /\ Text(r)[1] = <<"RUN", rank[r], numpe[r], Len(all[r]), High(Totals(mpi[r])), High(all[r])>>
         /\ IsRunInfo(Text(r)[1])
         /\ \A i \in 2..Len(Text(r)) : ~IsRunInfo(Text(r)[i])
         /\ Lined(Text(r), r)
<1> DEFINE head == <<"RUN", rank[r], numpe[r], Len(all[r]), High(Totals(mpi[r])), High(all[r])>>
           a == TextLines("MPI_MEM_USAGE", MpiTimes(r), Totals(mpi[r]))
           b == TextLines("ALL_MEM_USAGE", AllTimes(r), all[r])
           S == {head} \union {a[n] : n \in 1..Len(Totals(mpi[r]))} \union {b[n] : n \in 1..Len(all[r])}
<1>1. Len(Totals(mpi[r])) \in Nat /\ Len(all[r]) \in Nat
  BY TotalsType DEF MemoryTypes
<1>2. /\ a \in Seq(S) /\ Len(a) = Len(Totals(mpi[r]))
      /\ \A n \in 1..Len(a) : /\ a[n][1] = "MPI_MEM_USAGE"
                              /\ a[n] = <<"MPI_MEM_USAGE", MpiTimes(r)[n], Totals(mpi[r])[n]>>
  <2>1. /\ a = [n \in 1..Len(Totals(mpi[r])) |-> a[n]]
        /\ \A n \in 1..Len(Totals(mpi[r])) :
             /\ a[n][1] = "MPI_MEM_USAGE"
             /\ a[n] = <<"MPI_MEM_USAGE", MpiTimes(r)[n], Totals(mpi[r])[n]>>
    BY DEF TextLines
  <2>2. \A n \in 1..Len(Totals(mpi[r])) : a[n] \in S
    OBVIOUS
  <2> HIDE DEF a, S
  <2>3. a \in Seq(S) /\ Len(a) = Len(Totals(mpi[r]))
    BY <1>1, <2>1, <2>2
  <2> QED
    BY <2>1, <2>3
<1>3. /\ b \in Seq(S) /\ Len(b) = Len(all[r])
      /\ \A n \in 1..Len(b) : /\ b[n][1] = "ALL_MEM_USAGE"
                              /\ b[n] = <<"ALL_MEM_USAGE", AllTimes(r)[n], all[r][n]>>
  <2>1. /\ b = [n \in 1..Len(all[r]) |-> b[n]]
        /\ \A n \in 1..Len(all[r]) :
             /\ b[n][1] = "ALL_MEM_USAGE"
             /\ b[n] = <<"ALL_MEM_USAGE", AllTimes(r)[n], all[r][n]>>
    BY DEF TextLines
  <2>2. \A n \in 1..Len(all[r]) : b[n] \in S
    OBVIOUS
  <2> HIDE DEF b, S
  <2>3. b \in Seq(S) /\ Len(b) = Len(all[r])
    BY <1>1, <2>1, <2>2
  <2> QED
    BY <2>1, <2>3
<1>4. head \in S /\ head[1] = "RUN"
  OBVIOUS
<1>5. Text(r) = (<<head>> \o a) \o b
  BY DEF Text
<1> DEFINE c == <<head>> \o a
           t == c \o b
<1> HIDE DEF a, b, S, c, t
<1>6. <<head>> \in Seq(S) /\ Len(<<head>>) = 1 /\ <<head>>[1] = head
  <2> HIDE DEF head
  <2> QED
    BY <1>4
<1> HIDE DEF head
<1>7. /\ c \in Seq(S) /\ Len(c) = 1 + Len(a) /\ Len(a) \in Nat /\ c[1] = head
      /\ \A i \in 1..Len(a) : c[1 + i] = a[i]
  <2>1. c = <<head>> \o a
    BY DEF c
  <2> DEFINE h == <<head>>
  <2>2. h \in Seq(S) /\ Len(h) = 1 /\ h[1] = head /\ c = h \o a /\ a \in Seq(S)
    BY <1>2, <1>6, <2>1
  <2> HIDE DEF h
  <2>3. /\ Len(c) = Len(h) + Len(a) /\ Len(h) \in Nat /\ Len(a) \in Nat
        /\ \A i \in 1..Len(h) : c[i] = h[i]
        /\ \A i \in 1..Len(a) : c[Len(h) + i] = a[i]
    <3>1. h \in Seq(S) /\ a \in Seq(S) /\ c = h \o a
      BY <2>2
    <3> QED
      BY ONLY <3>1, ConcatIs
  <2>4. c \in Seq(S)
    BY <2>2
  <2> QED
    BY <2>2, <2>3, <2>4
<1>8. /\ Len(t) = Len(c) + Len(b) /\ Len(c) \in Nat /\ Len(b) \in Nat
      /\ \A i \in 1..Len(c) : t[i] = c[i]
      /\ \A i \in 1..Len(b) : t[Len(c) + i] = b[i]
  <2>1. c \in Seq(S) /\ b \in Seq(S) /\ t = c \o b
    BY <1>3, <1>7 DEF t
  <2> QED
    BY ONLY <2>1, ConcatIs
<1>9. Len(t) \in Nat /\ Len(t) >= 1 /\ t[1] = head
  BY <1>7, <1>8
<1>10. ASSUME NEW i \in 2..Len(t) PROVE t[i][1] \in {"MPI_MEM_USAGE", "ALL_MEM_USAGE"}
  <2>1. CASE i <= Len(c)
    <3> DEFINE j == i - 1
    <3>1. j \in 1..Len(a) /\ i = 1 + j /\ i \in 1..Len(c)
      BY <1>7, <2>1
    <3> HIDE DEF j
    <3>2. t[i] = c[i] /\ c[1 + j] = a[j]
      BY <1>7, <1>8, <3>1
    <3>3. t[i] = a[j] /\ a[j][1] = "MPI_MEM_USAGE"
      BY <1>2, <3>1, <3>2
    <3> QED
      BY <3>3
  <2>2. CASE Len(c) < i
    <3> DEFINE j == i - Len(c)
    <3>1. j \in 1..Len(b) /\ i = Len(c) + j
      BY <1>8, <2>2
    <3> HIDE DEF j
    <3>2. t[i] = b[j] /\ b[j][1] = "ALL_MEM_USAGE"
      BY <1>3, <1>8, <3>1
    <3> QED
      BY <3>2
  <2> QED
    BY <1>8, <1>9, <2>1, <2>2
<1>11. Text(r) = t
  BY <1>5 DEF t, c
<1>12. \A i \in 2..Len(t) : t[i][1] # "RUN"
  BY <1>10
<1>13. head[1] = "RUN"
  BY <1>4
<1>14. t[1] = <<"RUN", rank[r], numpe[r], Len(all[r]), High(Totals(mpi[r])), High(all[r])>>
  BY <1>9 DEF head
<1>15. Lined(t, r)
  <2>1. Len(a) = Len(mpi[r]) /\ Len(b) = Len(all[r]) /\ Len(c) = 1 + Len(mpi[r])
    BY <1>2, <1>3, <1>7, TotalsType DEF MemoryTypes
  <2>2. Len(t) = (1 + Len(mpi[r])) + Len(all[r])
    BY <1>8, <2>1
  <2>3. ASSUME NEW n \in 1..Len(mpi[r])
        PROVE  t[1 + n] = <<"MPI_MEM_USAGE", MpiTimes(r)[n], Totals(mpi[r])[n]>>
    <3>1. n \in 1..Len(a) /\ 1 + n \in 1..Len(c)
      BY <1>7, <2>1
    <3>2. t[1 + n] = a[n]
      BY <1>7, <1>8, <3>1
    <3> QED
      BY <1>2, <3>1, <3>2
  <2>4. ASSUME NEW n \in 1..Len(all[r])
        PROVE  t[(1 + Len(mpi[r])) + n] = <<"ALL_MEM_USAGE", AllTimes(r)[n], all[r][n]>>
    <3>1. n \in 1..Len(b) /\ t[Len(c) + n] = b[n]
      BY <1>8, <2>1
    <3> QED
      BY <1>3, <2>1, <3>1
  <2> QED
    BY <2>2, <2>3, <2>4 DEF Lined
<1> QED
  BY <1>9, <1>11, <1>12, <1>13, <1>14, <1>15 DEF IsRunInfo

(* The run information of the whole is that of the ranks, in their order.  *)
LEMMA InfoByRank ==
  ASSUME TextsAreTexts,
         \A s \in Rank : /\ Len(text[s]) \in Nat /\ Len(text[s]) >= 1
                         /\ IsRunInfo(text[s][1])
                         /\ \A i \in 2..Len(text[s]) : ~IsRunInfo(text[s][i])
  PROVE  /\ run_meta(Report!InOrder) = [i \in 1..N |-> text[i - 1][1]]
         /\ Cardinality(meta_lines(Report!InOrder)) = N
         /\ \A i \in 1..N : meta_line(Report!InOrder, i) = Len(Joined[i - 1]) + 1
<1> DEFINE J == Joined[N]
           at == [i \in 1..N |-> Len(Joined[i - 1]) + 1]
<1>1. /\ J \in Seq(Lines) /\ Report!InOrder = J /\ N \in Nat
      /\ \A n \in 0..N : Upto(n) /\ Len(Joined[n]) \in Nat
  <2>1. N \in 0..N
    BY NAssumption
  <2> QED
    BY <2>1, NAssumption, JoinedDef, JoinedUpto
<1>2. ASSUME NEW i \in 1..N
      PROVE  /\ i - 1 \in Rank /\ i - 1 < N /\ i - 1 \in 0..N /\ at[i] = Len(Joined[i - 1]) + 1
             /\ at[i] \in Int
  <2>1. i - 1 \in Rank /\ i - 1 < N /\ i - 1 \in 0..N
    BY <1>1 DEF Rank
  <2>2. Len(Joined[i - 1]) \in Nat
    BY <1>1, <2>1
  <2> QED
    BY <2>1, <2>2
<1>3. \A s \in Rank : s + 1 \in 1..N /\ (s + 1) - 1 = s /\ s < N /\ s \in 0..N
  BY <1>1 DEF Rank
<1>4. ASSUME NEW i \in 1..N, NEW j \in 1..N, i < j PROVE at[i] < at[j]
  <2>1. Upto(j - 1) /\ i - 1 < j - 1
    BY <1>1, <1>2, <1>4
  <2>2. 1 \in 1..Len(text[i - 1])
    BY <1>2
  <2>3. Len(Joined[i - 1]) + 1 \in 1..Len(Joined[j - 1])
    BY <1>2, <2>1, <2>2 DEF Upto
  <2> QED
    BY <1>1, <1>2, <2>3
<1>5. ASSUME NEW s \in Rank, NEW m \in 1..Len(text[s])
      PROVE  Len(Joined[s]) + m \in 1..Len(J) /\ J[Len(Joined[s]) + m] = text[s][m]
  <2>1. Upto(N) /\ s < N
    BY <1>1, <1>3
  <2> QED
    BY <2>1 DEF Upto
<1>6. meta_lines(J) = {at[i] : i \in 1..N}
  <2>1. meta_lines(J) = {p \in 1..Len(J) : IsRunInfo(J[p])}
    <3>1. DOMAIN J = 1..Len(J)
      BY <1>1
    <3> HIDE DEF J
    <3> QED
      BY <3>1 DEF meta_lines
  <2> HIDE DEF J
  <2>2. ASSUME NEW i \in 1..N PROVE at[i] \in meta_lines(J)
    <3>1. 1 \in 1..Len(text[i - 1])
      BY <1>2
    <3>2. Len(Joined[i - 1]) + 1 \in 1..Len(J) /\ J[Len(Joined[i - 1]) + 1] = text[i - 1][1]
      BY <1>2, <1>5, <3>1
    <3>3. IsRunInfo(text[i - 1][1])
      BY <1>2
    <3> QED
      BY <1>2, <2>1, <3>2, <3>3
  <2>3. ASSUME NEW p \in meta_lines(J) PROVE \E i \in 1..N : p = at[i]
    <3>1. p \in 1..Len(J) /\ IsRunInfo(J[p]) /\ Len(J) \in Nat
      BY <1>1, <2>1
    <3>2. Upto(N)
      BY <1>1
    <3>3. PICK s \in Rank : p - Len(Joined[s]) \in 1..Len(text[s])
      BY <3>1, <3>2 DEF Upto, J
    <3> DEFINE m == p - Len(Joined[s])
    <3>4. m \in 1..Len(text[s]) /\ Len(Joined[s]) + m = p
      <4>1. Len(Joined[s]) \in Nat
        BY <1>1, <1>3
      <4> QED
        BY <3>1, <3>3, <4>1
    <3> HIDE DEF m
    <3>5. J[p] = text[s][m]
      BY <1>5, <3>4
    <3>6. m = 1
      <4>1. ASSUME m # 1 PROVE FALSE
        <5>1. m \in 2..Len(text[s])
          BY <3>4, <4>1
        <5>2. ~IsRunInfo(text[s][m])
          BY <5>1
        <5>3. IsRunInfo(text[s][m])
          BY <3>1, <3>5
        <5> QED
          BY <5>2, <5>3
      <4> QED
        BY <4>1
    <3>7. p = at[s + 1]
      BY <1>2, <1>3, <3>4, <3>6
    <3> QED
      BY <1>3, <3>7
  <2> HIDE DEF at
  <2> QED
    BY <2>2, <2>3
<1>7. at \in [1..N -> Int]
  BY <1>2
<1> HIDE DEF at, J
<1>8. Cardinality(meta_lines(J)) = N
  BY <1>1, <1>4, <1>6, <1>7, GrowingCounted
<1>9. ASSUME NEW i \in 1..N
      PROVE  J[meta_line(J, i)] = text[i - 1][1] /\ meta_line(J, i) = Len(Joined[i - 1]) + 1
  <2> DEFINE S == meta_lines(J)
             count(p) == Cardinality({q \in S : q <= p})
  <2>1. S = {at[j] : j \in 1..N}
    BY <1>6
  <2>2. \A j \in 1..N : count(at[j]) = j
    <3>1. N \in Nat /\ at \in [1..N -> Int] /\ \A j, m \in 1..N : j < m => at[j] < at[m]
      BY <1>1, <1>4, <1>7
    <3>2. \A j \in 1..N : Cardinality({q \in {at[m] : m \in 1..N} : q <= at[j]}) = j
      BY ONLY <3>1, GrowingCounted
    <3> HIDE DEF S
    <3> QED
      BY <2>1, <3>2
  <2>3. meta_line(J, i) = at[i]
    <3>1. meta_line(J, i) = CHOOSE p \in S : count(p) = i
      BY DEF meta_line
    <3> HIDE DEF S, count
    <3>2. at[i] \in S /\ count(at[i]) = i /\ \A p \in S : count(p) = i => p = at[i]
      BY <2>1, <2>2
    <3> QED
      BY <3>1, <3>2
  <2>4. 1 \in 1..Len(text[i - 1])
    BY <1>2
  <2>5. J[Len(Joined[i - 1]) + 1] = text[i - 1][1]
    BY <1>2, <1>5, <2>4
  <2> QED
    BY <1>2, <2>3, <2>5
<1>10. run_meta(J) = [i \in 1..N |-> J[meta_line(J, i)]]
  BY <1>8 DEF run_meta
<1>11. run_meta(J) = [i \in 1..N |-> text[i - 1][1]]
  BY <1>9, <1>10
<1> QED
  BY <1>1, <1>8, <1>9, <1>11

(* What a text says of a rank stays true, and the report is that of all    *)
(* ranks, where they know who they are.                                    *)
TextsAreOwn == \A r \in Rank : text[r] # << >> => text[r] = Text(r)

WrittenWhole == file.writers # {} => (Report!Complete /\ file.content = Report!InOrder)

WrittenInv ==
  /\ ReportInv
  /\ TextsAreOwn
  /\ program.init = "MPI_Init" => WrittenWhole

LEMMA InitWritten == Init => WrittenInv
<1> SUFFICES ASSUME Init PROVE WrittenInv
  OBVIOUS
<1>1. ReportInv
  BY InitReport
<1>2. TextsAreOwn
  BY DEF Init, TextsAreOwn
<1>3. WrittenWhole
  BY DEF Init, WrittenWhole
<1> QED
  BY <1>1, <1>2, <1>3 DEF WrittenInv

(* A rank that has its text takes no more samples.                         *)
LEMMA StepSamples ==
  ASSUME ControlTypes, MemoryTypes, NEW r \in Rank, Step(r) \/ Fault(r)
  PROVE  /\ \A s \in Rank : s # r => all'[s] = all[s] /\ mpi'[s] = mpi[s]
         /\ pc[r] \in Filled \union {"fill", "failed"} => all' = all /\ mpi' = mpi
<1>1. (all' = all /\ mpi' = mpi) \/ After(r)
  BY DEF Step, Fault, Before, BareCall, BareReturns, EnterTool, Synced, Metadata, Abort,
         Finalize, FillReport, Gathered, Gatheredv, Crash, GatheredvAstray, Write, PmpiFinalize,
         SampleFails, MetadataFails, WriteFails, NoOutputPath, data
<1>2. ASSUME After(r)
      PROVE  /\ \A s \in Rank : s # r => all'[s] = all[s] /\ mpi'[s] = mpi[s]
             /\ pc[r] = "call"
  <2>1. /\ \E v : all' = [all EXCEPT ![r] = v]
        /\ \E v : mpi' = [mpi EXCEPT ![r] = v]
        /\ pc[r] = "call"
    BY <1>2 DEF After
  <2> QED
    BY <2>1 DEF MemoryTypes
<1> QED
  BY <1>1, <1>2 DEF Filled

LEMMA StepTextsOwn ==
  ASSUME ReportInv, TextsAreOwn, NEW r \in Rank, Step(r) \/ Fault(r)
  PROVE  TextsAreOwn'
<1>1. ControlTypes /\ MemoryTypes /\ ReportTypes /\ program' = program
  BY StepPlaces DEF ReportInv, CourseInv, ChargeInv, AllTyped
<1> SUFFICES ASSUME NEW s \in Rank, text'[s] # << >> PROVE text'[s] = Text(s)'
  BY DEF TextsAreOwn
<1>2. ASSUME UNCHANGED <<rank[s], numpe[s], all[s], mpi[s]>> PROVE Text(s)' = Text(s)
  BY <1>1, <1>2 DEF Text, MpiTimes, AllTimes
<1>3. CASE s = r
  <2>1. CASE FillReport(r)
    <3>1. UNCHANGED <<rank, numpe, all, mpi>> /\ text' = [text EXCEPT ![r] = Text(r)]
      BY <2>1 DEF FillReport, data, ident
    <3> QED
      BY <1>1, <1>2, <1>3, <3>1 DEF ReportTypes
  <2>2. CASE ~FillReport(r)
    <3>1. text' = text
      BY <1>1, <2>2, StepFilled
    <3>2. text[r] # << >> /\ pc[r] \in Filled \union {"failed"}
      BY <1>3, <3>1 DEF ReportInv, Contributed
    <3>3. all' = all /\ mpi' = mpi
      BY <1>1, <3>2, StepSamples
    <3>4. UNCHANGED ident
      BY <1>1, <3>2, StepFilled DEF Metadata, Filled
    <3>5. Text(r)' = Text(r)
      BY <1>2, <1>3, <3>3, <3>4 DEF ident
    <3> QED
      BY <1>3, <3>1, <3>2, <3>5 DEF TextsAreOwn
  <2> QED
    BY <2>1, <2>2
<1>4. CASE s # r
  <2>1. text'[s] = text[s] /\ rank'[s] = rank[s] /\ numpe'[s] = numpe[s]
    <3>1. text'[s] = text[s]
      BY <1>1, <1>4, StepFilled DEF FillReport, ReportTypes
    <3>2. UNCHANGED ident \/ Metadata(r)
      BY <1>1, StepFilled
    <3>3. rank'[s] = rank[s] /\ numpe'[s] = numpe[s]
      BY <1>1, <1>4, <3>2 DEF Metadata, ident, ReportTypes
    <3> QED
      BY <3>1, <3>3
  <2>2. all'[s] = all[s] /\ mpi'[s] = mpi[s]
    BY <1>1, <1>4, StepSamples
  <2>3. Text(s)' = Text(s)
    BY <1>2, <2>1, <2>2
  <2> QED
    BY <2>1, <2>3 DEF TextsAreOwn
<1> QED
  BY <1>3, <1>4

LEMMA StepWhole ==
  ASSUME ReportInv, WrittenWhole, program.init = "MPI_Init",
         NEW r \in Rank, Step(r) \/ Fault(r), file'.writers # {}
  PROVE  Report!Complete' /\ file'.content = Report!InOrder'
<1>1. ControlTypes /\ OnlyRoot
  BY DEF ReportInv, CourseInv, ChargeInv, AllTyped
<1>2. Report!Complete /\ file'.content = Report!InOrder
  <2>1. CASE Write(r)
    <3>1. pc[r] = "write" /\ file'.content = report[r]
      BY <2>1 DEF Write
    <3>2. r = 0 /\ Report!Complete /\ report[0] = Report!InOrder
      BY <1>1, <3>1 DEF OnlyRoot
    <3> QED
      BY <3>1, <3>2
  <2>2. CASE file' = file
    BY <2>2 DEF WrittenWhole
  <2> QED
    BY <1>1, <2>1, <2>2, StepWrites
<1>3. text' = text
  BY <1>2, TextsStay
<1>4. Report!InOrder' = Report!InOrder
  BY <1>3 DEF Report!InOrder
<1> QED
  BY <1>2, <1>3, <1>4 DEF Report!Complete, Report!Rank

LEMMA NextWritten ==
  ASSUME WrittenInv, [Next]_vars
  PROVE  WrittenInv'
<1>1. ReportInv'
  BY NextReport DEF WrittenInv
<1>2. CASE UNCHANGED vars
  <2>1. UNCHANGED <<program, all, mpi, rank, numpe, text, file>>
    BY <1>2 DEF vars, data, ident, out
  <2>2. TextsAreOwn'
    BY <2>1 DEF WrittenInv, TextsAreOwn, Text, MpiTimes, AllTimes
  <2>3. WrittenWhole => WrittenWhole'
    BY <2>1 DEF WrittenWhole, Report!Complete, Report!InOrder
  <2> QED
    BY <1>1, <2>1, <2>2, <2>3 DEF WrittenInv
<1>3. CASE Next
  <2>1. PICK r \in Rank : Step(r) \/ Fault(r)
    BY <1>3 DEF Next
  <2>2. ReportInv /\ TextsAreOwn /\ program' = program
    BY <2>1, StepPlaces DEF WrittenInv, ReportInv, CourseInv, ChargeInv, AllTyped
  <2>3. TextsAreOwn'
    BY <2>1, <2>2, StepTextsOwn
  <2>4. program.init = "MPI_Init" => WrittenWhole'
    BY <2>1, <2>2, StepWhole DEF WrittenInv, WrittenWhole
  <2> QED
    BY <1>1, <2>2, <2>3, <2>4 DEF WrittenInv
<1> QED
  BY <1>2, <1>3

-----------------------------------------------------------------------------
(* The script looks at a job that is over, and nothing moves any more.     *)
CrunchedInv ==
  /\ WrittenInv
  /\ HasResults => /\ JobOver /\ file.writers # {} /\ Readable(file.content)
                   /\ stats = Results(file.content)

LEMMA OverIsOver ==
  ASSUME JobOver
  PROVE  ~Next
<1> SUFFICES ASSUME NEW r \in Rank, Step(r) \/ Fault(r) PROVE FALSE
  BY DEF Next
<1>1. pc[r] \in {"done", "failed"}
  BY DEF JobOver
<1> QED
  BY <1>1 DEF Step, Fault, Before, After, Abort, BareCall, BareReturns, EnterTool, Synced, Metadata,
         Finalize, FillReport, Gathered, Gatheredv, Crash, GatheredvAstray, Write, PmpiFinalize,
         SampleFails, MetadataFails, WriteFails, NoOutputPath, ToolPlaces, Inside

LEMMA CrunchedStays ==
  ASSUME CrunchedInv, [RepNext]_repVars
  PROVE  CrunchedInv'
<1>1. WrittenInv'
  <2>1. [Next]_vars
    BY DEF RepNext, repVars, Crunch, Raise
  <2> QED
    BY <2>1, NextWritten DEF CrunchedInv
<1>2. CASE UNCHANGED <<vars, stats>>
  <2>1. UNCHANGED <<pc, file, stats>>
    BY <1>2 DEF vars, out
  <2> QED
    BY <1>1, <2>1 DEF CrunchedInv, HasResults, JobOver, Readable, Results
<1>3. CASE Next /\ UNCHANGED stats
  <2>1. ~HasResults /\ ~HasResults'
    BY <1>3, OverIsOver DEF CrunchedInv, HasResults
  <2> QED
    BY <1>1, <2>1 DEF CrunchedInv
<1>4. CASE Crunch
  <2>1. /\ UNCHANGED <<pc, file>> /\ stats' = Results(file.content)
        /\ JobOver /\ file.writers # {} /\ Readable(file.content)
    BY <1>4 DEF Crunch, vars, out
  <2> QED
    BY <1>1, <2>1 DEF CrunchedInv, JobOver, Readable, Results
<1>5. CASE Raise
  <2>1. ~HasResults'
    BY <1>5 DEF Raise, HasResults
  <2> QED
    BY <1>1, <2>1 DEF CrunchedInv
<1> QED
  BY <1>2, <1>3, <1>4, <1>5 DEF RepNext, repVars

(* A script that has results where MPI_Init was called has read all texts, *)
(* and they are the ranks'.                                                *)
LEMMA CrunchedWhole ==
  ASSUME CrunchedInv, HasResults, program.init = "MPI_Init"
  PROVE  /\ file.content = Report!InOrder
         /\ MemoryTypes /\ TextsAreTexts /\ \A r \in Rank : text[r] = Text(r) /\ text[r] # << >>
<1>1. WrittenInv /\ ReportInv /\ TextsAreOwn /\ file.writers # {}
  BY DEF CrunchedInv, WrittenInv
<1>2. Report!Complete /\ file.content = Report!InOrder
  BY <1>1 DEF WrittenInv, WrittenWhole
<1>3. \A r \in Rank : text[r] = Text(r) /\ text[r] # << >>
  BY <1>1, <1>2 DEF TextsAreOwn, Report!Complete, Report!Rank, Rank
<1>4. MemoryTypes
  BY <1>1 DEF ReportInv, CourseInv, ChargeInv, AllTyped
<1>5. TextsAreTexts
  <2>1. \A s \in Rank : IsSequence(text[s])
    BY <1>1 DEF ReportInv, Contributed
  <2> QED
    BY <2>1, SequencesAreTexts
<1> QED
  BY <1>2, <1>3, <1>4, <1>5

(* What the script counts and compares is what the ranks have.             *)
LEMMA ResultsAreOwn ==
  ASSUME CrunchedInv, HasResults, program.init = "MPI_Init"
  PROVE  /\ run_meta(file.content) = [i \in 1..N |-> text[i - 1][1]]
         /\ \A r \in Rank :
              text[r][1] = <<"RUN", rank[r], numpe[r], Len(all[r]), High(Totals(mpi[r])), High(all[r])>>
<1>1. ASSUME NEW s \in Rank
      PROVE  /\ Len(text[s]) \in Nat /\ Len(text[s]) >= 1
             /\ IsRunInfo(text[s][1])
             /\ \A i \in 2..Len(text[s]) : ~IsRunInfo(text[s][i])
             /\ text[s][1] = <<"RUN", rank[s], numpe[s], Len(all[s]), High(Totals(mpi[s])), High(all[s])>>
  BY CrunchedWhole, TextHasOneInfo
<1>2. run_meta(Report!InOrder) = [i \in 1..N |-> text[i - 1][1]]
  BY <1>1, CrunchedWhole, InfoByRank
<1> QED
  BY <1>1, <1>2, CrunchedWhole

(* The extremes of a number that each rank has, by the place it has in the *)
(* file, are those of the ranks.                                           *)
LEMMA ExtremesByRank ==
  ASSUME NEW own, \A r \in Rank : own[r] \in Int,
         NEW vals, vals = [i \in 1..N |-> own[i - 1]]
  PROVE  /\ minidx(vals) \in Rank /\ maxidx(vals) \in Rank
         /\ \A r \in Rank : own[minidx(vals)] <= own[r] /\ own[r] <= own[maxidx(vals)]
<1>1. /\ N \in Nat \ {0} /\ \A i \in 1..N : i - 1 \in Rank
      /\ \A r \in Rank : r + 1 \in 1..N /\ (r + 1) - 1 = r
      /\ Rank = 0..(N - 1)
  BY NAssumption DEF Rank
<1>2. vals \in [1..N -> Int] /\ \A r \in Rank : vals[r + 1] = own[r]
  BY <1>1
<1> DEFINE neg == [i \in DOMAIN vals |-> -vals[i]]
<1>3. neg \in [1..N -> Int] /\ \A i \in 1..N : neg[i] = -vals[i]
  <2>1. DOMAIN vals = 1..N
    BY <1>2
  <2>2. neg = [i \in 1..N |-> -vals[i]]
    BY <2>1
  <2>3. ASSUME NEW i \in 1..N PROVE -vals[i] \in Int
    <3>1. vals[i] \in Int
      BY <1>2
    <3>2. \A v \in Int : -v \in Int
      OBVIOUS
    <3> QED
      BY <3>1, <3>2
  <2> HIDE DEF neg
  <2> QED
    BY <2>2, <2>3
<1>4. minidx(vals) \in Rank /\ \A j \in 1..N : vals[minidx(vals) + 1] <= vals[j]
  BY <1>1, <1>2, LeastIndex
<1>5. maxidx(vals) = minidx(neg)
  BY DEF maxidx
<1> HIDE DEF neg
<1>6. maxidx(vals) \in Rank /\ \A j \in 1..N : neg[maxidx(vals) + 1] <= neg[j]
  BY <1>1, <1>3, <1>5, LeastIndex
<1>7. ASSUME NEW r \in Rank PROVE own[minidx(vals)] <= own[r]
  BY <1>1, <1>2, <1>4
<1>8. ASSUME NEW r \in Rank PROVE own[r] <= own[maxidx(vals)]
  <2> DEFINE m == maxidx(vals)
  <2>1. m \in Rank /\ m + 1 \in 1..N /\ r + 1 \in 1..N
    BY <1>1, <1>6
  <2> HIDE DEF m
  <2>2. neg[m + 1] <= neg[r + 1]
    BY <1>6, <2>1 DEF m
  <2>3. neg[m + 1] = -own[m] /\ neg[r + 1] = -own[r] /\ own[m] \in Int /\ own[r] \in Int
    BY <1>2, <1>3, <2>1
  <2>4. own[r] <= own[m]
    BY <2>2, <2>3
  <2> QED
    BY <2>4 DEF m
<1> QED
  BY <1>4, <1>6, <1>7, <1>8

(* The process memnesia-report names is one with the least, or the         *)
(* greatest, number of captures and watermarks, though it only knows the   *)
(* places of the texts in the file: for any number of ranks, and whatever  *)
(* they recorded.                                                          *)
THEOREM ReportNamesRanks == RepSpec => []WhoIsRank
<1>1. CrunchedInv => WhoIsRank
  <2> SUFFICES ASSUME CrunchedInv, HasResults, program.init = "MPI_Init"
               PROVE  LET own == [captures |-> [r \in Rank |-> Len(all[r])],
                                  mpi      |-> [r \in Rank |-> High(Totals(mpi[r]))],
                                  all      |-> [r \in Rank |-> High(all[r])]]
                      IN  \A c \in DOMAIN own :
                            /\ stats.min[c] \in Rank /\ stats.max[c] \in Rank
                            /\ \A r \in Rank : own[c][stats.min[c]] <= own[c][r]
                                               /\ own[c][r] <= own[c][stats.max[c]]
    BY DEF WhoIsRank
  <2> DEFINE own == [captures |-> [r \in Rank |-> Len(all[r])],
                     mpi      |-> [r \in Rank |-> High(Totals(mpi[r]))],
                     all      |-> [r \in Rank |-> High(all[r])]]
             meta == run_meta(file.content)
             vals(c) == [i \in DOMAIN meta |-> meta[i][Column[c]]]
             columns == {"captures", "mpi", "all"}
  <2>1. meta = [i \in 1..N |-> text[i - 1][1]]
    BY ResultsAreOwn
  <2>2. DOMAIN own = columns /\ DOMAIN Column = columns
    BY DEF Column
  <2>3. ASSUME NEW c \in columns
        PROVE  stats.min[c] = minidx(vals(c)) /\ stats.max[c] = maxidx(vals(c))
    <3>1. stats = Results(file.content)
      BY DEF CrunchedInv
    <3> HIDE DEF own
    <3>2. /\ Results(file.content).min = [d \in DOMAIN Column |-> minidx(vals(d))]
          /\ Results(file.content).max = [d \in DOMAIN Column |-> maxidx(vals(d))]
      BY DEF Results
    <3> HIDE DEF vals
    <3> QED
      BY <2>2, <3>1, <3>2
  <2>4. ASSUME NEW r \in Rank
        PROVE  Len(all[r]) \in Nat /\ High(Totals(mpi[r])) \in Nat /\ High(all[r]) \in Nat
    <3>1. all[r] \in Seq(Nat) /\ mpi[r] \in Seq(Int)
      BY DEF CrunchedInv, WrittenInv, ReportInv, CourseInv, ChargeInv, AllTyped, MemoryTypes
    <3>2. all[r] \in Seq(Int) /\ Len(all[r]) \in Nat
      BY <3>1
    <3>3. Totals(mpi[r]) \in Seq(Int)
      BY <3>1, TotalsType
    <3> QED
      BY <3>2, <3>3, HighIsHighest
  <2>5. ASSUME NEW c \in columns
        PROVE  vals(c) = [i \in 1..N |-> own[c][i - 1]] /\ \A r \in Rank : own[c][r] \in Int
    <3>1. \A i \in 1..N : i - 1 \in Rank
      BY NAssumption DEF Rank
    <3>2. vals(c) = [i \in 1..N |-> text[i - 1][1][Column[c]]]
      BY <2>1
    <3>3. ASSUME NEW r \in Rank
          PROVE  text[r][1][Column[c]] = own[c][r] /\ own[c][r] \in Int
      <4>1. text[r][1] = <<"RUN", rank[r], numpe[r], Len(all[r]), High(Totals(mpi[r])), High(all[r])>>
        BY ResultsAreOwn
      <4>2. /\ text[r][1][4] = Len(all[r]) /\ text[r][1][5] = High(Totals(mpi[r]))
            /\ text[r][1][6] = High(all[r])
        BY <4>1
      <4>3. CASE c = "captures"
        BY <2>4, <4>2, <4>3 DEF Column
      <4>4. CASE c = "mpi"
        BY <2>4, <4>2, <4>4 DEF Column
      <4>5. CASE c = "all"
        BY <2>4, <4>2, <4>5 DEF Column
      <4> QED
        BY <4>3, <4>4, <4>5
    <3> HIDE DEF own, vals, meta
    <3> QED
      BY <3>1, <3>2, <3>3
  <2> HIDE DEF vals, meta, own, columns
  <2>6. ASSUME NEW c \in columns
        PROVE  /\ stats.min[c] \in Rank /\ stats.max[c] \in Rank
               /\ \A r \in Rank : own[c][stats.min[c]] <= own[c][r]
                                  /\ own[c][r] <= own[c][stats.max[c]]
    <3> DEFINE v == vals(c)  o == own[c]
    <3>1. v = [i \in 1..N |-> o[i - 1]] /\ \A r \in Rank : o[r] \in Int
      BY <2>5
    <3> HIDE DEF v, o
    <3>2. /\ minidx(v) \in Rank /\ maxidx(v) \in Rank
          /\ \A r \in Rank : o[minidx(v)] <= o[r] /\ o[r] <= o[maxidx(v)]
      BY ONLY <3>1, ExtremesByRank
    <3>3. stats.min[c] = minidx(v) /\ stats.max[c] = maxidx(v)
      BY <2>3 DEF v
    <3> QED
      BY <3>2, <3>3 DEF o
  <2>7. \A c \in DOMAIN own :
          /\ stats.min[c] \in Rank /\ stats.max[c] \in Rank
          /\ \A r \in Rank : own[c][stats.min[c]] <= own[c][r]
                             /\ own[c][r] <= own[c][stats.max[c]]
    BY <2>2, <2>6
  <2> QED
    BY <2>7 DEF own
<1>2. RepInit => CrunchedInv
  BY InitWritten DEF RepInit, CrunchedInv, HasResults
<1>3. CrunchedInv /\ [RepNext]_repVars => CrunchedInv'
  BY CrunchedStays
<1> QED
  BY <1>1, <1>2, <1>3, PTL DEF RepSpec

-----------------------------------------------------------------------------
(* Totals of sequences of numbers.                                         *)

LEMMA TotalIs ==
  ASSUME NEW s \in Seq(Int)
  PROVE  Total(s) = Sum(s)[Len(s)] /\ Total(s) \in Int
<1>1. Len(s) \in Nat /\ Sum(s)[0] = 0 /\ \A n \in 0..Len(s) : Sum(s)[n] \in Int
  BY SumDef
<1>2. CASE s = << >>
  <2>1. Len(s) = 0 /\ Total(s) = 0
    BY <1>2 DEF Total
  <2> QED
    BY <1>1, <2>1
<1>3. CASE s # << >>
  <2>1. Len(s) \in 1..Len(s) /\ Total(s) = Totals(s)[Len(s)]
    BY <1>3 DEF Total
  <2> QED
    BY <1>1, <2>1, TotalsType
<1> QED
  BY <1>2, <1>3

(* What is added line by line adds up.                                     *)
LEMMA TotalPlus ==
  ASSUME NEW n \in Nat, NEW a \in [1..n -> Int], NEW b \in [1..n -> Int], NEW c \in [1..n -> Int],
         \A i \in 1..n : c[i] = a[i] + b[i]
  PROVE  Total(c) = Total(a) + Total(b)
<1>1. /\ a \in Seq(Int) /\ b \in Seq(Int) /\ c \in Seq(Int)
      /\ Len(a) = n /\ Len(b) = n /\ Len(c) = n
  OBVIOUS
<1> DEFINE S == {m \in Nat : m <= n => Sum(c)[m] = Sum(a)[m] + Sum(b)[m]}
<1>2. 0 \in S
  BY <1>1, SumDef
<1>3. ASSUME NEW m \in Nat, m \in S PROVE m + 1 \in S
  <2> SUFFICES ASSUME m + 1 <= n PROVE Sum(c)[m + 1] = Sum(a)[m + 1] + Sum(b)[m + 1]
    OBVIOUS
  <2>1. m + 1 \in 1..n /\ (m + 1) - 1 = m /\ m \in 0..n
    OBVIOUS
  <2>2. /\ Sum(a)[m + 1] = Sum(a)[m] + a[m + 1]
        /\ Sum(b)[m + 1] = Sum(b)[m] + b[m + 1]
        /\ Sum(c)[m + 1] = Sum(c)[m] + c[m + 1]
    BY <1>1, <2>1, SumDef
  <2>3. /\ Sum(a)[m] \in Int /\ Sum(b)[m] \in Int
        /\ a[m + 1] \in Int /\ b[m + 1] \in Int /\ c[m + 1] = a[m + 1] + b[m + 1]
    BY <1>1, <2>1, SumDef
  <2>4. Sum(c)[m] = Sum(a)[m] + Sum(b)[m]
    BY <1>3
  <2> QED
    BY <2>2, <2>3, <2>4
<1> HIDE DEF S
<1>4. Sum(c)[n] = Sum(a)[n] + Sum(b)[n]
  <2>1. Nat \subseteq S
    BY <1>2, <1>3, Induction
  <2> QED
    BY <2>1 DEF S
<1> QED
  BY <1>1, <1>4, TotalIs

(* Numbers in ascending order.                                             *)

Ascends(n, at) == \A i, j \in 1..n : i < j => at[i] < at[j]

(* InOrder of numbers that ascend is their sequence.                       *)
LEMMA InOrderAscends ==
  ASSUME NEW n \in Nat, NEW at \in [1..n -> Int], Ascends(n, at),
         NEW S, S = {at[i] : i \in 1..n}
  PROVE  InOrder(S) = at
<1>1. Cardinality(S) = n /\ \A i \in 1..n : Cardinality({q \in S : q <= at[i]}) = i
  <2>1. \A i, j \in 1..n : i < j => at[i] < at[j]
    BY DEF Ascends
  <2>2. /\ Cardinality({at[i] : i \in 1..n}) = n
        /\ \A i \in 1..n : Cardinality({q \in {at[j] : j \in 1..n} : q <= at[i]}) = i
    BY <2>1, GrowingCounted
  <2> QED
    BY <2>2
<1> DEFINE count(t) == Cardinality({u \in S : u <= t})
<1>2. \A i \in 1..n : count(at[i]) = i
  BY <1>1
<1>3. InOrder(S) = [i \in 1..n |-> CHOOSE t \in S : count(t) = i]
  BY <1>1 DEF InOrder
<1> HIDE DEF count
<1>4. ASSUME NEW i \in 1..n PROVE (CHOOSE t \in S : count(t) = i) = at[i]
  <2>1. at[i] \in S /\ count(at[i]) = i /\ \A t \in S : count(t) = i => t = at[i]
    BY <1>2
  <2> QED
    BY <2>1
<1>5. at = [i \in 1..n |-> at[i]]
  OBVIOUS
<1> QED
  BY <1>3, <1>4, <1>5

(* A finite set of numbers has a greatest.                                 *)
LEMMA GreatestExists ==
  ASSUME NEW T \in SUBSET Int, IsFiniteSet(T), T # {}
  PROVE  \E x \in T : \A y \in T : y <= x
<1> DEFINE Sized(n, U) == U \in SUBSET Int /\ IsFiniteSet(U) /\ Cardinality(U) = n
           Has(U) == \E x \in U : \A y \in U : y <= x
           S == {n \in Nat : \A U \in SUBSET Int : Sized(n, U) /\ U # {} => Has(U)}
<1>1. 0 \in S
  BY FS_EmptySet
<1>2. ASSUME NEW n \in Nat, n \in S PROVE n + 1 \in S
  <2> SUFFICES ASSUME NEW U \in SUBSET Int, Sized(n + 1, U), U # {} PROVE Has(U)
    OBVIOUS
  <2>1. PICK x \in U : TRUE
    OBVIOUS
  <2>2. Sized(n, U \ {x})
    <3>1. IsFiniteSet(U) /\ Cardinality(U) = n + 1 /\ (n + 1) - 1 = n
      OBVIOUS
    <3>2. IsFiniteSet(U \ {x}) /\ Cardinality(U \ {x}) = (n + 1) - 1
      BY <2>1, <3>1, FS_RemoveElement
    <3> QED
      BY <3>1, <3>2
  <2>3. CASE U \ {x} = {}
    BY <2>1, <2>3
  <2>4. CASE U \ {x} # {}
    <3>1. PICK m \in U \ {x} : \A y \in U \ {x} : y <= m
      BY <1>2, <2>2, <2>4
    <3>2. CASE x <= m
      BY <3>1, <3>2
    <3>3. CASE m < x
      BY <2>1, <3>1, <3>3
    <3> QED
      BY <3>1, <3>2, <3>3
  <2> QED
    BY <2>3, <2>4
<1>3. Nat \subseteq S
  <2> HIDE DEF S
  <2> QED
    BY <1>1, <1>2, Induction
<1>4. Cardinality(T) \in Nat
  BY FS_CardinalityType
<1> QED
  BY <1>3, <1>4

(* So its members can be put in ascending order.                           *)
OrderedBy(n, T) == \E at \in [1..n -> Int] : Ascends(n, at) /\ T = {at[i] : i \in 1..n}

Ordered(T) == \E n \in Nat : OrderedBy(n, T)

LEMMA FiniteIsOrdered ==
  ASSUME NEW T \in SUBSET Int, IsFiniteSet(T)
  PROVE  Ordered(T)
<1> DEFINE Sized(n, U) == IsFiniteSet(U) /\ Cardinality(U) = n
           S == {n \in Nat : \A U \in SUBSET Int : Sized(n, U) => Ordered(U)}
<1>1. 0 \in S
  <2> SUFFICES ASSUME NEW U \in SUBSET Int, Sized(0, U) PROVE Ordered(U)
    OBVIOUS
  <2>1. U = {}
    BY FS_EmptySet
  <2>2. 1..0 = {}
    OBVIOUS
  <2>3. PICK at : at = [i \in 1..0 |-> 0]
    OBVIOUS
  <2>4. at \in [1..0 -> Int]
    BY <2>3
  <2>5. Ascends(0, at)
    BY <2>2, Zenon DEF Ascends
  <2>6. U = {at[i] : i \in 1..0}
    BY <2>1, <2>2, Zenon
  <2>7. 0 \in Nat
    OBVIOUS
  <2>8. OrderedBy(0, U)
    BY <2>4, <2>5, <2>6 DEF OrderedBy
  <2> QED
    BY <2>7, <2>8 DEF Ordered
<1>2. ASSUME NEW n \in Nat, n \in S PROVE n + 1 \in S
  <2> SUFFICES ASSUME NEW U \in SUBSET Int, Sized(n + 1, U) PROVE Ordered(U)
    OBVIOUS
  <2>1. U # {}
    BY FS_EmptySet
  <2>2. PICK x \in U : \A y \in U : y <= x
    BY <2>1, GreatestExists
  <2>3. Ordered(U \ {x})
    <3>1. IsFiniteSet(U) /\ Cardinality(U) = n + 1 /\ (n + 1) - 1 = n
      OBVIOUS
    <3>2. IsFiniteSet(U \ {x}) /\ Cardinality(U \ {x}) = (n + 1) - 1
      BY <2>2, <3>1, FS_RemoveElement
    <3>3. U \ {x} \in SUBSET Int
      OBVIOUS
    <3> HIDE DEF Sized
    <3>4. Sized(n, U \ {x})
      BY <3>1, <3>2 DEF Sized
    <3> QED
      BY <1>2, <3>3, <3>4
  <2>4. PICK m \in Nat : OrderedBy(m, U \ {x})
    BY <2>3 DEF Ordered
  <2>5. PICK at \in [1..m -> Int] : Ascends(m, at) /\ U \ {x} = {at[i] : i \in 1..m}
    BY <2>4 DEF OrderedBy
  <2> DEFINE up == [i \in 1..(m + 1) |-> IF i = m + 1 THEN x ELSE at[i]]
  <2>6. up \in [1..(m + 1) -> Int]
    BY <2>2
  <2>7. Ascends(m + 1, up)
    <3>1. \A i \in 1..m : at[i] \in Int /\ at[i] < x
      BY <2>2, <2>5
    <3>2. ASSUME NEW i \in 1..(m + 1), NEW j \in 1..(m + 1), i < j PROVE up[i] < up[j]
      <4>1. i \in 1..m /\ up[i] = at[i]
        BY <3>2
      <4>2. CASE j = m + 1
        BY <3>1, <4>1, <4>2
      <4>3. CASE j # m + 1
        BY <2>5, <3>2, <4>1, <4>3 DEF Ascends
      <4> QED
        BY <4>2, <4>3
    <3> QED
      BY <3>2 DEF Ascends
  <2>8. U = {up[i] : i \in 1..(m + 1)}
    <3>1. U = {at[i] : i \in 1..m} \union {x}
      BY <2>2, <2>5
    <3>2. up[m + 1] = x /\ \A i \in 1..m : i \in 1..(m + 1) /\ up[i] = at[i]
      OBVIOUS
    <3>3. \A i \in 1..(m + 1) : i \in 1..m \/ i = m + 1
      OBVIOUS
    <3>4. m + 1 \in 1..(m + 1)
      OBVIOUS
    <3> HIDE DEF up
    <3> QED
      BY <3>1, <3>2, <3>3, <3>4
  <2> HIDE DEF up
  <2>9. OrderedBy(m + 1, U)
    BY <2>6, <2>7, <2>8, Zenon DEF OrderedBy
  <2>10. m + 1 \in Nat
    OBVIOUS
  <2> QED
    BY <2>9, <2>10 DEF Ordered
<1>3. Nat \subseteq S
  <2> HIDE DEF S
  <2> QED
    BY <1>1, <1>2, Induction
<1>4. Cardinality(T) \in Nat
  BY FS_CardinalityType
<1>5. Cardinality(T) \in S /\ Sized(Cardinality(T), T)
  BY <1>3, <1>4
<1>6. \A U \in SUBSET Int : Sized(Cardinality(T), U) => Ordered(U)
  BY <1>5
<1> HIDE DEF Sized
<1> QED
  BY <1>5, <1>6

(* A series of one rank: values at times that do not go back.              *)
Steady(times, usage) ==
  /\ usage \in Seq(Int)
  /\ \A n \in 1..Len(usage) : times[n] \in Int
  /\ \A m, n \in 1..Len(usage) : m <= n => times[m] <= times[n]

Delta(usage, n) == IF n = 1 THEN usage[1] ELSE usage[n] - usage[n - 1]

(* The differences at t, and those up to t.                                *)
At(times, usage, t) == [n \in 1..Len(usage) |-> IF times[n] = t THEN Delta(usage, n) ELSE 0]

Past(times, usage, t) == [n \in 1..Len(usage) |-> IF times[n] <= t THEN Delta(usage, n) ELSE 0]

LEMMA DeltaType ==
  ASSUME NEW usage \in Seq(Int), NEW n \in 1..Len(usage)
  PROVE  Delta(usage, n) \in Int
<1>1. Len(usage) \in Nat /\ \A m \in 1..Len(usage) : usage[m] \in Int
  OBVIOUS
<1>2. CASE n = 1
  BY <1>1, <1>2 DEF Delta
<1>3. CASE n # 1
  <2>1. n - 1 \in 1..Len(usage)
    BY <1>1, <1>3
  <2>2. usage[n] \in Int /\ usage[n - 1] \in Int
    BY <1>1, <2>1
  <2> QED
    BY <1>3, <2>2 DEF Delta
<1> QED
  BY <1>2, <1>3

LEMMA AtType ==
  ASSUME NEW times, NEW usage, Steady(times, usage), NEW t
  PROVE  /\ Len(usage) \in Nat
         /\ At(times, usage, t) \in [1..Len(usage) -> Int]
         /\ Past(times, usage, t) \in [1..Len(usage) -> Int]
         /\ Total(At(times, usage, t)) \in Int /\ Total(Past(times, usage, t)) \in Int
<1>1. Len(usage) \in Nat /\ \A n \in 1..Len(usage) : Delta(usage, n) \in Int
  BY DeltaType DEF Steady
<1>2. /\ At(times, usage, t) \in [1..Len(usage) -> Int]
      /\ Past(times, usage, t) \in [1..Len(usage) -> Int]
  BY <1>1 DEF At, Past
<1>3. \A s \in [1..Len(usage) -> Int] : s \in Seq(Int)
  BY <1>1
<1> QED
  BY <1>1, <1>2, <1>3, TotalIs

(* The differences up to t add up to the latest value by then.             *)
LEMMA PastIsHeld ==
  ASSUME NEW times, NEW usage, Steady(times, usage), NEW t \in Int
  PROVE  Total(Past(times, usage, t)) = Held(times, usage, t)
<1> DEFINE w == Past(times, usage, t)
<1>1. /\ Len(usage) \in Nat /\ w \in Seq(Int) /\ Len(w) = Len(usage)
      /\ \A n \in 1..Len(usage) : w[n] = IF times[n] <= t THEN Delta(usage, n) ELSE 0
      /\ \A n \in 1..Len(usage) : times[n] \in Int /\ usage[n] \in Int
  <2>1. Len(usage) \in Nat /\ w \in [1..Len(usage) -> Int]
    BY AtType
  <2>2. \A n \in 1..Len(usage) : times[n] \in Int /\ usage[n] \in Int
    BY DEF Steady
  <2>3. \A n \in 1..Len(usage) : w[n] = IF times[n] <= t THEN Delta(usage, n) ELSE 0
    BY DEF Past
  <2> HIDE DEF w
  <2> QED
    BY <2>1, <2>2, <2>3
<1> HIDE DEF w
<1> DEFINE None(m) == (\A j \in 1..m : t < times[j]) /\ Sum(w)[m] = 0
           Latest(m, h) == /\ times[h] <= t /\ \A j \in (h + 1)..m : t < times[j]
                           /\ Sum(w)[m] = usage[h]
           S == {m \in Nat : m <= Len(usage) => None(m) \/ \E h \in 1..m : Latest(m, h)}
<1>2. 0 \in S
  BY <1>1, SumDef
<1>3. ASSUME NEW m \in Nat, m \in S PROVE m + 1 \in S
  <2> SUFFICES ASSUME m + 1 <= Len(usage)
               PROVE  None(m + 1) \/ \E h \in 1..(m + 1) : Latest(m + 1, h)
    OBVIOUS
  <2>1. m + 1 \in 1..Len(usage) /\ (m + 1) - 1 = m
    BY <1>1
  <2>2. Sum(w)[m + 1] = Sum(w)[m] + w[m + 1]
    BY <1>1, <2>1, SumDef
  <2>3. w[m + 1] = IF times[m + 1] <= t THEN Delta(usage, m + 1) ELSE 0
    BY <1>1, <2>1
  <2>4. \A j \in 1..m : j \in 1..Len(usage) /\ times[j] <= times[m + 1]
    BY <1>1, <2>1 DEF Steady
  <2>5. None(m) \/ \E h \in 1..m : Latest(m, h)
    BY <1>1, <1>3, <2>1
  <2>6. CASE t < times[m + 1]
    <3>1. w[m + 1] = 0
      BY <1>1, <2>1, <2>3, <2>6
    <3>2. ASSUME None(m) PROVE None(m + 1)
      BY <2>2, <2>6, <3>1, <3>2
    <3>3. ASSUME NEW h \in 1..m, Latest(m, h) PROVE Latest(m + 1, h)
      BY <1>1, <2>2, <2>4, <2>6, <3>1, <3>3
    <3> HIDE DEF None, Latest
    <3>4. \A h \in 1..m : h \in 1..(m + 1)
      OBVIOUS
    <3> QED
      BY <2>5, <3>2, <3>3, <3>4
  <2>7. CASE times[m + 1] <= t
    <3>1. w[m + 1] = Delta(usage, m + 1)
      BY <2>3, <2>7
    <3>2. ASSUME None(m) PROVE Sum(w)[m + 1] = usage[m + 1]
      <4>1. m = 0
        <5> SUFFICES ASSUME m # 0 PROVE FALSE
          OBVIOUS
        <5>1. m \in 1..m /\ t < times[m] /\ times[m] <= times[m + 1]
          BY <2>4, <3>2
        <5> QED
          BY <1>1, <2>1, <2>4, <2>7, <5>1
      <4> QED
        BY <1>1, <2>1, <2>2, <3>1, <3>2, <4>1 DEF Delta
    <3>3. ASSUME NEW h \in 1..m, Latest(m, h) PROVE Sum(w)[m + 1] = usage[m + 1]
      <4>1. h = m
        <5> SUFFICES ASSUME h # m PROVE FALSE
          OBVIOUS
        <5>1. m \in (h + 1)..m /\ m \in 1..m
          OBVIOUS
        <5>2. t < times[m] /\ times[m] <= times[m + 1]
          BY <2>4, <3>3, <5>1
        <5> QED
          BY <1>1, <2>1, <2>4, <2>7, <5>1, <5>2
      <4>2. m + 1 # 1 /\ Delta(usage, m + 1) = usage[m + 1] - usage[m]
        BY <2>1, <4>1 DEF Delta
      <4>3. usage[m + 1] \in Int /\ usage[m] \in Int /\ Sum(w)[m] = usage[m]
        BY <1>1, <2>1, <2>4, <3>3, <4>1
      <4> QED
        BY <2>2, <3>1, <4>2, <4>3
    <3>4. Latest(m + 1, m + 1)
      BY <2>5, <2>7, <3>2, <3>3
    <3> HIDE DEF Latest
    <3> QED
      BY <3>4
  <2> QED
    BY <1>1, <2>1, <2>6, <2>7
<1>4. None(Len(usage)) \/ \E h \in 1..Len(usage) : Latest(Len(usage), h)
  <2> HIDE DEF S
  <2>1. Nat \subseteq S
    BY <1>2, <1>3, Induction
  <2> QED
    BY <1>1, <2>1 DEF S
<1> DEFINE past == {n \in 1..Len(usage) : times[n] <= t}
<1>5. Held(times, usage, t) = IF past = {} THEN 0 ELSE usage[Max(past)]
  BY DEF Held
<1>6. Total(w) = Sum(w)[Len(usage)]
  BY <1>1, TotalIs
<1>7. CASE None(Len(usage))
  <2>1. past = {}
    BY <1>1, <1>7
  <2> QED
    BY <1>5, <1>6, <1>7, <2>1 DEF w
<1>8. CASE \E h \in 1..Len(usage) : Latest(Len(usage), h)
  <2>1. PICK h \in 1..Len(usage) : Latest(Len(usage), h)
    BY <1>8
  <2>2. h \in past /\ \A n \in past : n <= h
    BY <1>1, <2>1
  <2>3. Max(past) = h
    <3>1. Max(past) = CHOOSE x \in past : \A y \in past : x >= y
      BY DEF Max
    <3>2. past \subseteq Int
      OBVIOUS
    <3> HIDE DEF past
    <3>3. \A x \in past : (\A y \in past : x >= y) => x = h
      BY <2>2, <3>2
    <3>4. \A y \in past : h >= y
      BY <2>2, <3>2
    <3> QED
      BY <2>2, <3>1, <3>3, <3>4
  <2> QED
    BY <1>5, <1>6, <2>1, <2>2, <2>3 DEF w
<1> QED
  BY <1>4, <1>7, <1>8

(* From one time to the next the differences at the next come in.          *)
LEMMA PastGrows ==
  ASSUME NEW times, NEW usage, Steady(times, usage), NEW t \in Int, NEW u \in Int, t < u,
         \A n \in 1..Len(usage) : times[n] <= t \/ u <= times[n]
  PROVE  Total(Past(times, usage, u)) = Total(Past(times, usage, t)) + Total(At(times, usage, u))
<1> DEFINE a == Past(times, usage, t)
           b == At(times, usage, u)
           c == Past(times, usage, u)
<1>1. /\ Len(usage) \in Nat /\ a \in [1..Len(usage) -> Int] /\ b \in [1..Len(usage) -> Int]
      /\ c \in [1..Len(usage) -> Int]
  BY AtType
<1>2. ASSUME NEW n \in 1..Len(usage) PROVE c[n] = a[n] + b[n]
  <2>1. times[n] \in Int /\ Delta(usage, n) \in Int /\ (times[n] <= t \/ u <= times[n])
    BY DeltaType DEF Steady
  <2> QED
    BY <2>1 DEF Past, At
<1> HIDE DEF a, b, c
<1>3. Total(c) = Total(a) + Total(b)
  BY <1>1, <1>2, TotalPlus
<1> QED
  BY <1>3 DEF a, b, c

LEMMA PastBegins ==
  ASSUME NEW times, NEW usage, Steady(times, usage), NEW u \in Int,
         \A n \in 1..Len(usage) : u <= times[n]
  PROVE  Past(times, usage, u) = At(times, usage, u)
<1>1. ASSUME NEW n \in 1..Len(usage) PROVE times[n] <= u <=> times[n] = u
  BY DEF Steady
<1> QED
  BY <1>1 DEF Past, At

(* The series of all ranks, and what the script makes of them.             *)
Pairs(times, usage) == [n \in 1..Len(usage) |-> <<times[n], usage[n]>>]

Changes(times, usage) == [n \in 1..Len(usage) |-> <<times[n], Delta(usage, n)>>]

SeriesOf(times, usage) == [r \in Rank |-> Pairs(times[r], usage[r])]

AllSteady(times, usage) == \A r \in Rank : Steady(times[r], usage[r])

TimesOf(times, usage) == {times[n] : n \in 1..Len(usage)}

Moments(times, usage) == UNION {TimesOf(times[r], usage[r]) : r \in Rank}

(* The moments, in ascending order.                                        *)
Enumerates(times, usage, n, at) ==
  /\ Ascends(n, at)
  /\ Moments(times, usage) = {at[i] : i \in 1..n}

Ut(times, usage, t) == [i \in 1..N |-> Total(At(times[i - 1], usage[i - 1], t))]

UtAt(times, usage, n, at) == [i \in 1..n |-> Total(Ut(times, usage, at[i]))]

UptoTime(times, usage, t) == [i \in 1..N |-> Total(Past(times[i - 1], usage[i - 1], t))]

LEMMA DeltasAre ==
  ASSUME NEW times, NEW usage, Steady(times, usage)
  PROVE  deltas(Pairs(times, usage)) = Changes(times, usage)
<1> DEFINE tva == Pairs(times, usage)
           L(n) == IF n = 1 THEN tva[1] ELSE <<tva[n][1], tva[n][2] - tva[n - 1][2]>>
           R(n) == <<times[n], Delta(usage, n)>>
<1>1. Len(usage) \in Nat
  BY DEF Steady
<1>2. DOMAIN tva = 1..Len(usage) /\ \A n \in 1..Len(usage) : tva[n] = <<times[n], usage[n]>>
  BY DEF Pairs
<1> HIDE DEF tva
<1>3. deltas(tva) = [n \in 1..Len(usage) |-> L(n)]
  BY <1>2 DEF deltas
<1>4. ASSUME NEW n \in 1..Len(usage) PROVE L(n) = R(n)
  <2>1. CASE n = 1
    <3>1. tva[1] = <<times[1], usage[1]>>
      BY <1>2, <2>1
    <3> QED
      BY <2>1, <3>1 DEF Delta
  <2>2. CASE n # 1
    <3>1. n - 1 \in 1..Len(usage)
      BY <1>1, <2>2
    <3>2. tva[n] = <<times[n], usage[n]>> /\ tva[n - 1] = <<times[n - 1], usage[n - 1]>>
      BY <1>2, <3>1
    <3>3. tva[n][1] = times[n] /\ tva[n][2] = usage[n] /\ tva[n - 1][2] = usage[n - 1]
      BY <3>2
    <3> QED
      BY <2>2, <3>3 DEF Delta
  <2> QED
    BY <2>1, <2>2
<1>5. Changes(times, usage) = [n \in 1..Len(usage) |-> R(n)]
  BY DEF Changes
<1> HIDE DEF L, R
<1>6. deltas(tva) = Changes(times, usage)
  BY <1>3, <1>4, <1>5
<1> QED
  BY <1>6 DEF tva

LEMMA RanksInOrder == InOrder(Rank) = [i \in 1..N |-> i - 1]
<1> DEFINE at == [i \in 1..N |-> i - 1]
<1>1. N \in Nat /\ at \in [1..N -> Int]
  BY NAssumption
<1>2. Ascends(N, at)
  BY <1>1 DEF Ascends
<1>3. Rank = {at[i] : i \in 1..N}
  <2>1. \A r \in Rank : r + 1 \in 1..N /\ at[r + 1] = r
    BY <1>1 DEF Rank
  <2>2. \A i \in 1..N : at[i] \in Rank
    BY <1>1 DEF Rank
  <2> HIDE DEF at
  <2> QED
    BY <2>1, <2>2
<1> HIDE DEF at
<1>4. InOrder(Rank) = at
  BY <1>1, <1>2, <1>3, InOrderAscends
<1> QED
  BY <1>4 DEF at

LEMMA MomentsFinite ==
  ASSUME NEW times, NEW usage, AllSteady(times, usage)
  PROVE  Moments(times, usage) \in SUBSET Int /\ IsFiniteSet(Moments(times, usage))
<1> DEFINE of(r) == TimesOf(times[r], usage[r])
           sets == {of(r) : r \in Rank}
<1>1. ASSUME NEW r \in Rank PROVE IsFiniteSet(of(r)) /\ of(r) \in SUBSET Int
  <2>1. Len(usage[r]) \in Nat /\ \A n \in 1..Len(usage[r]) : times[r][n] \in Int
    BY DEF AllSteady, Steady
  <2> DEFINE f == [n \in 1..Len(usage[r]) |-> times[r][n]]
  <2>2. f \in Surjection(1..Len(usage[r]), of(r))
    BY DEF Surjection, TimesOf
  <2>3. IsFiniteSet(1..Len(usage[r]))
    BY <2>1, FS_Interval
  <2> HIDE DEF f, of
  <2>4. IsFiniteSet(of(r))
    BY <2>2, <2>3, FS_Surjection
  <2> QED
    BY <2>1, <2>4 DEF of, TimesOf
<1> HIDE DEF of
<1>2. IsFiniteSet(sets)
  <2> DEFINE g == [r \in Rank |-> of(r)]
  <2>1. g \in Surjection(Rank, sets)
    BY DEF Surjection
  <2>2. IsFiniteSet(Rank)
    BY NAssumption, FS_Interval DEF Rank
  <2> HIDE DEF g, sets
  <2> QED
    BY <2>1, <2>2, FS_Surjection
<1>3. Moments(times, usage) = UNION sets
  BY DEF Moments, of
<1>4. IsFiniteSet(UNION sets)
  <2>1. \A T \in sets : IsFiniteSet(T)
    BY <1>1
  <2> HIDE DEF sets
  <2> QED
    BY <1>2, <2>1, FS_UNION
<1>5. UNION sets \in SUBSET Int
  BY <1>1
<1> QED
  BY <1>3, <1>4, <1>5

(* The script computes, for the moments in order, the running totals of    *)
(* the differences at each.                                                *)
LEMMA AccumulateDoes ==
  ASSUME NEW times, NEW usage, AllSteady(times, usage),
         NEW n \in Nat, NEW at \in [1..n -> Int], Enumerates(times, usage, n, at)
  PROVE  accumulate(SeriesOf(times, usage)) =
           [i \in 1..n |-> <<at[i], Totals(UtAt(times, usage, n, at))[i]>>]
<1> DEFINE series == SeriesOf(times, usage)
           ranks == InOrder(DOMAIN series)
           delta_map == [i \in DOMAIN ranks |-> deltas(series[ranks[i]])]
           local(t, tva) == Total([j \in DOMAIN tva |-> IF tva[j][1] = t THEN tva[j][2] ELSE 0])
           atAll(t) == [i \in DOMAIN ranks |-> local(t, delta_map[i])]
           found == UNION {{delta_map[i][j][1] : j \in DOMAIN delta_map[i]} : i \in DOMAIN ranks}
           when == InOrder(found)
           sums == Totals([m \in DOMAIN when |-> Total(atAll(when[m]))])
<1>1. accumulate(series) = [m \in DOMAIN when |-> <<when[m], sums[m]>>]
  BY DEF accumulate
<1>2. DOMAIN series = Rank /\ \A r \in Rank : series[r] = Pairs(times[r], usage[r])
  BY DEF SeriesOf
<1> HIDE DEF series
<1>3. ranks = [i \in 1..N |-> i - 1]
  BY <1>2, RanksInOrder
<1>4. DOMAIN ranks = 1..N /\ \A i \in 1..N : ranks[i] = i - 1 /\ i - 1 \in Rank
  BY <1>3, NAssumption DEF Rank
<1> HIDE DEF ranks
<1>5. ASSUME NEW i \in 1..N
      PROVE  delta_map[i] = Changes(times[i - 1], usage[i - 1])
  <2>1. delta_map[i] = deltas(series[i - 1])
    BY <1>4
  <2>2. Steady(times[i - 1], usage[i - 1]) /\ series[i - 1] = Pairs(times[i - 1], usage[i - 1])
    BY <1>2, <1>4 DEF AllSteady
  <2> HIDE DEF delta_map
  <2> QED
    BY <2>1, <2>2, DeltasAre
<1> HIDE DEF delta_map
<1>6. ASSUME NEW i \in 1..N
      PROVE  /\ DOMAIN delta_map[i] = 1..Len(usage[i - 1])
             /\ \A j \in 1..Len(usage[i - 1]) : /\ delta_map[i][j][1] = times[i - 1][j]
                                                /\ delta_map[i][j][2] = Delta(usage[i - 1], j)
  <2>1. DOMAIN delta_map[i] = 1..Len(usage[i - 1])
    BY <1>5 DEF Changes
  <2>2. ASSUME NEW j \in 1..Len(usage[i - 1])
        PROVE  /\ delta_map[i][j][1] = times[i - 1][j]
               /\ delta_map[i][j][2] = Delta(usage[i - 1], j)
    <3>1. delta_map[i][j] = <<times[i - 1][j], Delta(usage[i - 1], j)>>
      BY <1>5 DEF Changes
    <3> QED
      BY <3>1
  <2> QED
    BY <2>1, <2>2
<1>7. ASSUME NEW i \in 1..N, NEW t PROVE local(t, delta_map[i]) = Total(At(times[i - 1], usage[i - 1], t))
  <2> DEFINE tva == delta_map[i]
  <2>1. [j \in DOMAIN tva |-> IF tva[j][1] = t THEN tva[j][2] ELSE 0] = At(times[i - 1], usage[i - 1], t)
    BY <1>6 DEF At
  <2> HIDE DEF tva
  <2> QED
    BY <2>1 DEF tva
<1> HIDE DEF local
<1>8. ASSUME NEW t PROVE atAll(t) = Ut(times, usage, t)
  BY <1>4, <1>7 DEF Ut
<1> HIDE DEF atAll
<1>9. found = Moments(times, usage)
  <2> DEFINE of(i) == {delta_map[i][j][1] : j \in DOMAIN delta_map[i]}
             held(r) == TimesOf(times[r], usage[r])
  <2>1. ASSUME NEW i \in 1..N PROVE of(i) = held(i - 1)
    <3>1. DOMAIN delta_map[i] = 1..Len(usage[i - 1])
      BY <1>6
    <3>2. \A j \in 1..Len(usage[i - 1]) : delta_map[i][j][1] = times[i - 1][j]
      BY <1>6
    <3> QED
      BY <3>1, <3>2 DEF TimesOf
  <2>2. found = UNION {of(i) : i \in 1..N}
    BY <1>4
  <2>3. Moments(times, usage) = UNION {held(r) : r \in Rank}
    BY DEF Moments
  <2>4. \A r \in Rank : r + 1 \in 1..N /\ (r + 1) - 1 = r
    BY NAssumption DEF Rank
  <2> HIDE DEF of, held
  <2>5. {of(i) : i \in 1..N} = {held(r) : r \in Rank}
    BY <1>4, <2>1, <2>4
  <2> QED
    BY <2>2, <2>3, <2>5
<1> HIDE DEF found
<1>10. when = at
  BY <1>9, InOrderAscends DEF Enumerates
<1>11. DOMAIN when = 1..n /\ \A m \in 1..n : when[m] = at[m]
  BY <1>10
<1>12. [m \in DOMAIN when |-> Total(atAll(when[m]))] = UtAt(times, usage, n, at)
  BY <1>8, <1>11 DEF UtAt
<1>13. sums = Totals(UtAt(times, usage, n, at))
  BY <1>12
<1> HIDE DEF when, sums
<1>14. accumulate(series) = [i \in 1..n |-> <<at[i], Totals(UtAt(times, usage, n, at))[i]>>]
  BY <1>1, <1>11, <1>13
<1> QED
  BY <1>14 DEF series

LEMMA ColumnTypes ==
  ASSUME NEW times, NEW usage, AllSteady(times, usage), NEW t
  PROVE  /\ N \in Nat
         /\ Ut(times, usage, t) \in [1..N -> Int]
         /\ UptoTime(times, usage, t) \in [1..N -> Int]
         /\ Total(Ut(times, usage, t)) \in Int /\ Total(UptoTime(times, usage, t)) \in Int
<1>1. ASSUME NEW i \in 1..N
      PROVE  /\ Total(At(times[i - 1], usage[i - 1], t)) \in Int
             /\ Total(Past(times[i - 1], usage[i - 1], t)) \in Int
  <2>1. i - 1 \in Rank
    BY NAssumption DEF Rank
  <2>2. Steady(times[i - 1], usage[i - 1])
    BY <2>1 DEF AllSteady
  <2> QED
    BY <2>2, AtType
<1>2. Ut(times, usage, t) \in [1..N -> Int] /\ UptoTime(times, usage, t) \in [1..N -> Int]
  BY <1>1 DEF Ut, UptoTime
<1>3. N \in Nat /\ \A s \in [1..N -> Int] : s \in Seq(Int)
  BY NAssumption
<1> QED
  BY <1>2, <1>3, TotalIs

(* The running totals are those of all differences so far.                 *)
LEMMA RunningTotals ==
  ASSUME NEW times, NEW usage, AllSteady(times, usage),
         NEW n \in Nat, NEW at \in [1..n -> Int], Enumerates(times, usage, n, at)
  PROVE  \A m \in 1..n : Totals(UtAt(times, usage, n, at))[m] = Total(UptoTime(times, usage, at[m]))
<1> DEFINE ut == UtAt(times, usage, n, at)
<1>1. ut \in Seq(Int) /\ Len(ut) = n /\ \A i \in 1..n : ut[i] = Total(Ut(times, usage, at[i]))
  <2>1. \A i \in 1..n : Total(Ut(times, usage, at[i])) \in Int
    BY ColumnTypes
  <2> QED
    BY <2>1 DEF UtAt
<1> HIDE DEF ut
<1>2. /\ Sum(ut)[0] = 0 /\ \A m \in 1..n : Sum(ut)[m] = Sum(ut)[m - 1] + ut[m]
      /\ \A m \in 1..n : Totals(ut)[m] = Sum(ut)[m]
  BY <1>1, SumDef, TotalsType
<1>3. ASSUME NEW r \in Rank, NEW j \in 1..Len(usage[r]) PROVE \E i \in 1..n : times[r][j] = at[i]
  <2>1. times[r][j] \in TimesOf(times[r], usage[r])
    BY <1>3 DEF TimesOf
  <2>2. times[r][j] \in Moments(times, usage)
    BY <2>1 DEF Moments
  <2>3. times[r][j] \in {at[i] : i \in 1..n}
    BY <2>2 DEF Enumerates
  <2> QED
    BY <2>3
<1>4. \A i, j \in 1..n : at[i] \in Int /\ (i < j => at[i] < at[j]) /\ (i <= j => at[i] <= at[j])
  <2> SUFFICES ASSUME NEW i \in 1..n, NEW j \in 1..n
               PROVE  at[i] \in Int /\ (i < j => at[i] < at[j]) /\ (i <= j => at[i] <= at[j])
    OBVIOUS
  <2>1. at[i] \in Int /\ at[j] \in Int /\ (i < j => at[i] < at[j])
    BY DEF Ascends, Enumerates
  <2>2. CASE i = j
    BY <2>1, <2>2
  <2>3. CASE i # j
    <3>1. i <= j => i < j
      BY <2>3
    <3> QED
      BY <2>1, <3>1
  <2> QED
    BY <2>2, <2>3
<1>5. ASSUME NEW i \in 1..N PROVE i - 1 \in Rank /\ Steady(times[i - 1], usage[i - 1])
  <2>1. i - 1 \in Rank
    BY NAssumption DEF Rank
  <2> QED
    BY <2>1 DEF AllSteady
<1> DEFINE S == {m \in Nat : m + 1 <= n => Sum(ut)[m + 1] = Total(UptoTime(times, usage, at[m + 1]))}
<1>6. 0 \in S
  <2> SUFFICES ASSUME 1 <= n PROVE Sum(ut)[1] = Total(UptoTime(times, usage, at[1]))
    OBVIOUS
  <2>1. 1 \in 1..n
    OBVIOUS
  <2>2. ASSUME NEW i \in 1..N
        PROVE  Past(times[i - 1], usage[i - 1], at[1]) = At(times[i - 1], usage[i - 1], at[1])
    <3>1. \A j \in 1..Len(usage[i - 1]) : at[1] <= times[i - 1][j]
      BY <1>3, <1>4, <1>5, <2>1
    <3> QED
      BY <1>4, <1>5, <2>1, <3>1, PastBegins
  <2>3. UptoTime(times, usage, at[1]) = Ut(times, usage, at[1])
    BY <2>2 DEF UptoTime, Ut
  <2>4. Total(Ut(times, usage, at[1])) \in Int
    BY ColumnTypes
  <2>5. Sum(ut)[1] = Sum(ut)[1 - 1] + ut[1] /\ 1 - 1 = 0 /\ Sum(ut)[0] = 0
    BY <1>2, <2>1
  <2>6. ut[1] = Total(Ut(times, usage, at[1]))
    BY <1>1, <2>1
  <2> QED
    BY <2>3, <2>4, <2>5, <2>6
<1>7. ASSUME NEW m \in Nat, m \in S PROVE m + 1 \in S
  <2> DEFINE p == m + 1
             q == p + 1
  <2> SUFFICES ASSUME q <= n PROVE Sum(ut)[q] = Total(UptoTime(times, usage, at[q]))
    OBVIOUS
  <2>1. p \in 1..n /\ q \in 1..n /\ q - 1 = p /\ p < q
    OBVIOUS
  <2>2. Sum(ut)[p] = Total(UptoTime(times, usage, at[p]))
    BY <1>7, <2>1
  <2>3. \A i \in 1..n : i <= p \/ q <= i
    OBVIOUS
  <2> HIDE DEF p, q
  <2>4. Sum(ut)[q] = Sum(ut)[p] + Total(Ut(times, usage, at[q]))
    BY <1>1, <1>2, <2>1
  <2>5. at[p] \in Int /\ at[q] \in Int /\ at[p] < at[q]
    BY <1>4, <2>1
  <2> DEFINE a == UptoTime(times, usage, at[p])
             b == Ut(times, usage, at[q])
             c == UptoTime(times, usage, at[q])
  <2>6. ASSUME NEW i \in 1..N PROVE c[i] = a[i] + b[i]
    <3>1. \A j \in 1..Len(usage[i - 1]) : times[i - 1][j] <= at[p] \/ at[q] <= times[i - 1][j]
      <4> SUFFICES ASSUME NEW j \in 1..Len(usage[i - 1])
                   PROVE  times[i - 1][j] <= at[p] \/ at[q] <= times[i - 1][j]
        OBVIOUS
      <4>1. PICK h \in 1..n : times[i - 1][j] = at[h]
        BY <1>3, <1>5
      <4> QED
        BY <1>4, <2>1, <2>3, <4>1
    <3>2. Total(Past(times[i - 1], usage[i - 1], at[q])) =
            Total(Past(times[i - 1], usage[i - 1], at[p])) + Total(At(times[i - 1], usage[i - 1], at[q]))
      BY <1>5, <2>5, <3>1, PastGrows
    <3> QED
      BY <3>2 DEF UptoTime, Ut
  <2>7. /\ N \in Nat /\ a \in [1..N -> Int] /\ b \in [1..N -> Int] /\ c \in [1..N -> Int]
    BY ColumnTypes
  <2> HIDE DEF a, b, c
  <2>8. Total(c) = Total(a) + Total(b)
    BY <2>6, <2>7, TotalPlus
  <2> QED
    BY <2>2, <2>4, <2>8 DEF a, b, c
<1> HIDE DEF S
<1>8. Nat \subseteq S
  BY <1>6, <1>7, Induction
<1>9. ASSUME NEW m \in 1..n PROVE Totals(ut)[m] = Total(UptoTime(times, usage, at[m]))
  <2>1. m - 1 \in Nat /\ (m - 1) + 1 = m /\ m - 1 \in S
    BY <1>8
  <2> QED
    BY <1>2, <2>1 DEF S
<1> QED
  BY <1>9 DEF ut

(* Differences merged by time and added up again are the sums of what the  *)
(* ranks held.                                                             *)
IsAggregate(agg, times, usage) ==
  /\ {agg[n][1] : n \in DOMAIN agg} = Moments(times, usage)
  /\ \A n \in DOMAIN agg :
       /\ n > 1 => agg[n - 1][1] < agg[n][1]
       /\ agg[n][2] = Total([i \in 1..N |-> Held(times[i - 1], usage[i - 1], agg[n][1])])

LEMMA AccumulateIsSum ==
  ASSUME NEW times, NEW usage, AllSteady(times, usage)
  PROVE  IsAggregate(accumulate(SeriesOf(times, usage)), times, usage)
<1>1. Ordered(Moments(times, usage))
  BY MomentsFinite, FiniteIsOrdered
<1>2. PICK n \in Nat : OrderedBy(n, Moments(times, usage))
  BY <1>1 DEF Ordered
<1>3. PICK at \in [1..n -> Int] : Enumerates(times, usage, n, at)
  BY <1>2 DEF OrderedBy, Enumerates
<1> DEFINE ut == UtAt(times, usage, n, at)
           agg == accumulate(SeriesOf(times, usage))
<1>4. agg = [i \in 1..n |-> <<at[i], Totals(ut)[i]>>]
  BY <1>3, AccumulateDoes
<1>5. \A m \in 1..n : Totals(ut)[m] = Total(UptoTime(times, usage, at[m]))
  BY <1>3, RunningTotals
<1> HIDE DEF agg, ut
<1>6. DOMAIN agg = 1..n /\ \A m \in 1..n : agg[m][1] = at[m] /\ agg[m][2] = Total(UptoTime(times, usage, at[m]))
  <2>1. DOMAIN agg = 1..n
    BY <1>4
  <2>2. ASSUME NEW m \in 1..n PROVE agg[m][1] = at[m] /\ agg[m][2] = Totals(ut)[m]
    <3>1. agg[m] = <<at[m], Totals(ut)[m]>>
      BY <1>4
    <3> QED
      BY <3>1
  <2> QED
    BY <1>5, <2>1, <2>2
<1>7. ASSUME NEW t \in Int
      PROVE  UptoTime(times, usage, t) = [i \in 1..N |-> Held(times[i - 1], usage[i - 1], t)]
  <2>1. ASSUME NEW i \in 1..N
        PROVE  Total(Past(times[i - 1], usage[i - 1], t)) = Held(times[i - 1], usage[i - 1], t)
    <3>1. i - 1 \in Rank
      BY NAssumption DEF Rank
    <3>2. Steady(times[i - 1], usage[i - 1])
      BY <3>1 DEF AllSteady
    <3> QED
      BY <3>2, PastIsHeld
  <2> QED
    BY <2>1 DEF UptoTime
<1>8. {agg[m][1] : m \in DOMAIN agg} = Moments(times, usage)
  BY <1>3, <1>6 DEF Enumerates
<1>9. ASSUME NEW m \in 1..n
      PROVE  /\ m > 1 => agg[m - 1][1] < agg[m][1]
             /\ agg[m][2] = Total([i \in 1..N |-> Held(times[i - 1], usage[i - 1], agg[m][1])])
  <2>1. m > 1 => agg[m - 1][1] < agg[m][1]
    <3> SUFFICES ASSUME m > 1 PROVE agg[m - 1][1] < agg[m][1]
      OBVIOUS
    <3>1. m - 1 \in 1..n /\ m - 1 < m
      OBVIOUS
    <3> QED
      BY <1>3, <1>6, <3>1 DEF Ascends, Enumerates
  <2>2. at[m] \in Int /\ agg[m][1] = at[m]
    BY <1>6
  <2>3. agg[m][2] = Total(UptoTime(times, usage, at[m]))
    BY <1>6
  <2> QED
    BY <1>7, <2>1, <2>2, <2>3
<1>10. \A m \in DOMAIN agg :
         /\ m > 1 => agg[m - 1][1] < agg[m][1]
         /\ agg[m][2] = Total([i \in 1..N |-> Held(times[i - 1], usage[i - 1], agg[m][1])])
  BY <1>6, <1>9
<1>11. IsAggregate(agg, times, usage)
  BY <1>8, <1>10, Zenon DEF IsAggregate
<1> QED
  BY <1>11 DEF agg

(* How many samples there are: two of all memory and one of MPI for each   *)
(* wrapped call that has returned.  A rank that has its text knows who it  *)
(* is.                                                                     *)
Sampled(r) == Len(all[r]) = 2 * Len(mpi[r]) /\ Len(mpi[r]) <= k[r]

Named(r) == program.init = "MPI_Init" /\ text[r] # << >> => rank[r] = r

SampledInv == CrunchedInv /\ \A r \in Rank : Sampled(r) /\ Named(r)

LEMMA InitSampled == RepInit => SampledInv
<1> SUFFICES ASSUME RepInit PROVE SampledInv
  OBVIOUS
<1>1. CrunchedInv
  BY InitWritten DEF RepInit, CrunchedInv, HasResults
<1>2. ASSUME NEW r \in Rank PROVE Sampled(r) /\ Named(r)
  <2>1. all[r] = << >> /\ mpi[r] = << >> /\ k[r] = 0 /\ text[r] = << >>
    BY DEF RepInit, Init
  <2> QED
    BY <2>1 DEF Sampled, Named
<1> QED
  BY <1>1, <1>2 DEF SampledInv

LEMMA StepSampled ==
  ASSUME ControlTypes, MemoryTypes, NEW r \in Rank, Step(r) \/ Fault(r), \A s \in Rank : Sampled(s)
  PROVE  \A s \in Rank : Sampled(s)'
<1>1. /\ k \in [Rank -> Nat] /\ k' \in [Rank -> Nat]
      /\ \A s \in Rank : s # r => k'[s] = k[s]
      /\ k'[r] \in {k[r], k[r] + 1}
  BY StepPlaces DEF ControlTypes
<1>2. \A s \in Rank : Len(all[s]) \in Nat /\ Len(mpi[s]) \in Nat
  BY DEF MemoryTypes
<1>3. ASSUME NEW s \in Rank, s # r PROVE Sampled(s)'
  BY <1>1, <1>3, StepSamples DEF Sampled
<1>4. CASE After(r)
  <2>1. k' = [k EXCEPT ![r] = @ + 1]
    BY <1>4 DEF After
  <2>2. \E v \in Int : mpi' = [mpi EXCEPT ![r] = Append(@, v)]
    <3> DEFINE after == app[r] + lib'[r] + tool[r]
    <3>1. mpi' = [mpi EXCEPT ![r] = Append(@, after - before[r])]
      BY <1>4 DEF After
    <3>2. MemoryTypes'
      BY StepMemory
    <3>3. after - before[r] \in Int
      BY <3>2 DEF MemoryTypes
    <3> HIDE DEF after
    <3> QED
      BY <3>1, <3>3
  <2>3. \E v, w \in Nat : all' = [all EXCEPT ![r] = @ \o <<v, w>>]
    <3> DEFINE after == app[r] + lib'[r] + tool[r]
    <3>1. all' = [all EXCEPT ![r] = @ \o <<before[r], after>>]
      BY <1>4 DEF After
    <3>2. MemoryTypes'
      BY StepMemory
    <3>3. after \in Nat /\ before[r] \in Nat
      BY <3>2 DEF MemoryTypes
    <3> HIDE DEF after
    <3> QED
      BY <3>1, <3>3
  <2>4. Len(mpi'[r]) = Len(mpi[r]) + 1
    <3>1. PICK v \in Int : mpi' = [mpi EXCEPT ![r] = Append(@, v)]
      BY <2>2
    <3>2. mpi'[r] = Append(mpi[r], v) /\ mpi[r] \in Seq(Int)
      BY <3>1 DEF MemoryTypes
    <3> QED
      BY <3>2
  <2>5. Len(all'[r]) = Len(all[r]) + 2
    <3>1. PICK v \in Nat, w \in Nat : all' = [all EXCEPT ![r] = @ \o <<v, w>>]
      BY <2>3
    <3>2. all'[r] = all[r] \o <<v, w>> /\ all[r] \in Seq(Nat)
      BY <3>1 DEF MemoryTypes
    <3>3. <<v, w>> \in Seq(Nat) /\ Len(<<v, w>>) = 2
      OBVIOUS
    <3> QED
      BY <3>2, <3>3
  <2>6. k'[r] = k[r] + 1 /\ k[r] \in Nat /\ Sampled(r)
    BY <1>1, <2>1
  <2>7. Sampled(r)'
    BY <1>2, <2>4, <2>5, <2>6 DEF Sampled
  <2> QED
    BY <1>3, <2>7
<1>5. CASE ~After(r)
  <2>1. all' = all /\ mpi' = mpi
    BY <1>5
       DEF Step, Fault, Before, BareCall, BareReturns, EnterTool, Synced, Metadata, Abort,
           Finalize, FillReport, Gathered, Gatheredv, Crash, GatheredvAstray, Write, PmpiFinalize,
           SampleFails, MetadataFails, WriteFails, NoOutputPath, data
  <2>2. Sampled(r)'
    BY <1>1, <1>2, <2>1 DEF Sampled
  <2> QED
    BY <1>3, <2>2
<1> QED
  BY <1>4, <1>5

LEMMA StepNamed ==
  ASSUME ReportInv, NEW r \in Rank, Step(r) \/ Fault(r), \A s \in Rank : Named(s)
  PROVE  \A s \in Rank : Named(s)'
<1>1. ControlTypes /\ ReportTypes /\ program' = program
  BY StepPlaces DEF ReportInv, CourseInv, ChargeInv, AllTyped
<1> SUFFICES ASSUME NEW s \in Rank, program.init = "MPI_Init", text'[s] # << >> PROVE rank'[s] = s
  BY <1>1 DEF Named
<1>2. CASE text[s] # << >>
  <2>1. rank[s] = s
    BY <1>2 DEF Named
  <2>2. UNCHANGED ident \/ Metadata(r)
    BY <1>1, StepFilled
  <2> QED
    BY <1>1, <2>1, <2>2 DEF Metadata, ident, ReportTypes
<1>3. CASE text[s] = << >>
  <2>1. FillReport(r)
    <3> SUFFICES ASSUME ~FillReport(r) PROVE FALSE
      OBVIOUS
    <3>1. text' = text
      BY <1>1, StepFilled
    <3> QED
      BY <1>3, <3>1
  <2>2. s = r /\ pc[r] = "fill" /\ UNCHANGED rank
    BY <1>1, <1>3, <2>1 DEF FillReport, ident, ReportTypes
  <2>3. Settled(r)
    BY <2>2 DEF Settled, Closing
  <2>4. Knows(r)
    BY <2>3 DEF ReportInv, Contributed
  <2> QED
    BY <2>2, <2>4 DEF Knows
<1> QED
  BY <1>2, <1>3

LEMMA SampledStays ==
  ASSUME SampledInv, [RepNext]_repVars
  PROVE  SampledInv'
<1>1. CrunchedInv' /\ ReportInv
  BY CrunchedStays DEF SampledInv, CrunchedInv, WrittenInv
<1>2. CASE UNCHANGED vars
  <2>1. UNCHANGED <<program, k, all, mpi, rank, text>>
    BY <1>2 DEF vars, data, ident, out
  <2> QED
    BY <1>1, <2>1 DEF SampledInv, Sampled, Named
<1>3. CASE Next
  <2>1. PICK r \in Rank : Step(r) \/ Fault(r)
    BY <1>3 DEF Next
  <2>2. ControlTypes /\ MemoryTypes
    BY <1>1 DEF ReportInv, CourseInv, ChargeInv, AllTyped
  <2>3. (\A s \in Rank : Sampled(s)) /\ (\A s \in Rank : Named(s))
    BY DEF SampledInv
  <2>4. \A s \in Rank : Sampled(s)'
    BY <2>1, <2>2, <2>3, StepSampled
  <2>5. \A s \in Rank : Named(s)'
    BY <1>1, <2>1, <2>3, StepNamed
  <2> QED
    BY <1>1, <2>4, <2>5 DEF SampledInv
<1> QED
  BY <1>2, <1>3 DEF RepNext, repVars, Crunch, Raise

(* There is a time for each sample, and times do not go back.              *)
LEMMA SamplesAreSteady ==
  ASSUME SampledInv, NEW r \in Rank
  PROVE  /\ Steady(MpiTimes(r), Totals(mpi[r])) /\ Len(Totals(mpi[r])) = Len(mpi[r])
         /\ Steady(AllTimes(r), all[r])
<1>1. ControlTypes /\ MemoryTypes /\ Sampled(r)
  BY DEF SampledInv, CrunchedInv, WrittenInv, ReportInv, CourseInv, ChargeInv, AllTyped
<1> DEFINE clock == program.clock[r]
           L == Len(clock)
<1>2. /\ clock \in Seq(Int) /\ L \in Nat /\ 2 * (1 + Len(program.calls[r])) <= L
      /\ \A m, n \in 1..L : m <= n => clock[m] <= clock[n]
  <2>1. /\ clock \in Seq(Int) /\ 2 * (1 + Len(program.calls[r])) <= L
        /\ \A m, n \in DOMAIN clock : m <= n => clock[m] <= clock[n]
    BY <1>1, ProgramsAssumption DEF ControlTypes
  <2> HIDE DEF clock
  <2> QED
    BY <2>1
<1>3. k[r] <= Len(program.calls[r]) + 1 /\ k[r] \in Nat /\ Len(program.calls[r]) \in Nat
  BY <1>1, CallsType DEF ControlTypes
<1>4. mpi[r] \in Seq(Int) /\ all[r] \in Seq(Nat) /\ Len(mpi[r]) \in Nat /\ Len(all[r]) \in Nat
  BY <1>1 DEF MemoryTypes
<1>5. Len(all[r]) = 2 * Len(mpi[r]) /\ 2 * Len(mpi[r]) <= L
  <2> DEFINE m == Len(mpi[r])
             c == Len(program.calls[r])
  <2>1. Len(all[r]) = 2 * m /\ m <= k[r]
    BY <1>1 DEF Sampled
  <2>2. m \in Nat /\ c \in Nat /\ k[r] \in Nat /\ L \in Nat /\ k[r] <= c + 1 /\ 2 * (1 + c) <= L
    BY <1>2, <1>3, <1>4
  <2> HIDE DEF m, c, L
  <2>3. 2 * m <= L
    BY ONLY <2>1, <2>2
  <2> QED
    BY <2>1, <2>3 DEF m
<1>6. Totals(mpi[r]) \in Seq(Int) /\ Len(Totals(mpi[r])) = Len(mpi[r]) /\ all[r] \in Seq(Int)
  BY <1>4, TotalsType
<1> HIDE DEF clock
<1> HIDE DEF L
<1>7. ASSUME NEW n \in 1..Len(all[r]) PROVE AllTimes(r)[n] = clock[n] /\ n \in 1..L /\ clock[n] \in Int
  <2>1. AllTimes(r)[n] = clock[n]
    BY DEF AllTimes, clock
  <2>2. n \in 1..L
    BY <1>2, <1>4, <1>5
  <2>3. clock[n] \in Int
    <3>1. n \in 1..Len(clock) /\ clock \in Seq(Int)
      BY <1>2, <2>2 DEF L
    <3> QED
      BY ONLY <3>1
  <2> QED
    BY <2>1, <2>2, <2>3
<1>8. ASSUME NEW n \in 1..Len(mpi[r])
      PROVE  MpiTimes(r)[n] = clock[2 * n] /\ 2 * n \in 1..L /\ clock[2 * n] \in Int
  <2>1. L \in Nat /\ Len(mpi[r]) \in Nat /\ 2 * Len(mpi[r]) <= L
    BY <1>2, <1>4, <1>5
  <2>2. 2 * n \in 1..L
    BY <2>1
  <2>3. n \in 1..(L \div 2)
    BY <2>1
  <2>4. clock[2 * n] \in Int
    <3>1. 2 * n \in 1..Len(clock) /\ clock \in Seq(Int)
      BY <1>2, <2>2 DEF L
    <3> QED
      BY ONLY <3>1
  <2>5. MpiTimes(r) = [m \in 1..(L \div 2) |-> clock[2 * m]]
    BY DEF MpiTimes, clock, L
  <2>6. MpiTimes(r)[n] = clock[2 * n]
    BY ONLY <2>3, <2>5
  <2> QED
    BY <2>2, <2>4, <2>6
<1>9. Steady(AllTimes(r), all[r])
  <2>1. ASSUME NEW m \in 1..Len(all[r]), NEW n \in 1..Len(all[r]), m <= n
        PROVE  AllTimes(r)[m] <= AllTimes(r)[n]
    BY <1>2, <1>7, <2>1
  <2> QED
    BY <1>6, <1>7, <2>1 DEF Steady
<1>10. Steady(MpiTimes(r), Totals(mpi[r]))
  <2>1. ASSUME NEW m \in 1..Len(mpi[r]), NEW n \in 1..Len(mpi[r]), m <= n
        PROVE  MpiTimes(r)[m] <= MpiTimes(r)[n]
    <3>1. 2 * m <= 2 * n
      BY <1>4, <2>1
    <3>2. /\ MpiTimes(r)[m] = clock[2 * m] /\ 2 * m \in 1..L
          /\ MpiTimes(r)[n] = clock[2 * n] /\ 2 * n \in 1..L
      BY <1>8
    <3>3. clock[2 * m] <= clock[2 * n]
      BY <1>2, <3>1, <3>2
    <3> QED
      BY <3>2, <3>3
  <2>2. \A n \in 1..Len(mpi[r]) : MpiTimes(r)[n] \in Int
    BY <1>8
  <2> QED
    BY <1>6, <2>1, <2>2 DEF Steady
<1> QED
  BY <1>6, <1>9, <1>10

-----------------------------------------------------------------------------
(* What the script finds of a rank in the report.                          *)

(* The block of a rank is its text but for the run information.            *)
LEMMA BlockIsText ==
  ASSUME CrunchedInv, HasResults, program.init = "MPI_Init", NEW r \in Rank
  PROVE  /\ Len(Joined[r]) \in Nat /\ Len(text[r]) \in Nat
         /\ Block(Report!InOrder, r + 1) = {Len(Joined[r]) + m : m \in 2..Len(text[r])}
         /\ \A m \in 1..Len(text[r]) : Report!InOrder[Len(Joined[r]) + m] = text[r][m]
<1> DEFINE J == Report!InOrder
           o == Len(Joined[r])
           l == Len(text[r])
           i == r + 1
<1>1. TextsAreTexts
  BY CrunchedWhole
<1>2. /\ Cardinality(meta_lines(J)) = N
      /\ \A j \in 1..N : meta_line(J, j) = Len(Joined[j - 1]) + 1
  <2>1. \A s \in Rank : /\ Len(text[s]) \in Nat /\ Len(text[s]) >= 1
                        /\ IsRunInfo(text[s][1])
                        /\ \A n \in 2..Len(text[s]) : ~IsRunInfo(text[s][n])
    BY CrunchedWhole, TextHasOneInfo
  <2> QED
    BY <1>1, <2>1, InfoByRank
<1>3. /\ J = Joined[N] /\ J \in Seq(Lines) /\ \A n \in 0..N : Len(Joined[n]) \in Nat
      /\ Joined[i] = Joined[r] \o text[r] /\ Joined[r] \in Seq(Lines) /\ text[r] \in Seq(Lines)
      /\ r \in 0..N /\ i \in 1..N /\ i - 1 = r /\ r < N /\ N \in 0..N /\ N \in Nat
  <2>1. N \in Nat /\ N \in 0..N /\ r \in 0..N /\ i \in 1..N /\ i - 1 = r /\ r < N
    BY NAssumption DEF Rank
  <2> HIDE DEF i, J
  <2>2. Joined \in [0..N -> Seq(Lines)] /\ Joined[i] = Joined[i - 1] \o text[i - 1] /\ J = Joined[N]
    BY <1>1, <2>1, JoinedDef DEF J
  <2> QED
    BY <1>1, <2>1, <2>2 DEF TextsAreTexts
<1>4. o \in Nat /\ l \in Nat /\ Len(Joined[i]) = o + l
  BY <1>3, ConcatIs
<1>5. \A m \in 1..l : o + m \in 1..Len(J) /\ J[o + m] = text[r][m]
  <2>1. Upto(N)
    BY <1>1, <1>3, JoinedUpto
  <2> QED
    BY <1>3, <2>1 DEF Upto
<1>6. DOMAIN J = 1..Len(J) /\ Len(J) \in Nat /\ (i = N => Len(J) = o + l)
  <2>1. i = N => Len(J) = o + l
    BY <1>3, <1>4
  <2>2. J \in Seq(Lines)
    BY <1>3
  <2> HIDE DEF J
  <2>3. DOMAIN J = 1..Len(J) /\ Len(J) \in Nat
    BY ONLY <2>2
  <2> QED
    BY <2>1, <2>3
<1>7. meta_line(J, i) = o + 1 /\ (i < N => meta_line(J, i + 1) = o + l + 1)
  <2>1. meta_line(J, i) = o + 1
    BY <1>2, <1>3
  <2>2. ASSUME i < N PROVE meta_line(J, i + 1) = o + l + 1
    <3>1. i + 1 \in 1..N /\ (i + 1) - 1 = i
      BY <1>3, <2>2
    <3> QED
      BY <1>2, <1>4, <3>1
  <2> QED
    BY <2>1, <2>2
<1> HIDE DEF J, o, l, i
<1>8. Block(J, i) = {p \in 1..Len(J) : o + 1 < p /\ (i < N => p < o + l + 1)}
  BY <1>2, <1>6, <1>7 DEF Block
<1>9. ASSUME NEW p \in Block(J, i) PROVE \E m \in 2..l : p = o + m
  <2>1. p \in 1..Len(J) /\ o + 1 < p /\ (i < N => p < o + l + 1)
    BY <1>8
  <2>2. p \in Int /\ p <= o + l
    BY <1>3, <1>4, <1>6, <2>1
  <2>3. o \in Nat /\ l \in Nat /\ o + 1 < p
    BY <1>4, <2>1
  <2>4. p - o \in 2..l /\ p = o + (p - o)
    BY ONLY <2>2, <2>3
  <2> QED
    BY <2>4
<1>10. ASSUME NEW m \in 2..l PROVE o + m \in Block(J, i)
  <2>1. m \in 1..l /\ o + 1 < o + m /\ o + m < o + l + 1
    BY <1>4
  <2> QED
    BY <1>5, <1>8, <2>1
<1>11. Block(J, i) = {o + m : m \in 2..l}
  BY <1>9, <1>10
<1> QED
  BY <1>4, <1>5, <1>11 DEF J, o, l, i

(* The lines of a key are those of these times and usages, from the        *)
(* position after off on, and the time series of the key is theirs.        *)
Listed(t, key, off, times, usage) ==
  /\ off \in Nat /\ Len(usage) \in Nat /\ 1 <= off /\ off + Len(usage) <= Len(t)
  /\ \A m \in 1..Len(usage) : t[off + m] = <<key, times[m], usage[m]>>
  /\ \A m \in 2..Len(t) : t[m][1] = key => m - off \in 1..Len(usage)

LEMMA LinesAreSeries ==
  ASSUME CrunchedInv, HasResults, program.init = "MPI_Init",
         NEW r \in Rank, NEW key, NEW times, NEW usage, NEW off, Listed(text[r], key, off, times, usage)
  PROVE  TimeSeries(Report!InOrder, r + 1, key) = Pairs(times, usage)
<1> DEFINE J == Report!InOrder
           o == Len(Joined[r])
           n == Len(usage)
           l == Len(text[r])
           at == [m \in 1..n |-> o + (off + m)]
           S == {p \in Block(J, r + 1) : J[p][1] = key}
<1>0. /\ off \in Nat /\ n \in Nat /\ 1 <= off /\ off + n <= l
      /\ \A m \in 1..n : text[r][off + m] = <<key, times[m], usage[m]>>
      /\ \A m \in 2..l : text[r][m][1] = key => m - off \in 1..n
  BY DEF Listed
<1>1. /\ o \in Nat /\ l \in Nat /\ n \in Nat
      /\ Block(J, r + 1) = {o + m : m \in 2..l}
      /\ \A m \in 1..l : J[o + m] = text[r][m]
  BY BlockIsText
<1> HIDE DEF J, o, l
<1>2. at \in [1..n -> Int] /\ Ascends(n, at)
  <2> HIDE DEF n
  <2> QED
    BY <1>0, <1>1 DEF Ascends
<1>3. \A m \in 1..n : off + m \in 2..l /\ off + m \in 1..l /\ at[m] = o + (off + m)
  BY <1>0, <1>1
<1>4. ASSUME NEW m \in 1..n PROVE J[at[m]] = <<key, times[m], usage[m]>>
  BY <1>0, <1>1, <1>3, <1>4
<1> HIDE DEF at
<1>5. S = {at[m] : m \in 1..n}
  <2>1. ASSUME NEW m \in 1..n PROVE at[m] \in S
    <3>1. J[at[m]][1] = key
      BY <1>4
    <3> QED
      BY <1>1, <1>3, <3>1
  <2>2. ASSUME NEW p \in S PROVE \E m \in 1..n : p = at[m]
    <3>1. p \in Block(J, r + 1) /\ J[p][1] = key
      OBVIOUS
    <3>2. PICK h \in 2..l : p = o + h
      BY <1>1, <3>1
    <3>3. h \in 1..l
      BY <1>1
    <3>4. text[r][h][1] = key
      BY <1>1, <3>1, <3>2, <3>3
    <3>5. h - off \in 1..n
      BY <1>0, <3>4
    <3>6. off + (h - off) = h
      BY <1>0
    <3>7. p = at[h - off]
      BY <1>3, <3>2, <3>5, <3>6
    <3> QED
      BY <3>5, <3>7
  <2> HIDE DEF S, n
  <2> QED
    BY <2>1, <2>2
<1> HIDE DEF S, n
<1>6. InOrder(S) = at
  BY <1>1, <1>2, <1>5, InOrderAscends
<1>7. DOMAIN at = 1..n
  BY <1>2
<1>8. TimeSeries(J, r + 1, key) = [m \in 1..n |-> <<J[at[m]][2], J[at[m]][3]>>]
  BY <1>6, <1>7 DEF TimeSeries, S
<1>9. ASSUME NEW m \in 1..n PROVE J[at[m]][2] = times[m] /\ J[at[m]][3] = usage[m]
  <2>1. J[at[m]] = <<key, times[m], usage[m]>>
    BY <1>4
  <2> QED
    BY ONLY <2>1
<1> QED
  BY <1>8, <1>9 DEF Pairs, J, n

(* The columns of rank r.                                                  *)
TimesIn(key) == [r \in Rank |-> IF key = "MPI_MEM_USAGE" THEN MpiTimes(r) ELSE AllTimes(r)]

UsageIn(key) == [r \in Rank |-> IF key = "MPI_MEM_USAGE" THEN Totals(mpi[r]) ELSE all[r]]

LEMMA SeriesOfRank ==
  ASSUME SampledInv, HasResults, program.init = "MPI_Init",
         NEW r \in Rank, NEW key \in {"MPI_MEM_USAGE", "ALL_MEM_USAGE"}
  PROVE  TimeSeries(Report!InOrder, r + 1, key) = Pairs(TimesIn(key)[r], UsageIn(key)[r])
<1>1. CrunchedInv
  BY DEF SampledInv
<1>2. MemoryTypes /\ text[r] = Text(r)
  BY <1>1, CrunchedWhole
<1> DEFINE a == Len(mpi[r])
           b == Len(all[r])
           T == Totals(mpi[r])
<1>3. a \in Nat /\ b \in Nat /\ Len(T) = a
  <2>1. mpi[r] \in Seq(Int)
    BY <1>2 DEF MemoryTypes
  <2> QED
    BY <1>2, <2>1, TotalsType DEF MemoryTypes
<1>4. /\ Len(text[r]) = (1 + a) + b
      /\ \A n \in 1..a : text[r][1 + n] = <<"MPI_MEM_USAGE", MpiTimes(r)[n], T[n]>>
      /\ \A n \in 1..b : text[r][(1 + a) + n] = <<"ALL_MEM_USAGE", AllTimes(r)[n], all[r][n]>>
  <2>1. Lined(text[r], r)
    BY <1>2, TextHasOneInfo
  <2> QED
    BY <2>1 DEF Lined
<1> HIDE DEF a, b, T
<1>5. ASSUME NEW m \in 2..Len(text[r])
      PROVE  \/ m - 1 \in 1..a /\ text[r][m][1] = "MPI_MEM_USAGE"
             \/ m - (1 + a) \in 1..b /\ text[r][m][1] = "ALL_MEM_USAGE"
  <2>1. CASE m <= 1 + a
    <3>0. a \in Nat /\ b \in Nat /\ m \in 2..((1 + a) + b) /\ m <= 1 + a
      BY <1>3, <1>4, <2>1
    <3>1. m - 1 \in 1..a /\ 1 + (m - 1) = m
      BY ONLY <3>0
    <3>2. text[r][m] = <<"MPI_MEM_USAGE", MpiTimes(r)[m - 1], T[m - 1]>>
      BY <1>4, <3>1
    <3> QED
      BY <3>1, <3>2
  <2>2. CASE ~(m <= 1 + a)
    <3>0. a \in Nat /\ b \in Nat /\ m \in 2..((1 + a) + b) /\ ~(m <= 1 + a)
      BY <1>3, <1>4, <2>2
    <3>1. m - (1 + a) \in 1..b /\ (1 + a) + (m - (1 + a)) = m
      BY ONLY <3>0
    <3>2. text[r][m] = <<"ALL_MEM_USAGE", AllTimes(r)[m - (1 + a)], all[r][m - (1 + a)]>>
      BY <1>4, <3>1
    <3> QED
      BY <3>1, <3>2
  <2> QED
    BY <2>1, <2>2
<1>6. CASE key = "MPI_MEM_USAGE"
  <2>1. \A m \in 2..Len(text[r]) : text[r][m][1] = key => m - 1 \in 1..a
    BY <1>5, <1>6
  <2>2. 1 + a <= Len(text[r])
    BY <1>3, <1>4
  <2>3. Listed(text[r], key, 1, MpiTimes(r), T)
    <3>1. \A n \in 1..a : text[r][1 + n] = <<key, MpiTimes(r)[n], T[n]>>
      BY <1>4, <1>6
    <3>2. a \in Nat /\ Len(T) = a /\ 1 \in Nat /\ 1 <= 1
      BY <1>3
    <3> QED
      BY <2>1, <2>2, <3>1, <3>2 DEF Listed
  <2>4. TimeSeries(Report!InOrder, r + 1, key) = Pairs(MpiTimes(r), T)
    BY <1>1, <2>3, LinesAreSeries
  <2> QED
    BY <1>6, <2>4 DEF TimesIn, UsageIn, T
<1>7. CASE key = "ALL_MEM_USAGE"
  <2>1. \A m \in 2..Len(text[r]) : text[r][m][1] = key => m - (1 + a) \in 1..b
    BY <1>5, <1>7
  <2>2. (1 + a) + b <= Len(text[r]) /\ 1 + a \in Nat /\ 1 <= 1 + a
    BY <1>3, <1>4
  <2>3. /\ \A n \in 1..b : text[r][(1 + a) + n] = <<key, AllTimes(r)[n], all[r][n]>>
        /\ b \in Nat
    BY <1>3, <1>4, <1>7
  <2>4. TimeSeries(Report!InOrder, r + 1, key) = Pairs(AllTimes(r), all[r])
    <3>1. Listed(text[r], key, 1 + a, AllTimes(r), all[r])
      BY <2>1, <2>2, <2>3 DEF Listed, b
    <3> QED
      BY <1>1, <3>1, LinesAreSeries
  <2> QED
    BY <1>7, <2>4 DEF TimesIn, UsageIn
<1> QED
  BY <1>6, <1>7

(* What the script reads of a key is what the ranks have, each under its   *)
(* own rank.                                                               *)
LEMMA SeriesAreOwn ==
  ASSUME SampledInv, HasResults, program.init = "MPI_Init",
         NEW key \in {"MPI_MEM_USAGE", "ALL_MEM_USAGE"}
  PROVE  rank_to_time_series(file.content, key) = SeriesOf(TimesIn(key), UsageIn(key))
<1> DEFINE meta == run_meta(file.content)
           of(rk) == CHOOSE i \in DOMAIN meta :
                       meta[i][2] = rk /\ \A j \in DOMAIN meta : meta[j][2] = rk => j <= i
           ranks == {meta[i][2] : i \in DOMAIN meta}
           L(r) == TimeSeries(Report!InOrder, of(r), key)
           R(r) == Pairs(TimesIn(key)[r], UsageIn(key)[r])
<1>1. CrunchedInv /\ \A r \in Rank : Named(r)
  BY DEF SampledInv
<1>2. /\ file.content = Report!InOrder
      /\ \A r \in Rank : text[r] # << >>
  BY <1>1, CrunchedWhole
<1>3. meta = [i \in 1..N |-> text[i - 1][1]]
  BY <1>1, ResultsAreOwn
<1>4. ASSUME NEW r \in Rank PROVE text[r][1][2] = r
  <2>1. text[r][1] = <<"RUN", rank[r], numpe[r], Len(all[r]), High(Totals(mpi[r])), High(all[r])>>
    BY <1>1, ResultsAreOwn
  <2>2. rank[r] = r
    BY <1>1, <1>2 DEF Named
  <2> QED
    BY <2>1, <2>2
<1>5. /\ N \in Nat /\ \A i \in 1..N : i - 1 \in Rank
      /\ \A r \in Rank : r + 1 \in 1..N /\ (r + 1) - 1 = r /\ r \in Int
  BY NAssumption DEF Rank
<1>6. DOMAIN meta = 1..N /\ \A i \in 1..N : meta[i][2] = i - 1
  BY <1>3, <1>4, <1>5
<1>7. rank_to_time_series(file.content, key) = [r \in ranks |-> L(r)]
  BY <1>2 DEF rank_to_time_series
<1> HIDE DEF meta
<1>8. ranks = Rank
  <2>1. \A r \in Rank : \E i \in 1..N : r = meta[i][2]
    <3> SUFFICES ASSUME NEW r \in Rank PROVE \E i \in 1..N : r = meta[i][2]
      OBVIOUS
    <3>1. r + 1 \in 1..N /\ meta[r + 1][2] = r
      BY <1>5, <1>6
    <3> QED
      BY <3>1
  <2>2. \A i \in 1..N : meta[i][2] \in Rank
    BY <1>5, <1>6
  <2> QED
    BY <1>6, <2>1, <2>2
<1>9. ASSUME NEW r \in Rank PROVE of(r) = r + 1
  <2> DEFINE Is(i) == meta[i][2] = r /\ \A j \in DOMAIN meta : meta[j][2] = r => j <= i
  <2>1. r + 1 \in DOMAIN meta /\ Is(r + 1)
    BY <1>5, <1>6
  <2>2. \A i \in DOMAIN meta : Is(i) => i = r + 1
    BY <1>5, <1>6
  <2>3. of(r) = CHOOSE i \in DOMAIN meta : Is(i)
    OBVIOUS
  <2> HIDE DEF Is, of
  <2> QED
    BY <2>1, <2>2, <2>3
<1> HIDE DEF of, ranks
<1>10. ASSUME NEW r \in Rank PROVE L(r) = R(r)
  BY <1>9, SeriesOfRank
<1>11. SeriesOf(TimesIn(key), UsageIn(key)) = [r \in Rank |-> R(r)]
  BY DEF SeriesOf
<1> HIDE DEF L, R
<1> QED
  BY <1>7, <1>8, <1>10, <1>11

(* The aggregate of a key, in the terms of the property.                   *)
LEMMA AggregateOfKey ==
  ASSUME SampledInv, HasResults, program.init = "MPI_Init",
         NEW key \in {"MPI_MEM_USAGE", "ALL_MEM_USAGE"}
  PROVE  IsAggregate(stats.agg[key], TimesIn(key), UsageIn(key))
<1>1. CrunchedInv
  BY DEF SampledInv
<1>2. stats.agg[key] = accumulate(rank_to_time_series(file.content, key))
  <2>1. stats = Results(file.content)
    BY <1>1 DEF CrunchedInv
  <2> QED
    BY <2>1 DEF Results
<1>3. AllSteady(TimesIn(key), UsageIn(key))
  <2> SUFFICES ASSUME NEW r \in Rank PROVE Steady(TimesIn(key)[r], UsageIn(key)[r])
    BY DEF AllSteady
  <2>1. Steady(MpiTimes(r), Totals(mpi[r])) /\ Steady(AllTimes(r), all[r])
    BY SamplesAreSteady
  <2> QED
    BY <2>1 DEF TimesIn, UsageIn
<1>4. IsAggregate(accumulate(SeriesOf(TimesIn(key), UsageIn(key))), TimesIn(key), UsageIn(key))
  BY <1>3, AccumulateIsSum
<1> QED
  BY <1>2, <1>4, SeriesAreOwn

LEMMA AggregateOfReport == SampledInv => AggregateIsSum
<1> SUFFICES ASSUME SampledInv, HasResults, program.init = "MPI_Init", NEW key \in DOMAIN Usage
             PROVE  LET agg == stats.agg[key]  of == Usage[key] IN
                      /\ {agg[n][1] : n \in DOMAIN agg} =
                           UNION {{of[r].times[n] : n \in 1..Len(of[r].usage)} : r \in Rank}
                      /\ \A n \in DOMAIN agg :
                           /\ n > 1 => agg[n - 1][1] < agg[n][1]
                           /\ agg[n][2] =
                                Total([i \in 1..N |-> Held(of[i - 1].times, of[i - 1].usage, agg[n][1])])
  BY DEF AggregateIsSum
<1> DEFINE agg == stats.agg[key]
           of == Usage[key]
           times == TimesIn(key)
           usage == UsageIn(key)
<1>1. key \in {"MPI_MEM_USAGE", "ALL_MEM_USAGE"}
  BY DEF Usage
<1>2. IsAggregate(agg, times, usage)
  BY <1>1, AggregateOfKey
<1>3. \A r \in Rank : of[r].times = times[r] /\ of[r].usage = usage[r]
  <2>1. CASE key = "MPI_MEM_USAGE"
    BY <2>1 DEF Usage, TimesIn, UsageIn
  <2>2. CASE key = "ALL_MEM_USAGE"
    BY <2>2 DEF Usage, TimesIn, UsageIn
  <2> QED
    BY <1>1, <2>1, <2>2
<1>4. \A i \in 1..N : i - 1 \in Rank
  BY NAssumption DEF Rank
<1> HIDE DEF agg, of, times, usage
<1>5. UNION {{of[r].times[n] : n \in 1..Len(of[r].usage)} : r \in Rank} = Moments(times, usage)
  <2> DEFINE L(r) == {of[r].times[n] : n \in 1..Len(of[r].usage)}
             R(r) == TimesOf(times[r], usage[r])
  <2>1. \A r \in Rank : L(r) = R(r)
    BY <1>3 DEF TimesOf
  <2>2. Moments(times, usage) = UNION {R(r) : r \in Rank}
    BY DEF Moments
  <2> HIDE DEF L, R
  <2>3. UNION {L(r) : r \in Rank} = Moments(times, usage)
    BY <2>1, <2>2
  <2> QED
    BY <2>3 DEF L
<1>6. ASSUME NEW t
      PROVE  [i \in 1..N |-> Held(of[i - 1].times, of[i - 1].usage, t)]
               = [i \in 1..N |-> Held(times[i - 1], usage[i - 1], t)]
  BY <1>3, <1>4
<1>7. /\ {agg[n][1] : n \in DOMAIN agg} =
           UNION {{of[r].times[n] : n \in 1..Len(of[r].usage)} : r \in Rank}
      /\ \A n \in DOMAIN agg :
           /\ n > 1 => agg[n - 1][1] < agg[n][1]
           /\ agg[n][2] = Total([i \in 1..N |-> Held(of[i - 1].times, of[i - 1].usage, agg[n][1])])
  BY <1>2, <1>5, <1>6 DEF IsAggregate
<1> QED
  BY <1>7 DEF agg, of

(* The aggregate that memnesia-report makes of a report (accumulate of     *)
(* memnesia-report) has a value at every time at which some rank took a    *)
(* sample and at no other, and it is the sum of what the ranks held then.  *)
THEOREM AggregateOfAll == RepSpec => []AggregateIsSum
<1>1. RepInit => SampledInv
  BY InitSampled
<1>2. SampledInv /\ [RepNext]_repVars => SampledInv'
  BY SampledStays
<1>3. SampledInv => AggregateIsSum
  BY AggregateOfReport
<1> QED
  BY <1>1, <1>2, <1>3, PTL DEF RepSpec

-----------------------------------------------------------------------------
(***************************************************************************)
(* The sampler of smaps, module Smaps, which is a system of its own.       *)
(*                                                                         *)
(* SumOf is a recursive function of a file, over as many lines as it has.  *)
(* SumExists gives its recurrence, from that of the sums of a sequence;    *)
(* SamplerInv says in which entry the next line is, so that the header     *)
(* that decides about it is known (AddsHere).                              *)
(***************************************************************************)
(* The lines of a file, as FilesAssumption has them.                       *)
LEMMA LinesTyped ==
  ASSUME smaps \in Files
  PROVE  /\ Len(smaps) \in Nat
         /\ \A n \in 1..Len(smaps) :
              /\ smaps[n].key = "header" <=> n = 1 \/ smaps[n - 1].key = "VmFlags"
              /\ smaps[n].key \in Tallied => smaps[n].val \in Nat
<1>1. smaps \in Seq(SmapsLine)
  BY KeyAssumption, FilesAssumption
<1>2. Len(smaps) \in Nat /\ \A n \in 1..Len(smaps) : smaps[n] \in SmapsLine
  BY <1>1
<1>3. ASSUME NEW n \in 1..Len(smaps), smaps[n].key \in Tallied PROVE smaps[n].val \in Nat
  <2>1. smaps[n] \in SmapsLine /\ smaps[n].key # "header"
    BY <1>2, <1>3, KeyAssumption, FilesAssumption
  <2> QED
    BY <2>1 DEF SmapsLine
<1> QED
  BY <1>2, <1>3, KeyAssumption, FilesAssumption

(* What the lines up to each line add to a key.                            *)
Adds(n, key) == IF Counts(n, key) THEN smaps[n].val ELSE 0

IsSum(key, sum) ==
  /\ sum[0] = 0
  /\ \A n \in 1..Len(smaps) : sum[n] = sum[n - 1] + Adds(n, key)

(* The sums of a key along the file.                                       *)
LEMMA SumExists ==
  ASSUME smaps \in Files, NEW key \in Tallied
  PROVE  \E sum : /\ IsSum(key, sum)
                  /\ SumOf(key) = sum[line - 1]
                  /\ smaps' = smaps => SumOf(key)' = sum[line' - 1]
<1> DEFINE s == [n \in 1..Len(smaps) |-> Adds(n, key)]
           body(f) == [n \in 0..Len(smaps) |->
                        IF n = 0 THEN 0 ELSE f[n - 1] + IF Counts(n, key) THEN smaps[n].val ELSE 0]
           sum == CHOOSE f : f = body(f)
<1>1. Len(smaps) \in Nat /\ \A n \in 1..Len(smaps) : smaps[n].key \in Tallied => smaps[n].val \in Nat
  BY LinesTyped
<1>2. s \in Seq(Int) /\ Len(s) = Len(smaps)
  <2>1. \A n \in 1..Len(smaps) : Adds(n, key) \in Int
    BY <1>1 DEF Adds, Counts
  <2> QED
    BY <1>1, <2>1
<1>3. /\ Sum(s) \in [0..Len(smaps) -> Int] /\ Sum(s)[0] = 0
      /\ \A n \in 1..Len(smaps) : Sum(s)[n] = Sum(s)[n - 1] + Adds(n, key)
  <2>1. \A n \in 1..Len(smaps) : s[n] = Adds(n, key)
    OBVIOUS
  <2> HIDE DEF s
  <2> QED
    BY <1>2, <2>1, SumDef
<1>4. Sum(s) = body(Sum(s))
  <2> DEFINE F == Sum(s)
  <2> HIDE DEF F, s
  <2>1. /\ F \in [0..Len(smaps) -> Int] /\ F[0] = 0
        /\ \A n \in 1..Len(smaps) : F[n] = F[n - 1] + Adds(n, key)
    BY <1>3 DEF F
  <2>2. F = [n \in 0..Len(smaps) |-> F[n]]
    BY <2>1
  <2>3. \A n \in 0..Len(smaps) : F[n] = IF n = 0 THEN 0 ELSE F[n - 1] + Adds(n, key)
    BY <1>1, <2>1
  <2>4. F = body(F)
    BY <2>2, <2>3 DEF Adds
  <2> QED
    BY <2>4 DEF F
<1>5. sum = body(sum)
  BY <1>4
<1>6. IsSum(key, sum)
  <2> HIDE DEF sum
  <2>1. \A n \in 0..Len(smaps) : sum[n] = body(sum)[n]
    BY <1>5
  <2>2. 0 \in 0..Len(smaps) /\ \A n \in 1..Len(smaps) : n \in 0..Len(smaps) /\ n # 0
    BY <1>1
  <2> QED
    BY <2>1, <2>2 DEF IsSum, Adds
<1>7. SumOf(key) = sum[line - 1]
  BY DEF SumOf
<1>8. ASSUME smaps' = smaps PROVE SumOf(key)' = sum[line' - 1]
  BY <1>8 DEF SumOf, Counts, HeaderOf
<1> QED
  BY <1>6, <1>7, <1>8

(* What has been read of a file, and whose entry the line to be read is in. *)
InEntry(h) ==
  /\ smaps[h].key = "header"
  /\ \A j \in (h + 1)..(line - 1) : smaps[j].key # "header"

SamplerInv ==
  /\ smaps \in Files
  /\ line \in 1..(Len(smaps) + 1)
  /\ add \in BOOLEAN
  /\ sample \in [Tallied -> Int]
  /\ place = "header" => line = 1 \/ smaps[line - 1].key = "VmFlags"
  /\ place = "body" => /\ line > 1 /\ smaps[line - 1].key # "VmFlags"
                       /\ \E h \in 1..(line - 1) : InEntry(h) /\ add = ~smaps[h].trace
  /\ TallyIsSum

(* Reading a line adds what the line adds.                                 *)
LEMMA NextSum ==
  ASSUME smaps \in Files, smaps' = smaps,
         line \in 1..Len(smaps), line' = line + 1, NEW key \in Tallied
  PROVE  SumOf(key)' = SumOf(key) + Adds(line, key)
<1>1. PICK sum : /\ IsSum(key, sum)
                 /\ SumOf(key) = sum[line - 1]
                 /\ smaps' = smaps => SumOf(key)' = sum[line' - 1]
  BY SumExists
<1>2. sum[line] = sum[line - 1] + Adds(line, key)
  BY <1>1 DEF IsSum
<1>3. Len(smaps) \in Nat /\ line' - 1 = line
  BY LinesTyped
<1> QED
  BY <1>1, <1>2, <1>3

(* A line of the body is no header, the entry it is in goes on.            *)
LEMMA BodyLine ==
  ASSUME SamplerInv, Reading("body")
  PROVE  /\ Len(smaps) \in Nat /\ line \in 1..Len(smaps) /\ line > 1
         /\ smaps[line].key # "header"
         /\ \E h \in 1..(line - 1) : InEntry(h) /\ add = ~smaps[h].trace
<1>1. /\ Len(smaps) \in Nat /\ line \in 1..Len(smaps) /\ line > 1
      /\ smaps[line - 1].key # "VmFlags"
      /\ \E h \in 1..(line - 1) : InEntry(h) /\ add = ~smaps[h].trace
  BY LinesTyped DEF SamplerInv, Reading
<1>2. smaps[line].key # "header"
  BY <1>1, LinesTyped DEF SamplerInv
<1> QED
  BY <1>1, <1>2

(* The line to be read belongs to the entry of the last header.            *)
LEMMA AddsHere ==
  ASSUME SamplerInv, Reading("body"), NEW key \in Tallied
  PROVE  Adds(line, key) = IF add /\ smaps[line].key = key THEN smaps[line].val ELSE 0
<1>1. Len(smaps) \in Nat /\ line \in 1..Len(smaps) /\ line > 1 /\ smaps[line].key # "header"
  BY BodyLine
<1>2. PICK h \in 1..(line - 1) : InEntry(h) /\ add = ~smaps[h].trace
  BY BodyLine
<1> DEFINE Begins(x) == smaps[x].key = "header" /\ \A j \in (x + 1)..line : smaps[j].key # "header"
<1>3. h \in 1..line /\ Begins(h)
  BY <1>1, <1>2 DEF InEntry
<1>4. \A x \in 1..line : Begins(x) => x = h
  <2>1. ASSUME NEW x \in 1..line, Begins(x), x < h PROVE FALSE
    BY <1>1, <1>3, <2>1
  <2>2. ASSUME NEW x \in 1..line, Begins(x), h < x PROVE FALSE
    BY <1>1, <1>3, <2>2
  <2> QED
    BY <1>1, <2>1, <2>2
<1>5. HeaderOf(line) = CHOOSE x \in 1..line : Begins(x)
  BY DEF HeaderOf
<1> HIDE DEF Begins
<1>6. HeaderOf(line) = h
  BY <1>3, <1>4, <1>5
<1> QED
  BY <1>2, <1>6 DEF Adds, Counts

(* A header adds nothing.                                                  *)
LEMMA HeaderAdds ==
  ASSUME SamplerInv, Reading("header"), NEW key \in Tallied
  PROVE  smaps[line].key = "header" /\ Adds(line, key) = 0
<1>1. Len(smaps) \in Nat /\ line \in 1..Len(smaps)
  BY LinesTyped DEF SamplerInv, Reading
<1>2. smaps[line].key = "header"
  BY <1>1, LinesTyped DEF SamplerInv, Reading
<1>3. key # "header"
  BY KeyAssumption, FilesAssumption
<1> QED
  BY <1>2, <1>3 DEF Adds, Counts

(* Where nothing is read the sums stay.                                    *)
LEMMA SumStays ==
  ASSUME SamplerInv, UNCHANGED <<smaps, line, sample>>
  PROVE  TallyIsSum'
<1>1. ASSUME NEW key \in Tallied PROVE SumOf(key)' = SumOf(key)
  <2>1. PICK sum : /\ IsSum(key, sum)
                   /\ SumOf(key) = sum[line - 1]
                   /\ smaps' = smaps => SumOf(key)' = sum[line' - 1]
    BY SumExists DEF SamplerInv
  <2> QED
    BY <2>1
<1> QED
  BY <1>1 DEF SamplerInv, TallyIsSum

(* A line that is read adds what it should.                                *)
LEMMA SumFollows ==
  ASSUME SamplerInv, smaps' = smaps, line \in 1..Len(smaps), line' = line + 1,
         \A key \in Tallied : sample'[key] = sample[key] + Adds(line, key)
  PROVE  TallyIsSum'
<1>1. ASSUME NEW key \in Tallied PROVE SumOf(key)' = SumOf(key) + Adds(line, key)
  BY NextSum DEF SamplerInv
<1> QED
  BY <1>1 DEF SamplerInv, TallyIsSum

(* A line of the body leaves the entry as it is.                           *)
LEMMA EntryGoesOn ==
  ASSUME SamplerInv, Reading("body"), smaps' = smaps, add' = add,
         line' = line + 1
  PROVE  \E h \in 1..(line' - 1) : InEntry(h)' /\ add' = ~smaps'[h].trace
<1>1. PICK h \in 1..(line - 1) : InEntry(h) /\ add = ~smaps[h].trace
  BY BodyLine
<1>2. line \in 1..Len(smaps) /\ Len(smaps) \in Nat /\ smaps[line].key # "header"
  BY BodyLine
<1> QED
  BY <1>1, <1>2 DEF InEntry

(* The value of a line goes to its key, where the entry counts.            *)
LEMMA TallyAdds ==
  ASSUME SamplerInv, Reading("body"),
         smaps[line].key \in Tallied, sample' = Added
  PROVE  /\ sample' \in [Tallied -> Int]
         /\ \A key \in Tallied : sample'[key] = sample[key] + Adds(line, key)
<1>1. smaps[line].val \in Int
  BY BodyLine, LinesTyped DEF SamplerInv
<1>2. sample' = IF add THEN [sample EXCEPT ![smaps[line].key] = @ + smaps[line].val] ELSE sample
  BY DEF Added, ThisLine
<1>3. sample \in [Tallied -> Int]
  BY DEF SamplerInv
<1>4. ASSUME NEW key \in Tallied PROVE sample'[key] = sample[key] + Adds(line, key)
  <2>1. Adds(line, key) = IF add /\ smaps[line].key = key THEN smaps[line].val ELSE 0
    BY AddsHere
  <2> QED
    BY <1>1, <1>2, <1>3, <2>1
<1> QED
  BY <1>1, <1>2, <1>3, <1>4

(* Nothing is read and nothing is added.                                   *)
LEMMA SamplerStart == SamplerInit => SamplerInv
<1> SUFFICES ASSUME SamplerInit PROVE SamplerInv
  OBVIOUS
<1>1. /\ smaps \in Files /\ line = 1 /\ place = "header" /\ add = FALSE
      /\ sample = [key \in Tallied |-> 0]
  BY DEF SamplerInit
<1>2. ASSUME NEW key \in Tallied PROVE SumOf(key) = 0
  BY <1>1, SumExists DEF IsSum
<1>3. Len(smaps) \in Nat
  BY <1>1, LinesTyped
<1>4. sample \in [Tallied -> Int] /\ \A key \in Tallied : sample[key] = 0
  BY <1>1
<1>5. TallyIsSum
  BY <1>2, <1>4 DEF TallyIsSum
<1>6. line \in 1..(Len(smaps) + 1) /\ smaps \in Files /\ add \in BOOLEAN
  <2>1. smaps \in Files /\ line = 1 /\ add \in BOOLEAN
    BY <1>1
  <2> QED
    BY ONLY <1>3, <2>1
<1>7. line = 1 /\ ~(place = "body")
  BY <1>1
<1> QED
  BY ONLY <1>4, <1>5, <1>6, <1>7 DEF SamplerInv

(* Each line that is read, and the lines that end the reading.             *)
LEMMA SamplerStep ==
  ASSUME SamplerInv, [SamplerNext]_samplerVars
  PROVE  SamplerInv'
<1> USE DEF SamplerInv
<1>0. Len(smaps) \in Nat /\ smaps \in Files /\ line \in 1..(Len(smaps) + 1)
  BY LinesTyped
<1>1. CASE ParseHeader
  <2>1. /\ smaps' = smaps /\ line \in 1..Len(smaps) /\ line' = line + 1 /\ place' = "body"
        /\ add' = ~smaps[line].trace /\ sample' = sample /\ Reading("header")
    BY <1>0, <1>1 DEF ParseHeader, Reading, ThisLine
  <2>2. smaps[line].key = "header" /\ smaps[line].key # "VmFlags"
    <3>1. smaps[line].key = "header"
      BY <2>1, <1>0, LinesTyped DEF Reading
    <3> QED
      BY <3>1
  <2>3. \A key \in Tallied : sample'[key] = sample[key] + Adds(line, key)
    BY <2>1, HeaderAdds
  <2>4. TallyIsSum'
    BY <2>1, <2>3, SumFollows
  <2>5. \E h \in 1..(line' - 1) : InEntry(h)' /\ add' = ~smaps'[h].trace
    <3>1. PICK h \in 1..Len(smaps) : h = line
      BY <2>1
    <3>2. InEntry(h)'
      BY <1>0, <2>1, <2>2, <3>1 DEF InEntry
    <3> QED
      BY <1>0, <2>1, <3>1, <3>2
  <2> QED
    BY <1>0, <2>1, <2>2, <2>4, <2>5
<1>2. CASE NoMoreLines
  <2>1. place' = "done" /\ UNCHANGED <<smaps, line, add, sample>>
    BY <1>2 DEF NoMoreLines
  <2>2. TallyIsSum'
    BY <2>1, SumStays
  <2> QED
    BY <2>1, <2>2
<1>3. CASE NoUnits
  <2>1. place' = "failed" /\ UNCHANGED <<smaps, line, add, sample>>
    BY <1>3 DEF NoUnits
  <2>2. TallyIsSum'
    BY <2>1, SumStays
  <2> QED
    BY <2>1, <2>2
<1>4. CASE Ignore
  <2>1. /\ smaps' = smaps /\ line' = line + 1 /\ place' = place /\ add' = add /\ sample' = sample
        /\ smaps[line].key = Other /\ Reading("body")
    BY <1>4 DEF Ignore, ThisLine
  <2>2. line \in 1..Len(smaps) /\ place = "body"
    BY <2>1, BodyLine DEF Reading
  <2>3. \A key \in Tallied : sample'[key] = sample[key] + Adds(line, key)
    BY <2>1, KeyAssumption DEF Adds, Counts
  <2>4. TallyIsSum'
    BY <2>1, <2>2, <2>3, SumFollows
  <2>5. \E h \in 1..(line' - 1) : InEntry(h)' /\ add' = ~smaps'[h].trace
    BY <2>1, EntryGoesOn
  <2>6. smaps[line].key # "VmFlags"
    BY <2>1, KeyAssumption, FilesAssumption
  <2> QED
    BY <1>0, <2>1, <2>2, <2>4, <2>5, <2>6
<1>5. CASE EndOfEntry
  <2>1. /\ smaps' = smaps /\ line' = line + 1 /\ place' = "header" /\ add' = add
        /\ sample' = sample /\ smaps[line].key = "VmFlags" /\ Reading("body")
    BY <1>5 DEF EndOfEntry, ThisLine
  <2>2. line \in 1..Len(smaps)
    BY <2>1, BodyLine
  <2>3. \A key \in Tallied : sample'[key] = sample[key] + Adds(line, key)
    BY <2>1, KeyAssumption DEF Adds, Counts
  <2>4. TallyIsSum'
    BY <2>1, <2>2, <2>3, SumFollows
  <2> QED
    BY <1>0, <2>1, <2>2, <2>4
<1>6. CASE Tally
  <2>1. /\ smaps' = smaps /\ line' = line + 1 /\ place' = place /\ add' = add
        /\ sample' = Added /\ smaps[line].key \in Tallied /\ Reading("body")
    BY <1>6 DEF Tally, ThisLine
  <2>2. line \in 1..Len(smaps) /\ place = "body"
    BY <2>1, BodyLine DEF Reading
  <2>3. /\ sample' \in [Tallied -> Int]
        /\ \A key \in Tallied : sample'[key] = sample[key] + Adds(line, key)
    BY <2>1, TallyAdds
  <2>4. TallyIsSum'
    BY <2>1, <2>2, <2>3, SumFollows
  <2>5. \E h \in 1..(line' - 1) : InEntry(h)' /\ add' = ~smaps'[h].trace
    BY <2>1, EntryGoesOn
  <2>6. smaps[line].key # "VmFlags"
    BY <2>1, KeyAssumption, FilesAssumption
  <2> QED
    BY <1>0, <2>1, <2>2, <2>3, <2>4, <2>5, <2>6
<1>7. CASE WrongUnits
  <2>1. /\ smaps' = smaps /\ line' = line + 1 /\ place' = "failed" /\ add' = add
        /\ sample' = Added /\ smaps[line].key \in Tallied /\ Reading("body")
    BY <1>7 DEF WrongUnits, ThisLine
  <2>2. line \in 1..Len(smaps)
    BY <2>1, BodyLine
  <2>3. /\ sample' \in [Tallied -> Int]
        /\ \A key \in Tallied : sample'[key] = sample[key] + Adds(line, key)
    BY <2>1, TallyAdds
  <2>4. TallyIsSum'
    BY <2>1, <2>2, <2>3, SumFollows
  <2> QED
    BY <1>0, <2>1, <2>2, <2>3, <2>4
<1>8. CASE UNCHANGED samplerVars
  <2>1. UNCHANGED <<smaps, line, place, add, sample>>
    BY <1>8 DEF samplerVars
  <2>2. TallyIsSum'
    BY <2>1, SumStays
  <2> QED
    BY <2>1, <2>2 DEF InEntry
<1> QED
  BY <1>1, <1>2, <1>3, <1>4, <1>5, <1>6, <1>7, <1>8 DEF SamplerNext

(* A sample is the sum over all mappings read so far but those of the      *)
(* library itself: what is decided at the header of an entry holds for all *)
(* its lines and for no others, in files as long as one likes.             *)
THEOREM SampleIsSum == SamplerSpec => []TallyIsSum
<1>1. SamplerInit => SamplerInv
  BY SamplerStart
<1>2. SamplerInv /\ [SamplerNext]_samplerVars => SamplerInv'
  BY SamplerStep
<1>3. SamplerInv => TallyIsSum
  BY DEF SamplerInv
<1> QED
  BY <1>1, <1>2, <1>3, PTL DEF SamplerSpec

=============================================================================
