--------------------------- MODULE LocalityProofs ---------------------------
(***************************************************************************)
(* That colors tell nodes apart, for every number of processes, every      *)
(* placement and every arrangement qsort may leave.  The color of a        *)
(* process is the number of runs of equal entries that start before the    *)
(* first entry with its number; two nodes have different first entries,    *)
(* and a run starts at the later of the two.                               *)
(***************************************************************************)
EXTENDS Locality, FiniteSetTheorems, TLAPS

(* Where a run of equal entries starts, from entry 1 to entry k.           *)
RunStarts(k) == {j \in 1..k : sorted[j] # sorted[j - 1]}

IsFirst(k, n) == sorted[k] = n /\ \A j \in 0..(k - 1) : sorted[j] # n

(* Every process finds its number in the array.                            *)
Listed == \A r \in Rank : \E k \in Rank : sorted[k] = netnum[r]

(* The numbers before i are others'; prev_num and node_i belong to entry p. *)
ScannedTo(r, p) ==
  /\ p \in Rank
  /\ prev_num[r] = sorted[p]
  /\ node_i[r] = Cardinality(RunStarts(p))
  /\ \A j \in 0..(i[r] - 1) : sorted[j] # netnum[r]

Colored(r) ==
  \E k \in Rank : IsFirst(k, netnum[r]) /\ color[r] = Cardinality(RunStarts(k))

Progress(r) ==
  /\ pc[r] = "scan" => ScannedTo(r, i[r])
  /\ pc[r] = "skip" => /\ prev_num[r] # netnum[r]
                       /\ ScannedTo(r, i[r]) \/ ScannedTo(r, i[r] - 1)
  /\ pc[r] \in {"split", "done"} => Colored(r)
  /\ pc[r] = "done" => smp[r] = {s \in Rank : netnum[s] = netnum[r]}

LocInv ==
  /\ TypeOK
  /\ Listed
  /\ \A r \in Rank : Progress(r)

-----------------------------------------------------------------------------
LEMMA RunStartsBound ==
  ASSUME NEW k \in Rank
  PROVE  IsFiniteSet(RunStarts(k)) /\ Cardinality(RunStarts(k)) \in 0..k
<1>1. k \in Nat
  BY NAssumption DEF Rank
<1>2. IsFiniteSet(1..k) /\ Cardinality(1..k) = k
  BY <1>1, FS_Interval
<1>3. RunStarts(k) \in SUBSET (1..k)
  BY DEF RunStarts
<1>4. IsFiniteSet(RunStarts(k)) /\ Cardinality(RunStarts(k)) <= k
  BY <1>2, <1>3, FS_Subset
<1> QED
  BY <1>1, <1>4, FS_CardinalityType

(* The next entry starts a run, or not.                                    *)
LEMMA RunStartsNext ==
  ASSUME NEW k \in Rank, k + 1 \in Rank
  PROVE  Cardinality(RunStarts(k + 1)) =
           Cardinality(RunStarts(k)) + (IF sorted[k + 1] = sorted[k] THEN 0 ELSE 1)
<1>1. k \in Nat
  BY NAssumption DEF Rank
<1>2. IsFiniteSet(RunStarts(k)) /\ Cardinality(RunStarts(k)) \in Nat
  BY <1>1, RunStartsBound
<1>3. CASE sorted[k + 1] = sorted[k]
  <2>1. RunStarts(k + 1) = RunStarts(k)
    BY <1>1, <1>3 DEF RunStarts
  <2> QED
    BY <1>2, <1>3, <2>1
<1>4. CASE sorted[k + 1] # sorted[k]
  <2>1. RunStarts(k + 1) = RunStarts(k) \cup {k + 1}
    BY <1>1, <1>4 DEF RunStarts
  <2>2. k + 1 \notin RunStarts(k)
    BY <1>1 DEF RunStarts
  <2>3. Cardinality(RunStarts(k) \cup {k + 1}) = Cardinality(RunStarts(k)) + 1
    BY <1>2, <2>2, FS_AddElement
  <2> QED
    BY <1>4, <2>1, <2>3
<1> QED
  BY <1>3, <1>4

(* A run starts at the first entry of a number other than the one at 0.    *)
LEMMA FirstsDiffer ==
  ASSUME NEW k \in Rank, NEW l \in Rank, k < l, NEW n, IsFirst(l, n)
  PROVE  Cardinality(RunStarts(k)) < Cardinality(RunStarts(l))
<1>1. k \in Nat /\ l \in Nat
  BY NAssumption DEF Rank
<1>2. l \in RunStarts(l)
  BY <1>1 DEF RunStarts, IsFirst
<1>3. RunStarts(k) \cup {l} \subseteq RunStarts(l) /\ l \notin RunStarts(k)
  BY <1>1, <1>2 DEF RunStarts
<1>4. /\ IsFiniteSet(RunStarts(k)) /\ Cardinality(RunStarts(k)) \in Nat
      /\ IsFiniteSet(RunStarts(l)) /\ Cardinality(RunStarts(l)) \in Nat
  BY <1>1, RunStartsBound
<1>5. Cardinality(RunStarts(k) \cup {l}) = Cardinality(RunStarts(k)) + 1
  BY <1>3, <1>4, FS_AddElement
<1>6. Cardinality(RunStarts(k) \cup {l}) <= Cardinality(RunStarts(l))
  BY <1>3, <1>4, FS_Subset
<1> QED
  BY <1>4, <1>5, <1>6

LEMMA ColorsTellNodes ==
  ASSUME NEW r \in Rank, NEW s \in Rank, Colored(r), Colored(s)
  PROVE  color[r] = color[s] <=> netnum[r] = netnum[s]
<1>1. PICK k \in Rank : IsFirst(k, netnum[r]) /\ color[r] = Cardinality(RunStarts(k))
  BY DEF Colored
<1>2. PICK l \in Rank : IsFirst(l, netnum[s]) /\ color[s] = Cardinality(RunStarts(l))
  BY DEF Colored
<1>3. k \in Nat /\ l \in Nat
  BY NAssumption DEF Rank
<1>4. color[r] \in Nat /\ color[s] \in Nat
  BY <1>1, <1>2, <1>3, RunStartsBound
<1>5. CASE k = l
  BY <1>1, <1>2, <1>5 DEF IsFirst
<1>6. CASE k < l
  <2>1. color[r] < color[s]
    BY <1>1, <1>2, <1>6, FirstsDiffer
  <2>2. netnum[r] # netnum[s]
    BY <1>1, <1>2, <1>3, <1>6 DEF IsFirst
  <2> QED
    BY <1>4, <2>1, <2>2
<1>7. CASE l < k
  <2>1. color[s] < color[r]
    BY <1>1, <1>2, <1>7, FirstsDiffer
  <2>2. netnum[r] # netnum[s]
    BY <1>1, <1>2, <1>3, <1>7 DEF IsFirst
  <2> QED
    BY <1>4, <2>1, <2>2
<1> QED
  BY <1>3, <1>5, <1>6, <1>7

-----------------------------------------------------------------------------
LEMMA InitLocInv == Init => LocInv
<1> SUFFICES ASSUME Init PROVE LocInv
  OBVIOUS
<1>1. TypeOK
  BY NAssumption DEF Init, TypeOK, Arrangement
<1>2. Listed
  <2>1. SUFFICES ASSUME NEW r \in Rank
                 PROVE  \E k \in Rank : sorted[k] = netnum[r]
    BY DEF Listed
  <2> DEFINE n == netnum[r]
             Here == {k \in Rank : sorted[k] = n}
             There == {s \in Rank : netnum[s] = n}
  <2>2. Cardinality(Here) = Cardinality(There)
    BY <2>1 DEF Init, Arrangement
  <2>3. IsFiniteSet(Rank)
    BY NAssumption, FS_Interval DEF Rank
  <2>4. IsFiniteSet(Here) /\ IsFiniteSet(There)
    <3>1. Here \subseteq Rank /\ There \subseteq Rank
      OBVIOUS
    <3> HIDE DEF Here, There
    <3> QED
      BY <2>3, <3>1, FS_Subset
  <2>5. There # {}
    BY <2>1
  <2>6. Here # {}
    <3> HIDE DEF Here, There
    <3> QED
      BY <2>2, <2>4, <2>5, FS_EmptySet
  <2> QED
    BY <2>6
<1>3. ASSUME NEW r \in Rank PROVE Progress(r)
  BY DEF Init, Progress
<1> QED
  BY <1>1, <1>2, <1>3 DEF LocInv

(* No step disturbs the array or the numbers; a step that is not q's own   *)
(* leaves q where it is.                                                   *)
LEMMA OthersProgress ==
  ASSUME UNCHANGED <<netnum, sorted>>,
         NEW q \in Rank, Progress(q),
         pc'[q] = pc[q], i'[q] = i[q], node_i'[q] = node_i[q],
         prev_num'[q] = prev_num[q], color'[q] = color[q], smp'[q] = smp[q]
  PROVE  Progress(q)'
<1>1. ASSUME NEW p PROVE RunStarts(p)' = RunStarts(p)
  BY DEF RunStarts
<1>2. ScannedTo(q, i[q]) => ScannedTo(q, i[q])'
  BY <1>1 DEF ScannedTo
<1>3. ScannedTo(q, i[q] - 1) => ScannedTo(q, i[q] - 1)'
  BY <1>1 DEF ScannedTo
<1>4. Colored(q) => Colored(q)'
  BY <1>1 DEF Colored, IsFirst
<1> QED
  BY <1>2, <1>3, <1>4 DEF Progress, ScannedTo

(* The step of one process r; its own progress is shown for each action.   *)
LEMMA StepLocInv == LocInv /\ [Next]_vars => LocInv'
<1> SUFFICES ASSUME LocInv, [Next]_vars PROVE LocInv'
  OBVIOUS
<1>1. TypeOK /\ Listed /\ \A r \in Rank : Progress(r)
  BY DEF LocInv
<1>2. CASE UNCHANGED vars
  <2>1. TypeOK'
    BY <1>1, <1>2 DEF TypeOK, vars
  <2>2. Listed'
    BY <1>1, <1>2 DEF Listed, vars
  <2>3. ASSUME NEW q \in Rank PROVE Progress(q)'
    BY <1>1, <1>2, <2>3, OthersProgress DEF vars
  <2> QED
    BY <2>1, <2>2, <2>3 DEF LocInv
<1>3. ASSUME NEW r \in Rank, Next,
             \/ Lookup(r) \/ LookupFails(r) \/ Gather(r) \/ Scan(r)
             \/ Skip(r) \/ NextNode(r) \/ Found(r) \/ Split(r)
      PROVE  LocInv'
  <2>1. UNCHANGED <<netnum, sorted>>
    BY <1>3 DEF Lookup, LookupFails, Gather, Scan, Skip, NextNode, Found, Split
  <2>2. Listed'
    BY <1>1, <2>1 DEF Listed
  <2>3. ASSUME NEW q \in Rank, q # r PROVE Progress(q)'
    <3>1. /\ pc'[q] = pc[q] /\ i'[q] = i[q] /\ node_i'[q] = node_i[q]
          /\ prev_num'[q] = prev_num[q] /\ color'[q] = color[q] /\ smp'[q] = smp[q]
      BY <1>1, <1>3, <2>3 DEF TypeOK, Goto, Lookup, LookupFails, Gather, Scan,
         Skip, NextNode, Found, Split
    <3> QED
      BY <1>1, <2>1, <3>1, OthersProgress
  <2>4. ASSUME NEW p PROVE RunStarts(p)' = RunStarts(p)
    BY <2>1 DEF RunStarts
  <2>5. Progress(r)
    BY <1>1
  <2>6. /\ N \in Nat /\ 0 \in Rank /\ Rank \subseteq Nat
        /\ \A k \in Rank : k <= N - 1
        /\ \A k \in 0..(N - 1) : k \in Rank
    BY NAssumption DEF Rank
  <2>7. /\ i[r] \in 0..N /\ node_i[r] \in 0..N /\ prev_num[r] \in Nat
        /\ netnum[r] \in Nat /\ \A k \in Rank : sorted[k] \in Nat
    BY <1>1, NetNumAssumption DEF TypeOK
  <2>8. SUFFICES TypeOK' /\ Progress(r)'
    BY <2>2, <2>3 DEF LocInv
  <2>9. CASE Lookup(r) \/ LookupFails(r)
    <3>1. TypeOK'
      BY <1>1, <2>9 DEF TypeOK, Lookup, LookupFails, Goto
    <3>2. pc'[r] \in {"gather", "failed"}
      BY <1>1, <2>9 DEF TypeOK, Lookup, LookupFails, Goto
    <3> QED
      BY <3>1, <3>2 DEF Progress
  <2>10. CASE Gather(r)
    <3>1. TypeOK'
      BY <1>1, <2>6, <2>7, <2>10 DEF TypeOK, Gather, Goto
    <3>2. /\ pc'[r] = "scan" /\ i'[r] = 0 /\ node_i'[r] = 0
          /\ prev_num'[r] = sorted[0]
      BY <1>1, <2>10 DEF TypeOK, Gather, Goto
    <3>3. RunStarts(0) = {}
      BY DEF RunStarts
    <3>4. Cardinality(RunStarts(0)) = 0
      BY <3>3, FS_EmptySet
    <3>5. ScannedTo(r, i[r])'
      BY <2>1, <2>4, <2>6, <3>2, <3>4 DEF ScannedTo
    <3> QED
      BY <3>1, <3>2, <3>5 DEF Progress
  <2>11. CASE Scan(r)
    <3>1. TypeOK'
      BY <1>1, <2>11 DEF TypeOK, Scan, Goto
    <3>2. /\ pc[r] = "scan" /\ pc'[r] = "skip" /\ i'[r] = i[r]
          /\ node_i'[r] = node_i[r] /\ prev_num'[r] = prev_num[r]
          /\ prev_num[r] # netnum[r]
      BY <1>1, <2>11 DEF TypeOK, Scan, MoreToScan, Goto
    <3>3. ScannedTo(r, i[r])
      BY <2>5, <3>2 DEF Progress
    <3>4. ScannedTo(r, i[r])'
      BY <2>1, <2>4, <3>2, <3>3 DEF ScannedTo
    <3> QED
      BY <2>1, <3>1, <3>2, <3>4 DEF Progress
  <2>12. CASE Skip(r)
    <3>1. i[r] \in Rank /\ sorted[i[r]] = prev_num[r] /\ pc[r] = "skip"
      BY <2>12 DEF Skip, Readable
    <3>2. i[r] + 1 \in 0..N
      BY <2>6, <3>1
    <3>3. TypeOK'
      BY <1>1, <2>12, <3>2 DEF TypeOK, Skip
    <3>4. /\ pc'[r] = "skip" /\ i'[r] = i[r] + 1
          /\ node_i'[r] = node_i[r] /\ prev_num'[r] = prev_num[r]
      BY <1>1, <2>12 DEF TypeOK, Skip
    <3>5. prev_num[r] # netnum[r]
      BY <2>5, <3>1 DEF Progress
    <3>6. ScannedTo(r, i[r])
      <4>1. CASE ScannedTo(r, i[r] - 1)
        <5>1. i[r] - 1 \in Rank /\ (i[r] - 1) + 1 = i[r]
          BY <2>7, <4>1 DEF ScannedTo
        <5>2. Cardinality(RunStarts(i[r] - 1)) \in 0..(i[r] - 1)
          BY <5>1, RunStartsBound
        <5>3. sorted[i[r] - 1] = prev_num[r]
          BY <4>1 DEF ScannedTo
        <5>4. Cardinality(RunStarts(i[r])) = Cardinality(RunStarts(i[r] - 1))
          BY <3>1, <5>1, <5>2, <5>3, RunStartsNext
        <5> QED
          BY <3>1, <4>1, <5>4 DEF ScannedTo
      <4> QED
        BY <2>5, <3>1, <4>1 DEF Progress
    <3>7. \A j \in 0..i[r] : sorted[j] # netnum[r]
      BY <2>7, <3>1, <3>5, <3>6 DEF ScannedTo
    <3>8. ScannedTo(r, i[r] - 1)'
      <4>1. i'[r] - 1 = i[r]
        BY <2>7, <3>4
      <4> QED
        BY <2>1, <2>4, <3>4, <3>6, <3>7, <4>1 DEF ScannedTo
    <3> QED
      BY <2>1, <3>3, <3>4, <3>5, <3>8 DEF Progress
  <2>13. CASE NextNode(r)
    <3>1. i[r] \in Rank /\ sorted[i[r]] # prev_num[r] /\ pc[r] = "skip"
      BY <2>13 DEF NextNode, Readable
    <3>2. ScannedTo(r, i[r] - 1)
      BY <2>5, <3>1 DEF Progress, ScannedTo
    <3>3. i[r] - 1 \in Rank /\ (i[r] - 1) + 1 = i[r]
      BY <2>7, <3>2 DEF ScannedTo
    <3>4. sorted[i[r] - 1] = prev_num[r] /\ node_i[r] = Cardinality(RunStarts(i[r] - 1))
      BY <3>2 DEF ScannedTo
    <3>5. Cardinality(RunStarts(i[r])) = Cardinality(RunStarts(i[r] - 1)) + 1
      BY <3>1, <3>3, <3>4, RunStartsNext
    <3>6. Cardinality(RunStarts(i[r])) \in 0..i[r]
      BY <3>1, RunStartsBound
    <3>7. node_i[r] + 1 \in 0..N
      BY <2>6, <2>7, <3>1, <3>4, <3>5, <3>6
    <3>8. TypeOK'
      BY <1>1, <2>7, <2>13, <3>1, <3>7 DEF TypeOK, NextNode, Goto
    <3>9. /\ pc'[r] = "scan" /\ i'[r] = i[r]
          /\ node_i'[r] = node_i[r] + 1 /\ prev_num'[r] = sorted[i[r]]
      BY <1>1, <2>13 DEF TypeOK, NextNode, Goto
    <3>10. ScannedTo(r, i[r])'
      BY <2>1, <2>4, <3>1, <3>2, <3>4, <3>5, <3>9 DEF ScannedTo
    <3> QED
      BY <2>1, <3>8, <3>9, <3>10 DEF Progress
  <2>14. CASE Found(r)
    <3>1. TypeOK'
      BY <1>1, <2>7, <2>14 DEF TypeOK, Found, Goto
    <3>2. /\ pc[r] = "scan" /\ i[r] < N /\ prev_num[r] = netnum[r]
          /\ pc'[r] = "split" /\ color'[r] = node_i[r]
      BY <1>1, <2>14 DEF TypeOK, Found, MoreToScan, Goto
    <3>3. ScannedTo(r, i[r])
      BY <2>5, <3>2 DEF Progress
    <3>4. IsFirst(i[r], netnum[r])
      BY <3>2, <3>3 DEF IsFirst, ScannedTo
    <3>5. Colored(r)'
      BY <2>1, <2>4, <3>2, <3>3, <3>4 DEF Colored, IsFirst, ScannedTo
    <3> QED
      BY <3>1, <3>2, <3>5 DEF Progress
  <2>15. CASE Split(r)
    <3>1. TypeOK'
      BY <1>1, <2>15 DEF TypeOK, Split, Goto
    <3>2. /\ pc'[r] = "done" /\ color' = color
          /\ smp'[r] = {s \in Rank : color[s] = color[r]}
      BY <1>1, <2>15 DEF TypeOK, Split, Goto
    <3>3. \A s \in Rank : Colored(s)
      BY <1>1, <2>15 DEF Split, Progress
    <3>4. \A s \in Rank : color[s] = color[r] <=> netnum[s] = netnum[r]
      BY <3>3, ColorsTellNodes
    <3>5. Colored(r)'
      BY <2>1, <2>4, <3>2, <3>3 DEF Colored, IsFirst
    <3> QED
      BY <2>1, <3>1, <3>2, <3>4, <3>5 DEF Progress
  <2> QED
    BY <1>3, <2>9, <2>10, <2>11, <2>12, <2>13, <2>14, <2>15
<1> QED
  BY <1>2, <1>3 DEF Next

LEMMA SpecLocInv == Spec => []LocInv
<1> QED
  BY InitLocInv, StepLocInv, PTL DEF Spec

-----------------------------------------------------------------------------
(* The variables keep their types: no color exceeds the number of nodes.   *)
THEOREM LocalityTypeCorrect == Spec => []TypeOK
<1>1. LocInv => TypeOK
  BY DEF LocInv
<1> QED
  BY <1>1, SpecLocInv, PTL

(* get_my_color reads no entry past the end of the array and always finds  *)
(* its process's number, whatever order qsort has left.                    *)
THEOREM ScanStaysInBounds == Spec => []ScanInBounds
<1>1. LocInv => ScanInBounds
  <2> SUFFICES ASSUME LocInv, NEW r \in Rank
               PROVE  /\ pc[r] = "skip" => Readable(r)
                      /\ pc[r] = "scan" => i[r] < N
    BY DEF ScanInBounds
  <2>1. /\ N \in Nat /\ i[r] \in 0..N
        /\ \A k \in 0..(N - 1) : k \in Rank
        /\ Rank \subseteq 0..(N - 1)
    BY NAssumption DEF LocInv, TypeOK, Rank
  <2>2. Progress(r)
    BY DEF LocInv
  <2>3. CASE pc[r] = "scan"
    <3>1. i[r] \in Rank
      BY <2>2, <2>3 DEF Progress, ScannedTo
    <3> QED
      BY <2>1, <2>3, <3>1
  <2>4. CASE pc[r] = "skip"
    <3>1. PICK k \in Rank : sorted[k] = netnum[r]
      BY DEF LocInv, Listed
    <3>2. \A j \in 0..(i[r] - 1) : sorted[j] # netnum[r]
      BY <2>2, <2>4 DEF Progress, ScannedTo
    <3>3. k >= i[r]
      BY <2>1, <3>1, <3>2
    <3> QED
      BY <2>1, <2>4, <3>3 DEF Readable
  <2> QED
    BY <2>3, <2>4
<1> QED
  BY <1>1, SpecLocInv, PTL

(* The smp communicator of every process is its node.                      *)
THEOREM SplitFindsNodes == Spec => []SplitByNode
<1>1. LocInv => SplitByNode
  BY DEF LocInv, Progress, SplitByNode
<1> QED
  BY <1>1, SpecLocInv, PTL

=============================================================================
