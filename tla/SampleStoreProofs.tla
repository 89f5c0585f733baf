------------------------- MODULE SampleStoreProofs -------------------------
(***************************************************************************)
(* Proofs about SampleStore for every table, every number of iterations    *)
(* and every contents of the two files: types, that no array grows while   *)
(* sampling, and that the store implements SampleLog.                      *)
(***************************************************************************)
EXTENDS SampleStore, TLAPS

-----------------------------------------------------------------------------
(* Lines and samples *)

LEMMA SampleTypes ==
  /\ 0 \in Value /\ Blank \in Sample
  /\ "MemTotal" \in Key /\ "MemFree" \in Key /\ "MemUsed" \in Key
  /\ "MemUsed" \notin SelfKey
BY MaxAssumption, KeyAssumption DEF Value, Blank, Sample, Key

LEMMA FilesAreLines ==
  ASSUME NEW k \in Kind, NEW f \in Files(k)
  PROVE  f \in Seq(Line)
BY FilesAssumption DEF Files, Kind

(* With one line more a key has the value of that line, if it is its own.  *)
LEMMA ValueStep ==
  ASSUME NEW f \in Seq(Line), NEW n \in Nat, n + 1 <= Len(f), NEW k \in Key
  PROVE  ValueOf(f, n + 1, k) =
           IF f[n + 1].key = k THEN f[n + 1].val ELSE ValueOf(f, n, k)
<1>1. CASE f[n + 1].key = k
  <2>1. n + 1 \in LinesOf(f, n + 1, k)
    BY <1>1 DEF LinesOf
  <2>2. \A q \in LinesOf(f, n + 1, k) : q <= n + 1
    BY DEF LinesOf
  <2>3. Latest(LinesOf(f, n + 1, k)) = n + 1
    <3>1. ASSUME NEW j \in LinesOf(f, n + 1, k), \A q \in LinesOf(f, n + 1, k) : q <= j
          PROVE  j = n + 1
      BY <3>1, <2>1, <2>2 DEF LinesOf
    <3> QED BY <3>1, <2>1, <2>2 DEF Latest
  <2> QED BY <1>1, <2>1, <2>3 DEF ValueOf
<1>2. CASE f[n + 1].key # k
  <2>1. LinesOf(f, n + 1, k) = LinesOf(f, n, k)
    BY <1>2 DEF LinesOf
  <2> QED BY <1>2, <2>1 DEF ValueOf
<1> QED BY <1>1, <1>2

LEMMA NoLines ==
  ASSUME NEW f \in Seq(Line), NEW k \in Kind
  PROVE  Raw(f, 0, k) = Blank
BY DEF Raw, ValueOf, LinesOf, Blank

LEMMA RawStep ==
  ASSUME NEW kd \in Kind, NEW f \in Seq(Line), NEW n \in Nat, n + 1 <= Len(f)
  PROVE  /\ f[n + 1].key \in Table(kd) =>
              Raw(f, n + 1, kd) = [Raw(f, n, kd) EXCEPT ![f[n + 1].key] = f[n + 1].val]
         /\ f[n + 1].key \notin Table(kd) => Raw(f, n + 1, kd) = Raw(f, n, kd)
<1>1. \A k \in Key : ValueOf(f, n + 1, k) =
                       IF f[n + 1].key = k THEN f[n + 1].val ELSE ValueOf(f, n, k)
  BY ValueStep
<1>2. Table(kd) \subseteq Key
  BY DEF Table, Key
<1>3. CASE f[n + 1].key \in Table(kd)
  <2>1. \A k \in Key : Raw(f, n + 1, kd)[k] =
          [Raw(f, n, kd) EXCEPT ![f[n + 1].key] = f[n + 1].val][k]
    BY <1>1, <1>2, <1>3 DEF Raw
  <2> QED BY <2>1, <1>3 DEF Raw
<1>4. CASE f[n + 1].key \notin Table(kd)
  BY <1>1, <1>4 DEF Raw
<1> QED BY <1>3, <1>4

(* What is used fits in a sample, wrapped around or not.                   *)
LEMMA UsedIsSample ==
  ASSUME NEW s \in Sample
  PROVE  WithUsed(s) \in Sample
<1>1. s["MemTotal"] \in Int /\ s["MemFree"] \in Int
  BY SampleTypes DEF Sample, Value
<1>2. (s["MemTotal"] - s["MemFree"]) % (UllongMax + 1) \in Value
  BY <1>1, MaxAssumption DEF Value
<1> QED BY <1>2, SampleTypes DEF WithUsed, Sample

-----------------------------------------------------------------------------
(* Flags *)

Blind == stage = "post" /\ kind = "node" /\ ~delegate

LEMMA FlagsRoute ==
  ASSUME stage \in Stage, kind \in Kind, delegate \in BOOLEAN
  PROVE  /\ Target = <<stage, kind>>
         /\ ProcTable = Table(kind)
         /\ "NODE_BOGUS" \in ModFlags <=> Blind
         /\ ~Blind => ("NODE" \in ModFlags <=> kind = "node")
<1>1. CASE kind = "self"
  BY <1>1 DEF Stage, Kind, Target, ProcTable, Table, ModFlags, Mask, Flags, Blind
<1>2. CASE kind = "node"
  BY <1>2 DEF Stage, Kind, Target, ProcTable, Table, ModFlags, Mask, Flags, Blind
<1> QED BY <1>1, <1>2 DEF Kind

-----------------------------------------------------------------------------
(* The invariant: how far the lists are, and what is in the sample         *)

Lengths ==
  LET self == Len(lists[<<stage, "self">>])  node == Len(lists[<<stage, "node">>]) IN
  IF pc \in {"reserve", "loop"} THEN self = i /\ node = i
  ELSE /\ i > 0 /\ node = i - 1
       /\ self = IF kind = "self" THEN i - 1 ELSE i

Stages ==
  IF stage = "pre"
  THEN \A k \in Kind : lists[<<"post", k>>] = <<>>
  ELSE \A k \in Kind : Len(lists[<<"pre", k>>]) = Iters

Reading ==
  pc = "read" =>
    /\ ~Blind
    /\ file \in Files(kind)
    /\ \A j \in 1..(line - 1) : Readable(file[j], kind)
    /\ sample = Raw(file, line - 1, kind)

Appending ==
  pc = "append" =>
    IF Blind THEN sample = Blank
    ELSE \E f \in Files(kind) : \E n \in 0..Len(f) :
           /\ \A j \in 1..n : Readable(f[j], kind)
           /\ sample = Measure(f, n, kind)

Inv ==
  /\ TypeOK
  /\ ended = "no" <=> pc # "ended"
  /\ pc = "reserve" => i = 0 /\ stage = "pre"
  /\ pc \in {"loop", "call", "read", "append"} => capacity = [l \in List |-> Iters]
  /\ pc # "ended" => Lengths /\ Stages
  /\ Reading
  /\ Appending

LEMMA InvInit == Init => Inv
<1> SUFFICES ASSUME Init PROVE Inv
  OBVIOUS
<1>1. TypeOK
  BY SampleTypes, ItersAssumption DEF Init, TypeOK, Stage, Kind, List
<1>2. Lengths /\ Stages
  BY DEF Init, Lengths, Stages, List, Stage, Kind
<1>3. Reading /\ Appending
  BY DEF Init, Reading, Appending
<1> QED BY <1>1, <1>2, <1>3 DEF Init, Inv

LEMMA InvReserve == Inv /\ (Reserve \/ ReserveFails) => Inv'
<1>1. ASSUME Inv, Reserve PROVE Inv'
  <2> USE <1>1
  <2>1. TypeOK'
    BY ItersAssumption DEF Inv, TypeOK, Reserve
  <2>2. (Lengths /\ Stages)'
    BY DEF Inv, Reserve, Lengths, Stages
  <2> QED BY <2>1, <2>2 DEF Inv, Reserve, Reading, Appending
<1>2. ASSUME Inv, ReserveFails PROVE Inv'
  <2> USE <1>2
  <2>1. TypeOK'
    BY ItersAssumption DEF Inv, TypeOK, ReserveFails, Failure
  <2> QED BY <2>1 DEF Inv, ReserveFails, Failure, Reading, Appending
<1> QED BY <1>1, <1>2

LEMMA InvIterate == Inv /\ Iterate => Inv'
<1> SUFFICES ASSUME Inv, Iterate PROVE Inv'
  OBVIOUS
<1>1. TypeOK'
  BY ItersAssumption DEF Inv, TypeOK, Iterate, Kind
<1>2. Lengths'
  BY ItersAssumption DEF Inv, TypeOK, Iterate, Lengths
<1>3. Stages'
  BY DEF Inv, Iterate, Stages
<1> QED BY <1>1, <1>2, <1>3 DEF Inv, Iterate, Reading, Appending

LEMMA InvMpiInit == Inv /\ MpiInit => Inv'
<1> SUFFICES ASSUME Inv, MpiInit PROVE Inv'
  OBVIOUS
<1>1. TypeOK'
  BY ItersAssumption DEF Inv, TypeOK, MpiInit, Stage
<1>2. Lengths'
  BY DEF Inv, MpiInit, Lengths, Stages, Kind
<1>3. Stages'
  BY DEF Inv, MpiInit, Lengths, Stages, Kind
<1> QED BY <1>1, <1>2, <1>3 DEF Inv, MpiInit, Reading, Appending

LEMMA InvFinish == Inv /\ Finish => Inv'
BY DEF Inv, TypeOK, Finish, Reading, Appending

LEMMA InvOpen == Inv /\ Open => Inv'
<1> SUFFICES ASSUME Inv, Open PROVE Inv'
  OBVIOUS
<1>1. Target = <<stage, kind>> /\ ~Blind
  BY FlagsRoute DEF Inv, TypeOK, Open
<1>2. file' \in Files(kind) /\ kind \in Kind /\ file' \in Seq(Line)
  BY <1>1, FilesAreLines DEF Inv, TypeOK, Open
<1>3. TypeOK'
  BY <1>2, SampleTypes DEF Inv, TypeOK, Open, Files
<1>4. (Lengths /\ Stages)'
  BY DEF Inv, Open, Lengths, Stages
<1>5. Reading'
  BY <1>1, <1>2, NoLines DEF Open, Reading, Blind
<1> QED BY <1>3, <1>4, <1>5 DEF Inv, Open, Appending

LEMMA InvBogus == Inv /\ Bogus => Inv'
<1> SUFFICES ASSUME Inv, Bogus PROVE Inv'
  OBVIOUS
<1>1. Blind
  BY FlagsRoute DEF Inv, TypeOK, Bogus
<1>2. TypeOK'
  BY SampleTypes DEF Inv, TypeOK, Bogus
<1>3. (Lengths /\ Stages)'
  BY DEF Inv, Bogus, Lengths, Stages
<1> QED BY <1>1, <1>2, <1>3 DEF Inv, Bogus, Reading, Appending, Blind

(* Failing changes no list.                                                *)
LEMMA InvFails == Inv /\ (OpenFails \/ ParseFails \/ AppendFails) => Inv'
BY DEF Inv, TypeOK, OpenFails, ParseFails, AppendFails, Failure, Reading, Appending

LEMMA InvSkip == Inv /\ Skip => Inv'
<1> SUFFICES ASSUME Inv, Skip PROVE Inv'
  OBVIOUS
<1>1. /\ pc = "read" /\ ~Blind /\ file \in Files(kind) /\ kind \in Kind
      /\ line \in Nat \ {0} /\ line <= Len(file) /\ line' = line + 1
      /\ file \in Seq(Line)
  BY FilesAreLines DEF Inv, TypeOK, Skip, More, Reading
<1>2. ProcTable = Table(kind)
  BY FlagsRoute DEF Inv, TypeOK
<1>3. TypeOK'
  BY <1>1 DEF Inv, TypeOK, Skip
<1>4. (Lengths /\ Stages)'
  BY <1>1 DEF Inv, Skip, Lengths, Stages
<1>5. Readable(file[line], kind) /\ file[line].key \notin Table(kind)
  BY <1>2 DEF Skip, Readable, CurrentLine
<1>6. \A j \in 1..line : Readable(file[j], kind)
  BY <1>1, <1>5 DEF Inv, Reading
<1>7. Raw(file, line, kind) = Raw(file, line - 1, kind)
  <2>1. line - 1 \in Nat /\ (line - 1) + 1 = line
    BY <1>1
  <2> QED BY <2>1, <1>1, <1>5, RawStep
<1>8. Reading'
  <2>1. line' - 1 = line
    BY <1>1
  <2> QED BY <2>1, <1>1, <1>6, <1>7 DEF Inv, Skip, Reading, Blind
<1> QED BY <1>3, <1>4, <1>8 DEF Inv, Skip, More, Appending

LEMMA InvUpdate == Inv /\ Update => Inv'
<1> SUFFICES ASSUME Inv, Update PROVE Inv'
  OBVIOUS
<1>1. /\ pc = "read" /\ ~Blind /\ file \in Files(kind) /\ kind \in Kind
      /\ line \in Nat \ {0} /\ line <= Len(file) /\ line' = line + 1
      /\ file \in Seq(Line)
  BY FilesAreLines DEF Inv, TypeOK, Update, More, Reading
<1>2. ProcTable = Table(kind)
  BY FlagsRoute DEF Inv, TypeOK
<1>3. Readable(file[line], kind) /\ file[line].key \in Table(kind)
  BY <1>2 DEF Update, Readable, CurrentLine
<1>4. TypeOK'
  <2>1. sample' \in Sample
    BY DEF Inv, TypeOK, Update, Sample, CurrentLine
  <2> QED BY <2>1, <1>1 DEF Inv, TypeOK, Update
<1>5. (Lengths /\ Stages)'
  BY <1>1 DEF Inv, Update, Lengths, Stages
<1>6. \A j \in 1..line : Readable(file[j], kind)
  BY <1>1, <1>3 DEF Inv, Reading
<1>7. Raw(file, line, kind) = [Raw(file, line - 1, kind) EXCEPT ![file[line].key] = file[line].val]
  <2>1. line - 1 \in Nat /\ (line - 1) + 1 = line
    BY <1>1
  <2> DEFINE n == line - 1
  <2>2. n \in Nat /\ n + 1 <= Len(file) /\ file[n + 1].key \in Table(kind)
    BY <2>1, <1>1, <1>3
  <2> HIDE DEF n
  <2>3. Raw(file, n + 1, kind) = [Raw(file, n, kind) EXCEPT ![file[n + 1].key] = file[n + 1].val]
    BY <2>2, <1>1, RawStep
  <2> QED BY <2>1, <2>3 DEF n
<1>8. Reading'
  <2>1. line' - 1 = line
    BY <1>1
  <2>2. sample' = Raw(file, line, kind)
    BY <1>1, <1>7 DEF Inv, Update, Reading, CurrentLine
  <2> QED BY <2>1, <2>2, <1>1, <1>6 DEF Inv, Update, Reading, Blind
<1> QED BY <1>4, <1>5, <1>8 DEF Inv, Update, More, Appending

LEMMA InvNoMoreLines == Inv /\ NoMoreLines => Inv'
<1> SUFFICES ASSUME Inv, NoMoreLines PROVE Inv'
  OBVIOUS
<1>1. /\ pc = "read" /\ ~Blind /\ file \in Files(kind) /\ kind \in Kind
      /\ line - 1 \in 0..Len(file) /\ sample = Raw(file, line - 1, kind)
      /\ \A j \in 1..(line - 1) : Readable(file[j], kind)
  <2>1. file \in Seq(Line)
    BY FilesAreLines DEF Inv, TypeOK, NoMoreLines, Reading
  <2> QED BY <2>1 DEF Inv, TypeOK, NoMoreLines, Reading
<1>2. PostProcessed = IF kind = "node" THEN WithUsed(sample) ELSE sample
  BY <1>1, FlagsRoute DEF Inv, TypeOK, PostProcessed, WithUsed
<1>3. sample' \in Sample
  BY <1>2, UsedIsSample DEF Inv, TypeOK, NoMoreLines
<1>4. TypeOK'
  BY <1>3 DEF Inv, TypeOK, NoMoreLines
<1>5. (Lengths /\ Stages)'
  BY <1>1 DEF Inv, NoMoreLines, Lengths, Stages
<1>6. sample' = Measure(file, line - 1, kind)
  BY <1>1, <1>2 DEF NoMoreLines, Measure
<1>7. Appending'
  BY <1>1, <1>6 DEF NoMoreLines, Appending, Blind
<1> QED BY <1>4, <1>5, <1>7 DEF Inv, NoMoreLines, Reading

LEMMA InvAppendItem == Inv /\ AppendItem => Inv'
<1> SUFFICES ASSUME Inv, AppendItem PROVE Inv'
  OBVIOUS
<1> DEFINE t == <<stage, kind>>
<1>1. /\ Target = t /\ t \in List /\ stage \in Stage /\ kind \in Kind /\ pc = "append"
      /\ lists \in [List -> Seq(Sample)] /\ sample \in Sample
      /\ Lengths /\ Stages /\ i \in 0..Iters /\ Iters \in Nat
  BY FlagsRoute, ItersAssumption DEF Inv, TypeOK, AppendItem, List
<1>2. /\ lists' = [lists EXCEPT ![t] = Append(@, sample)]
      /\ stage' = stage /\ i' = i /\ kind' = "node"
      /\ pc' = IF kind = "self" THEN "call" ELSE "loop"
  BY <1>1 DEF AppendItem
<1>3. lists'[t] = Append(lists[t], sample) /\ \A l \in List : l # t => lists'[l] = lists[l]
  BY <1>1, <1>2
<1>4. Len(lists[t]) = i - 1 /\ i > 0 /\ Len(lists'[t]) = i
  <2>1. Len(lists[t]) = i - 1 /\ i > 0
    BY <1>1 DEF Lengths, Kind
  <2> QED BY <2>1, <1>1, <1>3
<1>5. lists' \in [List -> Seq(Sample)]
  BY <1>1, <1>2
<1>6. capacity' = capacity
  <2>1. capacity = [l \in List |-> Iters]
    BY <1>1 DEF Inv
  <2>2. capacity[t] = Iters /\ Len(lists[t]) + 1 <= Iters
    BY <2>1, <1>1, <1>4
  <2>3. capacity' = [capacity EXCEPT ![t] = capacity[t]]
    BY <2>2, <1>1 DEF AppendItem
  <2> QED BY <2>1, <2>3
<1>7. TypeOK'
  BY <1>5, <1>6 DEF Inv, TypeOK, AppendItem, Kind
<1>8. Lengths'
  <2>1. CASE kind = "self"
    <3>1. lists'[<<stage, "node">>] = lists[<<stage, "node">>]
      BY <1>1, <1>3, <2>1 DEF List, Kind
    <3> QED BY <3>1, <2>1, <1>1, <1>2, <1>4 DEF Lengths
  <2>2. CASE kind = "node"
    <3>1. lists'[<<stage, "self">>] = lists[<<stage, "self">>]
      BY <1>1, <1>3, <2>2 DEF List, Kind
    <3> QED BY <3>1, <2>2, <1>1, <1>2, <1>4 DEF Lengths
  <2> QED BY <2>1, <2>2, <1>1 DEF Kind
<1>9. Stages'
  <2>1. \A st \in Stage \ {stage}, k \in Kind : lists'[<<st, k>>] = lists[<<st, k>>]
    BY <1>3 DEF List
  <2> QED BY <2>1, <1>1, <1>2 DEF Stages, Stage
<1> QED BY <1>1, <1>2, <1>6, <1>7, <1>8, <1>9 DEF Inv, AppendItem, Reading, Appending

(* No step of the process breaks the invariant, whatever it reads.         *)
LEMMA InvNext == Inv /\ [Next]_vars => Inv'
<1> SUFFICES ASSUME Inv, [Next]_vars PROVE Inv'
  OBVIOUS
<1>1. CASE Next
  BY <1>1, InvReserve, InvIterate, InvMpiInit, InvFinish, InvOpen, InvBogus, InvFails,
     InvSkip, InvUpdate, InvNoMoreLines, InvAppendItem DEF Next
<1>2. CASE UNCHANGED vars
  <2>1. TypeOK'
    BY <1>2 DEF Inv, TypeOK, vars
  <2>2. (Lengths <=> Lengths') /\ (Stages <=> Stages')
    BY <1>2 DEF vars, Lengths, Stages
  <2>3. Reading' /\ Appending'
    BY <1>2 DEF Inv, vars, Reading, Appending, Blind
  <2> QED BY <1>2, <2>1, <2>2, <2>3 DEF Inv, vars
<1> QED BY <1>1, <1>2

LEMMA InvAlways == Spec => []Inv
BY InvInit, InvNext, PTL DEF Spec

-----------------------------------------------------------------------------
(* The variables of the process keep their types: values stay in a word,   *)
(* subtraction included, and lines in their file.                          *)
THEOREM StoreTypeCorrect == Spec => []TypeOK
<1>1. Inv => TypeOK
  BY DEF Inv
<1> QED BY <1>1, InvAlways, PTL

(* Whatever /proc says and whatever fails, no array of a list grows once   *)
(* sampling has begun, for every number of iterations.                     *)
THEOREM NoArrayEverGrows == Spec => NoArrayGrows
<1>1. Inv /\ Inv' /\ [Next]_vars => [pc # "reserve" => capacity' = capacity]_vars
  <2> SUFFICES ASSUME Inv, Inv', [Next]_vars, pc # "reserve" PROVE capacity' = capacity
    OBVIOUS
  <2>1. CASE AppendItem
    BY <2>1 DEF Inv, AppendItem, Failure
  <2>2. CASE Next /\ ~AppendItem
    BY <2>2 DEF Next, Reserve, ReserveFails, Iterate, MpiInit, Finish, Open, Bogus,
                OpenFails, Skip, Update, ParseFails, NoMoreLines, AppendFails
  <2>3. CASE UNCHANGED vars
    BY <2>3 DEF vars
  <2> QED BY <2>1, <2>2, <2>3
<1> QED BY <1>1, InvAlways, PTL DEF Spec, NoArrayGrows

-----------------------------------------------------------------------------
(* Refinement *)

LEMMA SameData ==
  /\ Log!List = List /\ Log!Kind = Kind /\ Log!Stage = Stage /\ Log!Blank = Blank
  /\ \A k : Log!Files(k) = Files(k)
  /\ \A l, k : Log!Readable(l, k) <=> Readable(l, k)
  /\ \A f, n, k : Log!Measure(f, n, k) = Measure(f, n, k)
<1>1. /\ Log!List = List /\ Log!Kind = Kind /\ Log!Stage = Stage /\ Log!Blank = Blank
      /\ \A k : Log!Files(k) = Files(k)
      /\ \A l, k : Log!Readable(l, k) <=> Readable(l, k)
  BY DEF Log!List, Log!Kind, Log!Stage, Log!Blank, Log!Key, List, Kind, Stage, Blank, Key,
         Log!Files, Files, Log!Readable, Readable, Log!Table, Table, Log!Value, Value
<1>2. \A f, n, k : Log!LinesOf(f, n, k) = LinesOf(f, n, k)
  BY DEF Log!LinesOf, LinesOf
<1>3. \A S : Log!Latest(S) = Latest(S)
  BY DEF Log!Latest, Latest
<1>4. \A f, n, k : Log!ValueOf(f, n, k) = ValueOf(f, n, k)
  BY <1>2, <1>3 DEF Log!ValueOf, ValueOf
<1>5. \A f, n, k : Log!Raw(f, n, k) = Raw(f, n, k)
  BY <1>4 DEF Log!Raw, Raw, Log!Key, Key, Log!Table, Table
<1>6. \A s : Log!WithUsed(s) = WithUsed(s)
  BY DEF Log!WithUsed, WithUsed
<1>7. \A f, n, k : Log!Measure(f, n, k) = Measure(f, n, k)
  BY <1>5, <1>6 DEF Log!Measure, Measure
<1> QED BY <1>1, <1>7

LEMMA LogInit == Init => Log!Init
BY SameData DEF Init, Log!Init

LEMMA LogStep == Inv /\ [Next]_vars => [Log!Next]_(Log!vars)
<1> SUFFICES ASSUME Inv, [Next]_vars PROVE Log!Next \/ UNCHANGED Log!vars
  OBVIOUS
<1>1. CASE AppendItem
  <2> DEFINE t == <<stage, kind>>
  <2>1. /\ Target = t /\ stage \in Stage /\ kind \in Kind /\ pc = "append"
        /\ Lengths /\ Stages /\ i \in 0..Iters /\ Iters \in Nat /\ ended = "no"
        /\ Appending /\ lists \in [List -> Seq(Sample)]
    BY <1>1, FlagsRoute, ItersAssumption DEF Inv, TypeOK, AppendItem
  <2>2. Log!Turn(stage, kind)
    <3>1. stage = "post" => Log!Full("pre")
      BY <2>1 DEF Stages, Log!Full, Kind
    <3>2. CASE kind = "self"
      BY <3>1, <3>2, <2>1 DEF Lengths, Log!Turn, Log!Full
    <3>3. CASE kind = "node"
      BY <3>1, <3>3, <2>1 DEF Lengths, Log!Turn
    <3> QED BY <3>2, <3>3, <2>1 DEF Kind
  <2>3. Log!Kept(stage, kind, sample)
    BY <1>1, <2>1 DEF AppendItem, Log!Kept
  <2>4. UNCHANGED <<delegate, ended>>
    BY <1>1 DEF AppendItem
  <2>5. Log!Keep(stage, kind)
    BY <2>1, <2>2, <2>3, <2>4, SameData DEF Appending, Blind, Log!Keep, Log!Kept
  <2> QED BY <2>1, <2>5, SameData DEF Log!Next
<1>2. CASE Finish
  <2>1. Log!Full("pre") /\ Log!Full("post")
    BY <1>2 DEF Inv, Finish, Lengths, Stages, Log!Full, Kind
  <2> QED BY <1>2, <2>1 DEF Inv, Finish, Log!End, Log!Next
<1>3. CASE ReserveFails \/ OpenFails \/ ParseFails \/ AppendFails
  <2>1. ended = "no"
    BY <1>3 DEF Inv, ReserveFails, OpenFails, ParseFails, AppendFails, More
  <2> QED BY <1>3, <2>1 DEF ReserveFails, OpenFails, ParseFails, AppendFails, Failure,
                           Log!Fail, Log!Next
<1>4. CASE Reserve \/ Iterate \/ MpiInit \/ Open \/ Bogus \/ Skip \/ Update \/ NoMoreLines
  BY <1>4 DEF Reserve, Iterate, MpiInit, Open, Bogus, Skip, Update, NoMoreLines, Log!vars
<1>5. CASE UNCHANGED vars
  BY <1>5 DEF vars, Log!vars
<1> QED BY <1>1, <1>2, <1>3, <1>4, <1>5 DEF Next

(* Line by line and buffer by buffer, the process keeps exactly the log    *)
(* mmu_memory.h promises: every sample kept is a measurement of one file,  *)
(* in the right list, in turn, or blank where it must be.                  *)
THEOREM StoreImplementsLog == Spec => ImplementsLog
<1>1. Inv /\ [Next]_vars => [Log!Next]_(Log!vars)
  BY LogStep
<1> QED BY <1>1, LogInit, InvAlways, PTL DEF Spec, ImplementsLog, Log!Spec

=============================================================================
