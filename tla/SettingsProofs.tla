--------------------------- MODULE SettingsProofs ---------------------------
(***************************************************************************)
(* What is proved of Settings, for any widths of the integers, defaults,   *)
(* arguments and length of the command line.                               *)
(***************************************************************************)
EXTENDS Settings, FiniteSetTheorems, TLAPS

(***************************************************************************)
(* Powers of two, by way of the number of subsets of a set, and what       *)
(* wraps around.                                                           *)
(***************************************************************************)
LEMMA PowerIsCount ==
  ASSUME NEW n \in Nat
  PROVE  /\ IsFiniteSet(SUBSET (1..n)) /\ Cardinality(SUBSET (1..n)) = 2 ^ n
         /\ 2 ^ n \in Nat
<1>1. IsFiniteSet(1..n) /\ Cardinality(1..n) = n
  BY FS_Interval
<1>2. IsFiniteSet(SUBSET (1..n)) /\ Cardinality(SUBSET (1..n)) = 2 ^ n
  BY <1>1, FS_SUBSET
<1> QED
  BY <1>2, FS_CardinalityType

LEMMA PowerGrows ==
  ASSUME NEW m \in Nat, NEW n \in Nat, m <= n
  PROVE  0 < 2 ^ m /\ 2 ^ m <= 2 ^ n
<1>1. SUBSET (1..m) \in SUBSET (SUBSET (1..n))
  BY SMT
<1>2. /\ IsFiniteSet(SUBSET (1..n)) /\ Cardinality(SUBSET (1..n)) = 2 ^ n
      /\ IsFiniteSet(SUBSET (1..m)) /\ Cardinality(SUBSET (1..m)) = 2 ^ m
      /\ 2 ^ m \in Nat /\ 2 ^ n \in Nat
  BY PowerIsCount
<1>3. Cardinality(SUBSET (1..m)) <= Cardinality(SUBSET (1..n))
  BY <1>1, <1>2, FS_Subset, Zenon
<1>4. SUBSET (1..m) # {}
  OBVIOUS
<1>5. Cardinality(SUBSET (1..m)) # 0
  BY <1>2, <1>4, FS_EmptySet, Zenon
<1> QED
  BY <1>2, <1>3, <1>5

LEMMA PowerDoubles ==
  ASSUME NEW n \in Nat
  PROVE  2 ^ (n + 1) = 2 ^ n + 2 ^ n
<1> DEFINE Without == SUBSET (1..n)
           With == {T \in SUBSET (1..(n + 1)) : n + 1 \in T}
           f == [T \in Without |-> T \union {n + 1}]
<1>1. SUBSET (1..(n + 1)) = Without \union With
  <2>1. 1..(n + 1) = (1..n) \union {n + 1}
    OBVIOUS
  <2> QED
    BY <2>1
<1>2. Without \cap With = {}
  <2>1. n + 1 \notin 1..n
    OBVIOUS
  <2> QED
    BY <2>1
<1>3. f \in Bijection(Without, With)
  <2>1. n + 1 \notin 1..n /\ 1..(n + 1) = (1..n) \union {n + 1}
    OBVIOUS
  <2>2. f \in [Without -> With]
    BY <2>1
  <2>3. \A S, T \in Without : f[S] = f[T] => S = T
    <3> SUFFICES ASSUME NEW S \in Without, NEW T \in Without, f[S] = f[T] PROVE S = T
      OBVIOUS
    <3>1. S \union {n + 1} = T \union {n + 1} /\ n + 1 \notin S /\ n + 1 \notin T
      BY <2>1
    <3> QED
      BY <3>1
  <2>4. ASSUME NEW T \in With PROVE \E S \in Without : f[S] = T
    <3>1. T \ {n + 1} \in Without /\ (T \ {n + 1}) \union {n + 1} = T
      BY <2>1
    <3> QED
      BY <3>1
  <2> QED
    BY <2>2, <2>3, <2>4 DEF Bijection, Injection, Surjection, IsInjective
<1>4. IsFiniteSet(With) /\ Cardinality(With) = 2 ^ n
  <2>1. ExistsBijection(Without, With)
    BY <1>3 DEF ExistsBijection
  <2> QED
    BY <2>1, PowerIsCount, FS_Bijection
<1>5. Cardinality(Without \union With) = 2 ^ n + 2 ^ n - Cardinality(Without \cap With)
  <2> HIDE DEF With
  <2> QED
    BY <1>4, PowerIsCount, FS_Union
<1>6. Cardinality(Without \cap With) = 0
  BY <1>2, FS_EmptySet
<1>7. Cardinality(Without \union With) = 2 ^ n + 2 ^ n
  <2>1. \A p \in Nat : p + p - 0 = p + p
    OBVIOUS
  <2>2. 2 ^ n \in Nat
    BY PowerIsCount
  <2> HIDE DEF With, Without
  <2> QED
    BY <1>5, <1>6, <2>1, <2>2, Zenon
<1>8. Cardinality(SUBSET (1..(n + 1))) = 2 ^ (n + 1)
  <2>1. n + 1 \in Nat
    OBVIOUS
  <2> QED
    BY <2>1, PowerIsCount, Zenon
<1> QED
  <2> HIDE DEF With, Without
  <2> QED
    BY <1>1, <1>7, <1>8, Zenon

(* A type of so many bits holds as many numbers below zero as from zero on.*)
LEMMA SignedHalves ==
  ASSUME NEW bits \in Nat \ {0}
  PROVE  LET half == 2 ^ (bits - 1) IN
         /\ half \in Nat /\ half > 0
         /\ 2 ^ bits = half + half
         /\ Signed(bits) = -half .. (half - 1)
<1>1. bits - 1 \in Nat /\ (bits - 1) + 1 = bits
  OBVIOUS
<1>2. 2 ^ (bits - 1) \in Nat /\ 2 ^ (bits - 1) > 0
  BY <1>1, PowerIsCount, PowerGrows
<1>3. 2 ^ ((bits - 1) + 1) = 2 ^ (bits - 1) + 2 ^ (bits - 1)
  BY <1>1, PowerDoubles
<1> QED
  BY <1>1, <1>2, <1>3 DEF Signed

LEMMA WrapHalf ==
  ASSUME NEW half \in Nat, half > 0, NEW v \in Int
  PROVE  LET w == ((v + half) % (half + half)) - half IN
         /\ w \in -half .. (half - 1)
         /\ v \in -half .. (half - 1) => w = v
<1>1. /\ (v + half) % (half + half) \in Int
      /\ 0 <= (v + half) % (half + half) /\ (v + half) % (half + half) < half + half
  OBVIOUS
<1>2. v \in -half .. (half - 1) => (v + half) % (half + half) = v + half
  OBVIOUS
<1> QED
  BY <1>1, <1>2

LEMMA WrapFits ==
  ASSUME NEW bits \in Nat \ {0}, NEW v \in Int
  PROVE  Wrap(v, bits) \in Signed(bits) /\ (v \in Signed(bits) => Wrap(v, bits) = v)
<1> DEFINE half == 2 ^ (bits - 1)
<1>1. half \in Nat /\ half > 0 /\ 2 ^ bits = half + half /\ Signed(bits) = -half .. (half - 1)
  BY SignedHalves
<1>2. Wrap(v, bits) = ((v + half) % (half + half)) - half
  BY <1>1 DEF Wrap
<1> HIDE DEF half
<1> QED
  BY <1>1, <1>2, WrapHalf

(***************************************************************************)
(* The inductive invariant: what the options read so far ask for, and what *)
(* later steps have made of it.  Options, their number and settings are    *)
(* given as values, so that a step can speak of them before and after it.  *)
(***************************************************************************)

(* None of the options read so far stops the reading.                      *)
Handled == \A k \in 1..(next - 1) : k \notin Stops

(* v is the last of the first n numbers given for the option, cut to an    *)
(* int, or else the default.                                               *)
LastRead(options, n, letter, v) ==
  \/ v = Default /\ \A k \in 1..n : options[k].opt # letter
  \/ \E k \in 1..n :
       /\ options[k].opt = letter /\ v = Wrap(options[k].arg, IntBits)
       /\ \A j \in 1..n : options[j].opt = letter => j <= k

WorkloadRead(options, n, w) == w = (\E k \in 1..n : options[k].opt = "w")

ReadUpTo(options, n, rate, time, workload) ==
  /\ LastRead(options, n, "s", rate) /\ LastRead(options, n, "t", time)
  /\ WorkloadRead(options, n, workload)

AsRead == ReadUpTo(given, next - 1, a.rate, a.time, a.workload)

Sampling == pc = "sample" \/ shown # <<>>

(* What the steps after the parsing have made of it.                       *)
AsUsed ==
  /\ pc # "exited" => exit = "none"
  /\ (pc \in {"update", "reserve"} \/ Sampling) => (next = Len(given) + 1 /\ ~extra)
  /\ (pc = "exited" /\ Verdict # "run") => exit = Verdict
  /\ (pc = "reserve" \/ Sampling) =>
       proc = [rate |-> OrDefault(a.rate), time |-> OrDefault(a.time), workload |-> a.workload]
  /\ Sampling => (iters \in TotalIters /\ iters # 0)
  /\ shown # <<>> => (shown = <<a.rate, a.time, proc.workload>> /\ pc = "exited")

SettingsInv ==
  /\ TypeOK
  /\ given \in Seq(Option)
  /\ Handled
  /\ AsRead
  /\ AsUsed

-----------------------------------------------------------------------------
LEMMA Arguments ==
  ASSUME NEW o \in Option
  PROVE  /\ o.opt \in {"s", "t", "w", "h", "v", "?"}
         /\ o.arg \in Numbers \union {NoDigits}
BY DEF Option

LEMMA DefaultIsInt == Default \in Signed(IntBits) /\ 0 \in Signed(IntBits)
<1> DEFINE half == 2 ^ (IntBits - 1)
<1>1. half \in Nat /\ half > 0 /\ Signed(IntBits) = -half .. (half - 1)
  BY SignedHalves, BitsAssumption
<1>2. Default \in Nat /\ Default > 0 /\ Default * Default < half
  BY DefaultAssumption
<1>3. Default <= Default * Default
  BY <1>2
<1> HIDE DEF half
<1> QED
  BY <1>1, <1>2, <1>3

LEMMA OrDefaultIsInt ==
  ASSUME NEW v \in Signed(IntBits)
  PROVE  OrDefault(v) \in Signed(IntBits) /\ OrDefault(v) \in Nat
<1>1. Signed(IntBits) \subseteq Int
  BY SignedHalves, BitsAssumption
<1>2. v \in Int /\ Default \in Nat
  BY <1>1, DefaultAssumption
<1> QED
  BY <1>2, DefaultIsInt DEF OrDefault

LEMMA ItersAreSizes ==
  ASSUME proc.rate \in Int, proc.time \in Int
  PROVE  TotalIters \subseteq 0..(2 ^ SizeBits - 1)
<1> DEFINE size == 2 ^ SizeBits
<1>1. size \in Nat /\ size > 0
  BY PowerIsCount, PowerGrows, BitsAssumption
<1>2. proc.rate * proc.time \in Int
  OBVIOUS
<1>3. Wrap(proc.rate * proc.time, IntBits) \in Int
  <2>1. Signed(IntBits) \subseteq Int
    BY SignedHalves, BitsAssumption
  <2> QED
    BY <1>2, <2>1, WrapFits, BitsAssumption
<1> HIDE DEF size
<1>4. \A p \in Int : p % size \in 0..(size - 1)
  BY <1>1
<1>5. \A p \in Products : p \in Int
  BY <1>2, <1>3 DEF Products
<1> QED
  BY <1>4, <1>5 DEF TotalIters, size

(* Another option leaves the last number given for this one as it is.      *)
LEMMA OtherRead ==
  ASSUME NEW options, NEW n \in Nat \ {0}, NEW letter, NEW v,
         LastRead(options, n - 1, letter, v), options[n].opt # letter
  PROVE  LastRead(options, n, letter, v)
<1>1. 1..n = (1..(n - 1)) \union {n}
  OBVIOUS
<1>2. CASE v = Default /\ \A k \in 1..(n - 1) : options[k].opt # letter
  BY <1>1, <1>2 DEF LastRead
<1>3. ASSUME NEW k \in 1..(n - 1),
             options[k].opt = letter /\ v = Wrap(options[k].arg, IntBits),
             \A j \in 1..(n - 1) : options[j].opt = letter => j <= k
      PROVE  LastRead(options, n, letter, v)
  <2>1. k \in 1..n
    OBVIOUS
  <2>2. \A j \in 1..n : options[j].opt = letter => j <= k
    BY <1>1, <1>3
  <2> QED
    BY <1>3, <2>1, <2>2 DEF LastRead
<1> QED
  BY <1>2, <1>3 DEF LastRead

LEMMA NumberRead ==
  ASSUME NEW options, NEW n \in Nat \ {0}
  PROVE  LastRead(options, n, options[n].opt, Wrap(options[n].arg, IntBits))
<1>1. n \in 1..n /\ \A j \in 1..n : j <= n
  OBVIOUS
<1> QED
  BY <1>1 DEF LastRead

LEMMA WorkloadOf ==
  ASSUME NEW options, NEW n \in Nat \ {0}, NEW w \in BOOLEAN,
         WorkloadRead(options, n - 1, w)
  PROVE  options[n].opt # "w" => WorkloadRead(options, n, w)
<1>1. 1..n = (1..(n - 1)) \union {n}
  OBVIOUS
<1>2. (\E k \in 1..n : options[k].opt = "w")
        = ((\E k \in 1..(n - 1) : options[k].opt = "w") \/ options[n].opt = "w")
  BY <1>1
<1> QED
  BY <1>2 DEF WorkloadRead

LEMMA InitSettings == Init => SettingsInv
<1> SUFFICES ASSUME Init PROVE SettingsInv
  OBVIOUS
<1>1. given \in Seq(Option) /\ Len(given) \in Nat
  <2>1. PICK n \in 0..MaxOptions : given \in [1..n -> Option]
    BY DEF Init
  <2>2. n \in Nat
    OBVIOUS
  <2> QED
    BY <2>1, <2>2
<1>2. \A k \in 1..Len(given) : given[k] \in Option
  BY <1>1
<1>3. 0 \in 0..(2 ^ SizeBits - 1)
  <2>1. 2 ^ SizeBits \in Nat /\ 2 ^ SizeBits > 0
    BY PowerIsCount, PowerGrows, BitsAssumption
  <2> QED
    BY <2>1
<1>4. TypeOK
  BY <1>1, <1>2, <1>3, DefaultIsInt DEF Init, TypeOK, Defaults
<1>5. next - 1 = 0 /\ 1..0 = {}
  BY DEF Init
<1>6. a.rate = Default /\ a.time = Default /\ a.workload = FALSE
  BY DEF Init, Defaults
<1>7. Handled
  BY <1>5 DEF Handled
<1>8. LastRead(given, next - 1, "s", a.rate) /\ LastRead(given, next - 1, "t", a.time)
  BY <1>5, <1>6 DEF LastRead
<1>9. WorkloadRead(given, next - 1, a.workload)
  BY <1>5, <1>6 DEF WorkloadRead
<1>10. AsUsed
  BY DEF Init, AsUsed, Sampling
<1> QED
  BY <1>1, <1>4, <1>7, <1>8, <1>9, <1>10 DEF SettingsInv, AsRead, ReadUpTo

(* Reading an option.                                                      *)
LEMMA OptionRead ==
  ASSUME SettingsInv, pc = "parse", next <= Len(given), next \notin Stops,
         next' = next + 1, given' = given,
         a' \in [rate : Signed(IntBits), time : Signed(IntBits), workload : BOOLEAN],
         UNCHANGED <<extra, proc, iters, shown, pc, exit>>,
         ReadUpTo(given, next, a'.rate, a'.time, a'.workload)
  PROVE  SettingsInv'
<1>1. given \in Seq(Option) /\ next \in 1..(Len(given) + 1) /\ Len(given) \in Nat
  BY DEF SettingsInv, TypeOK
<1>2. next \in 1..Len(given) /\ next' \in 1..(Len(given) + 1) /\ next' - 1 = next
  BY <1>1
<1>3. 1..next = (1..(next - 1)) \union {next}
  BY <1>2
<1>4. Stops' = Stops
  BY DEF Stops
<1>5. Handled'
  BY <1>2, <1>3, <1>4 DEF SettingsInv, Handled
<1>6. AsUsed'
  BY DEF SettingsInv, AsUsed, Sampling
<1>7. TypeOK'
  BY <1>2 DEF SettingsInv, TypeOK
<1>8. AsRead'
  BY <1>2 DEF AsRead
<1> QED
  BY <1>1, <1>5, <1>6, <1>7, <1>8 DEF SettingsInv

LEMMA NumberHandled ==
  ASSUME SettingsInv, HandleNumber
  PROVE  SettingsInv'
<1>1. /\ TypeOK /\ given \in Seq(Option) /\ AsRead
      /\ pc = "parse" /\ next <= Len(given) /\ given[next].opt \in {"s", "t"}
      /\ given[next].arg # NoDigits /\ given[next].arg \in Signed(LongBits)
      /\ next' = next + 1 /\ given' = given
      /\ UNCHANGED <<extra, proc, iters, shown, pc, exit>>
  BY DEF SettingsInv, HandleNumber, Reading, Current, ValidInt
<1>2. next \notin Stops /\ next \in Nat \ {0} /\ next \in 1..Len(given)
  BY <1>1 DEF Stops, TypeOK
<1> DEFINE w == Wrap(given[next].arg, IntBits)
<1>3. w \in Signed(IntBits)
  <2>1. given[next].arg \in Numbers \union {NoDigits}
    BY <1>1, <1>2, Arguments
  <2>2. given[next].arg \in Int
    BY <1>1, <2>1, NumbersAssumption
  <2> QED
    BY <2>2, WrapFits, BitsAssumption
<1>4. /\ LastRead(given, next - 1, "s", a.rate) /\ LastRead(given, next - 1, "t", a.time)
      /\ WorkloadRead(given, next - 1, a.workload)
  BY <1>1 DEF AsRead, ReadUpTo
<1>5. a.rate \in Signed(IntBits) /\ a.time \in Signed(IntBits) /\ a.workload \in BOOLEAN
  BY <1>1 DEF TypeOK
<1>6. WorkloadRead(given, next, a.workload)
  <2>1. given[next].opt # "w"
    BY <1>1
  <2> QED
    BY <1>2, <1>4, <1>5, <2>1, WorkloadOf
<1>7. LastRead(given, next, given[next].opt, w)
  BY <1>2, NumberRead
<1> HIDE DEF w
<1>8. CASE given[next].opt = "s"
  <2>1. a' = [rate |-> w, time |-> a.time, workload |-> a.workload]
    BY <1>1, <1>8 DEF HandleNumber, TypeOK, Current, w
  <2>2. a'.rate = w /\ a'.time = a.time /\ a'.workload = a.workload
    BY <2>1
  <2>3. given[next].opt # "t"
    BY <1>8
  <2>4. LastRead(given, next, "t", a.time)
    BY <1>2, <1>4, <2>3, OtherRead
  <2>5. ReadUpTo(given, next, a'.rate, a'.time, a'.workload)
    BY <1>6, <1>7, <1>8, <2>2, <2>4 DEF ReadUpTo
  <2>6. a' \in [rate : Signed(IntBits), time : Signed(IntBits), workload : BOOLEAN]
    BY <1>3, <1>5, <2>1
  <2> QED
    BY <1>1, <1>2, <2>5, <2>6, OptionRead
<1>9. CASE given[next].opt = "t"
  <2>1. a' = [rate |-> a.rate, time |-> w, workload |-> a.workload]
    BY <1>1, <1>9 DEF HandleNumber, TypeOK, Current, w
  <2>2. a'.rate = a.rate /\ a'.time = w /\ a'.workload = a.workload
    BY <2>1
  <2>3. given[next].opt # "s"
    BY <1>9
  <2>4. LastRead(given, next, "s", a.rate)
    BY <1>2, <1>4, <2>3, OtherRead
  <2>5. ReadUpTo(given, next, a'.rate, a'.time, a'.workload)
    BY <1>6, <1>7, <1>9, <2>2, <2>4 DEF ReadUpTo
  <2>6. a' \in [rate : Signed(IntBits), time : Signed(IntBits), workload : BOOLEAN]
    BY <1>3, <1>5, <2>1
  <2> QED
    BY <1>1, <1>2, <2>5, <2>6, OptionRead
<1> QED
  BY <1>1, <1>8, <1>9

LEMMA WorkloadHandled ==
  ASSUME SettingsInv, HandleWorkload
  PROVE  SettingsInv'
<1>1. /\ TypeOK /\ given \in Seq(Option) /\ AsRead
      /\ pc = "parse" /\ next <= Len(given) /\ given[next].opt = "w"
      /\ next' = next + 1 /\ given' = given
      /\ UNCHANGED <<extra, proc, iters, shown, pc, exit>>
  BY DEF SettingsInv, HandleWorkload, Reading, Current
<1>2. next \notin Stops /\ next \in Nat \ {0} /\ next \in 1..Len(given)
  BY <1>1 DEF Stops, TypeOK
<1>3. /\ LastRead(given, next - 1, "s", a.rate) /\ LastRead(given, next - 1, "t", a.time)
      /\ WorkloadRead(given, next - 1, a.workload)
  BY <1>1 DEF AsRead, ReadUpTo
<1>4. a.rate \in Signed(IntBits) /\ a.time \in Signed(IntBits) /\ a.workload \in BOOLEAN
  BY <1>1 DEF TypeOK
<1>5. a' = [rate |-> a.rate, time |-> a.time, workload |-> TRUE]
  BY <1>1 DEF HandleWorkload, TypeOK
<1>6. a'.rate = a.rate /\ a'.time = a.time /\ a'.workload = TRUE
  BY <1>5
<1>7. given[next].opt # "s" /\ given[next].opt # "t"
  BY <1>1
<1>8. LastRead(given, next, "s", a.rate)
  BY <1>2, <1>3, <1>7, OtherRead
<1>9. LastRead(given, next, "t", a.time)
  BY <1>2, <1>3, <1>7, OtherRead
<1>10. WorkloadRead(given, next, TRUE)
  <2>1. next \in 1..next
    BY <1>2
  <2> QED
    BY <1>1, <2>1, Zenon DEF WorkloadRead
<1>11. ReadUpTo(given, next, a'.rate, a'.time, a'.workload)
  BY <1>6, <1>8, <1>9, <1>10 DEF ReadUpTo
<1>12. a' \in [rate : Signed(IntBits), time : Signed(IntBits), workload : BOOLEAN]
  BY <1>4, <1>5
<1> QED
  BY <1>1, <1>2, <1>11, <1>12, OptionRead

-----------------------------------------------------------------------------
(* How a command line ends.                                                *)

(* The option that stops the reading is the first that would.              *)
LEMMA FirstStops ==
  ASSUME SettingsInv, pc = "parse", next \in Stops
  PROVE  Min(Stops) = next
<1>1. given \in Seq(Option) /\ next \in Nat /\ \A k \in Stops : k \in 1..Len(given)
  BY DEF SettingsInv, TypeOK, Stops
<1>2. \A k \in Stops : ~(k <= next - 1)
  BY <1>1 DEF SettingsInv, Handled
<1>3. \A k \in Stops : k \in Nat /\ next <= k
  BY <1>1, <1>2
<1>4. \A m \in Stops : (\A k \in Stops : m <= k) => m = next
  BY <1>3
<1> QED
  BY <1>3, <1>4 DEF Min

(* A command line that was read to its end has no option that stops it.    *)
LEMMA NoneStops ==
  ASSUME SettingsInv, next > Len(given)
  PROVE  Stops = {} /\ next = Len(given) + 1
<1>1. given \in Seq(Option) /\ next = Len(given) + 1 /\ Len(given) \in Nat
  BY DEF SettingsInv, TypeOK
<1>2. next - 1 = Len(given)
  BY <1>1
<1> QED
  BY <1>1, <1>2 DEF SettingsInv, Handled, Stops

(* Leaving the parsing with the exit code of the verdict.                  *)
LEMMA EndedInParse ==
  ASSUME SettingsInv, pc = "parse", pc' = "exited", exit' \in {"success", "failure"},
         Verdict = exit', UNCHANGED <<given, extra, next, a, proc, iters, shown>>
  PROVE  SettingsInv'
<1>1. TypeOK'
  BY DEF SettingsInv, TypeOK
<1>2. Stops' = Stops
  BY DEF Stops
<1>3. Verdict' = Verdict
  BY <1>2 DEF Verdict
<1>4. Handled' /\ AsRead'
  BY <1>2 DEF SettingsInv, Handled, AsRead
<1>5. shown = <<>>
  BY DEF SettingsInv, AsUsed
<1>6. AsUsed'
  BY <1>3, <1>5 DEF AsUsed, Sampling
<1> QED
  BY <1>1, <1>4, <1>6 DEF SettingsInv

LEMMA HelpShown == SettingsInv /\ ShowAndExit => SettingsInv'
<1> SUFFICES ASSUME SettingsInv, ShowAndExit PROVE SettingsInv'
  OBVIOUS
<1>1. /\ pc = "parse" /\ next <= Len(given) /\ given[next].opt \in {"h", "v"}
      /\ pc' = "exited" /\ exit' = "success"
      /\ UNCHANGED <<given, extra, next, a, proc, iters, shown>>
  BY DEF ShowAndExit, Reading, Current, Exit
<1>2. next \in Stops
  BY <1>1 DEF SettingsInv, TypeOK, Stops
<1>3. Verdict = "success"
  BY <1>1, <1>2, FirstStops DEF Verdict
<1> QED
  BY <1>1, <1>3, EndedInParse

LEMMA UsageShown == SettingsInv /\ ShowUsage => SettingsInv'
<1> SUFFICES ASSUME SettingsInv, ShowUsage PROVE SettingsInv'
  OBVIOUS
<1>1. /\ pc = "parse" /\ pc' = "exited" /\ exit' = "failure"
      /\ UNCHANGED <<given, extra, next, a, proc, iters, shown>>
  BY DEF ShowUsage, Exit
<1>2. CASE next > Len(given) /\ extra
  <2>1. Verdict = "failure"
    BY <1>2, NoneStops DEF Verdict
  <2> QED
    BY <1>1, <2>1, EndedInParse
<1>3. CASE Reading({"?"}) \/ (Reading({"s", "t"}) /\ ~ValidInt(Current.arg))
  <2>1. next \in Stops /\ given[next].opt \in {"?", "s", "t"}
    BY <1>3 DEF SettingsInv, TypeOK, Stops, Reading, ValidInt, Current
  <2>2. Verdict = "failure"
    BY <1>1, <2>1, FirstStops DEF Verdict
  <2> QED
    BY <1>1, <2>2, EndedInParse
<1> QED
  BY <1>2, <1>3 DEF ShowUsage

LEMMA AllParsed == SettingsInv /\ Parsed => SettingsInv'
<1> SUFFICES ASSUME SettingsInv, Parsed PROVE SettingsInv'
  OBVIOUS
<1>1. /\ pc = "parse" /\ pc' = "update" /\ next > Len(given) /\ extra = FALSE
      /\ UNCHANGED <<given, extra, next, a, proc, iters, shown, exit>>
  BY DEF Parsed, SettingsInv, TypeOK
<1>2. next = Len(given) + 1
  BY <1>1, NoneStops
<1>3. TypeOK'
  BY <1>1 DEF SettingsInv, TypeOK
<1>4. Stops' = Stops
  BY <1>1 DEF Stops
<1>5. Handled' /\ AsRead'
  BY <1>1, <1>4 DEF SettingsInv, Handled, AsRead
<1>6. AsUsed'
  BY <1>1, <1>2 DEF SettingsInv, AsUsed, Sampling
<1> QED
  BY <1>1, <1>3, <1>5, <1>6 DEF SettingsInv

-----------------------------------------------------------------------------
(* What is made of what was asked for.                                     *)

LEMMA Updated == SettingsInv /\ UpdateProc => SettingsInv'
<1> SUFFICES ASSUME SettingsInv, UpdateProc PROVE SettingsInv'
  OBVIOUS
<1>1. /\ pc = "update" /\ pc' = "reserve"
      /\ proc' = [rate |-> OrDefault(a.rate), time |-> OrDefault(a.time), workload |-> a.workload]
      /\ UNCHANGED <<given, extra, next, a, iters, shown, exit>>
  BY DEF UpdateProc
<1>2. a.rate \in Signed(IntBits) /\ a.time \in Signed(IntBits) /\ a.workload \in BOOLEAN
  BY DEF SettingsInv, TypeOK
<1>3. proc' \in [rate : Signed(IntBits), time : Signed(IntBits), workload : BOOLEAN]
  BY <1>1, <1>2, OrDefaultIsInt
<1>4. TypeOK'
  BY <1>1, <1>3 DEF SettingsInv, TypeOK
<1>5. Stops' = Stops
  BY <1>1 DEF Stops
<1>6. Handled' /\ AsRead'
  BY <1>1, <1>5 DEF SettingsInv, Handled, AsRead
<1>7. AsUsed'
  BY <1>1 DEF SettingsInv, AsUsed, Sampling
<1> QED
  BY <1>1, <1>4, <1>6, <1>7 DEF SettingsInv

(* The program only ends after the parsing when the command line is to be  *)
(* run.                                                                    *)
LEMMA VerdictIsRun ==
  ASSUME SettingsInv, pc \in {"update", "reserve", "sample"}
  PROVE  Verdict = "run"
<1>1. next = Len(given) + 1 /\ ~extra /\ given \in Seq(Option)
  BY DEF SettingsInv, AsUsed, Sampling
<1>2. next > Len(given)
  BY <1>1
<1> QED
  BY <1>1, <1>2, NoneStops DEF Verdict

LEMMA RefusedEnds == SettingsInv /\ (Refuse \/ ReserveFails) => SettingsInv'
<1> SUFFICES ASSUME SettingsInv, Refuse \/ ReserveFails PROVE SettingsInv'
  OBVIOUS
<1>1. /\ pc = "reserve" /\ pc' = "exited" /\ exit' = "failure"
      /\ UNCHANGED <<given, extra, next, a, proc, iters, shown>>
  BY DEF Refuse, ReserveFails, Exit
<1>2. TypeOK'
  BY <1>1 DEF SettingsInv, TypeOK
<1>3. Stops' = Stops
  BY <1>1 DEF Stops
<1>4. Verdict' = "run"
  <2>1. Verdict' = Verdict
    BY <1>1, <1>3 DEF Verdict
  <2> QED
    BY <1>1, <2>1, VerdictIsRun
<1>5. Handled' /\ AsRead'
  BY <1>1, <1>3 DEF SettingsInv, Handled, AsRead
<1>6. shown = <<>>
  BY <1>1 DEF SettingsInv, AsUsed
<1>7. AsUsed'
  BY <1>1, <1>4, <1>6 DEF AsUsed, Sampling
<1> QED
  BY <1>1, <1>2, <1>5, <1>7 DEF SettingsInv

LEMMA Reserved == SettingsInv /\ Reserve => SettingsInv'
<1> SUFFICES ASSUME SettingsInv, Reserve PROVE SettingsInv'
  OBVIOUS
<1>1. /\ pc = "reserve" /\ pc' = "sample" /\ iters' \in TotalIters /\ iters' # 0
      /\ UNCHANGED <<given, extra, next, a, proc, shown, exit>>
  BY DEF Reserve, Refused
<1>2. TotalIters \subseteq 0..(2 ^ SizeBits - 1)
  <2>1. Signed(IntBits) \subseteq Int
    BY SignedHalves, BitsAssumption
  <2>2. proc.rate \in Int /\ proc.time \in Int
    BY <2>1 DEF SettingsInv, TypeOK
  <2> QED
    BY <2>2, ItersAreSizes
<1>3. TypeOK'
  BY <1>1, <1>2 DEF SettingsInv, TypeOK
<1>4. Stops' = Stops
  BY <1>1 DEF Stops
<1>5. Handled' /\ AsRead'
  BY <1>1, <1>4 DEF SettingsInv, Handled, AsRead
<1>6. TotalIters' = TotalIters
  BY <1>1 DEF TotalIters, Products
<1>7. AsUsed'
  BY <1>1, <1>6 DEF SettingsInv, AsUsed, Sampling
<1> QED
  BY <1>1, <1>3, <1>5, <1>7 DEF SettingsInv

LEMMA Printed == SettingsInv /\ PrintSettings => SettingsInv'
<1> SUFFICES ASSUME SettingsInv, PrintSettings PROVE SettingsInv'
  OBVIOUS
<1>1. /\ pc = "sample" /\ pc' = "exited" /\ exit' = "success"
      /\ shown' = <<a.rate, a.time, proc.workload>>
      /\ UNCHANGED <<given, extra, next, a, proc, iters>>
  BY DEF PrintSettings, Exit
<1>2. TypeOK'
  BY <1>1 DEF SettingsInv, TypeOK
<1>3. Stops' = Stops
  BY <1>1 DEF Stops
<1>4. Verdict' = "run"
  <2>1. Verdict' = Verdict
    BY <1>1, <1>3 DEF Verdict
  <2> QED
    BY <1>1, <2>1, VerdictIsRun
<1>5. Handled' /\ AsRead'
  BY <1>1, <1>3 DEF SettingsInv, Handled, AsRead
<1>6. TotalIters' = TotalIters
  BY <1>1 DEF TotalIters, Products
<1>7. AsUsed'
  BY <1>1, <1>4, <1>6 DEF SettingsInv, AsUsed, Sampling
<1> QED
  BY <1>1, <1>2, <1>5, <1>7 DEF SettingsInv

LEMMA NextSettings == SettingsInv /\ [Next]_vars => SettingsInv'
<1> SUFFICES ASSUME SettingsInv, [Next]_vars PROVE SettingsInv'
  OBVIOUS
<1>1. CASE HandleNumber
  BY <1>1, NumberHandled
<1>2. CASE HandleWorkload
  BY <1>2, WorkloadHandled
<1>3. CASE ShowAndExit
  BY <1>3, HelpShown
<1>4. CASE ShowUsage
  BY <1>4, UsageShown
<1>5. CASE Parsed
  BY <1>5, AllParsed
<1>6. CASE UpdateProc
  BY <1>6, Updated
<1>7. CASE Refuse \/ ReserveFails
  BY <1>7, RefusedEnds
<1>8. CASE Reserve
  BY <1>8, Reserved
<1>9. CASE PrintSettings
  BY <1>9, Printed
<1>10. CASE UNCHANGED vars
  <2>1. UNCHANGED <<given, extra, next, a, proc, iters, shown, pc, exit>>
    BY <1>10 DEF vars
  <2>2. Stops' = Stops /\ TotalIters' = TotalIters
    BY <2>1 DEF Stops, TotalIters, Products
  <2>3. Verdict' = Verdict
    BY <2>1, <2>2 DEF Verdict
  <2>4. TypeOK' /\ Handled' /\ AsRead'
    BY <2>1, <2>2 DEF SettingsInv, TypeOK, Handled, AsRead
  <2>5. AsUsed'
    BY <2>1, <2>2, <2>3 DEF SettingsInv, AsUsed, Sampling
  <2> QED
    BY <2>1, <2>4, <2>5 DEF SettingsInv
<1> QED
  BY <1>1, <1>2, <1>3, <1>4, <1>5, <1>6, <1>7, <1>8, <1>9, <1>10 DEF Next

LEMMA SettingsInvariant == Spec => []SettingsInv
<1>1. Init => SettingsInv
  BY InitSettings
<1>2. SettingsInv /\ [Next]_vars => SettingsInv'
  BY NextSettings
<1> QED
  BY <1>1, <1>2, PTL DEF Spec

(* Whatever the widths of the integers, and whatever is asked for, no      *)
(* setting leaves its type: strtol's long is cut to an int, and the number *)
(* of samples is a size_t.                                                 *)
THEOREM SettingsTypeCorrect == Spec => []TypeOK
<1>1. SettingsInv => TypeOK
  BY DEF SettingsInv
<1> QED
  BY <1>1, SettingsInvariant, PTL

(* Every command line is run, explained or refused as the first option     *)
(* that stops its reading says, whatever their order and number.           *)
THEOREM VerdictIsKept == Spec => []VerdictKept
<1>1. SettingsInv => VerdictKept
  <2> SUFFICES ASSUME SettingsInv PROVE VerdictKept
    OBVIOUS
  <2>1. pc \in {"update", "reserve", "sample"} => Verdict = "run"
    BY VerdictIsRun
  <2>2. pc = "exited" /\ Verdict # "run" => exit = Verdict
    BY DEF SettingsInv, AsUsed
  <2> QED
    BY <2>1, <2>2 DEF VerdictKept
<1> QED
  BY <1>1, SettingsInvariant, PTL

-----------------------------------------------------------------------------
(* The settings a process samples with.                                    *)

(* What was read last is what the usage says counts, if it is an int.      *)
LEMMA LastCounts ==
  ASSUME given \in Seq(Option), NEW letter \in {"s", "t"}, NEW v,
         LastRead(given, Len(given), letter, v), LastOf(letter) \in Signed(IntBits)
  PROVE  v = LastOf(letter)
<1> DEFINE at == {k \in 1..Len(given) : given[k].opt = letter}
<1>1. LastOf(letter) = IF at = {} THEN Default ELSE given[Max(at)].arg
  BY DEF LastOf
<1>2. CASE v = Default /\ \A k \in 1..Len(given) : given[k].opt # letter
  <2>1. at = {}
    BY <1>2
  <2> QED
    BY <1>1, <1>2, <2>1
<1>3. ASSUME NEW k \in 1..Len(given),
             given[k].opt = letter /\ v = Wrap(given[k].arg, IntBits),
             \A j \in 1..Len(given) : given[j].opt = letter => j <= k
      PROVE  v = LastOf(letter)
  <2>1. k \in at /\ (\A j \in at : j \in Nat /\ j <= k) /\ k \in Nat
    BY <1>3
  <2> HIDE DEF at
  <2>2. \A m \in at : (\A j \in at : m >= j) => m = k
    BY <2>1
  <2>3. Max(at) = k
    BY <2>1, <2>2 DEF Max
  <2>4. LastOf(letter) = given[k].arg
    BY <1>1, <2>1, <2>3
  <2>5. given[k].arg \in Int
    BY <2>4, SignedHalves, BitsAssumption
  <2> QED
    BY <1>3, <2>4, <2>5, WrapFits, BitsAssumption
<1> QED
  BY <1>2, <1>3 DEF LastRead

LEMMA ProductIsSize ==
  ASSUME proc.rate \in Nat, proc.time \in Nat, proc.rate * proc.time \in Signed(IntBits),
         iters \in TotalIters
  PROVE  iters = proc.rate * proc.time
<1> DEFINE p == proc.rate * proc.time
           half == 2 ^ (IntBits - 1)
           size == 2 ^ SizeBits
<1>1. p \in Nat
  OBVIOUS
<1>2. half \in Nat /\ half > 0 /\ Signed(IntBits) = -half .. (half - 1)
  BY SignedHalves, BitsAssumption
<1>3. size \in Nat /\ size > 0 /\ half <= size
  <2>1. IntBits - 1 \in Nat /\ SizeBits \in Nat /\ IntBits - 1 <= SizeBits
    BY BitsAssumption
  <2> QED
    BY <2>1, PowerIsCount, PowerGrows
<1>4. Wrap(p, IntBits) = p
  BY <1>1, WrapFits, BitsAssumption
<1>5. iters = p % size
  BY <1>4 DEF TotalIters, Products
<1>6. p \in Signed(IntBits)
  OBVIOUS
<1> HIDE DEF p, half, size
<1>7. p < size
  BY <1>1, <1>2, <1>3, <1>6
<1>8. p % size = p
  BY <1>1, <1>3, <1>7
<1>9. iters = p
  BY <1>5, <1>8
<1> QED
  BY <1>9 DEF p

(* Nothing times anything is no sample.                                    *)
LEMMA NoSamples ==
  ASSUME proc.rate * proc.time = 0, iters \in TotalIters
  PROVE  iters = 0
<1>1. 2 ^ SizeBits \in Nat /\ 2 ^ SizeBits > 0
  BY PowerIsCount, PowerGrows, BitsAssumption
<1>2. Wrap(0, IntBits) = 0
  BY DefaultIsInt, WrapFits, BitsAssumption
<1>3. iters = 0 % 2 ^ SizeBits
  BY <1>2 DEF TotalIters, Products
<1> DEFINE size == 2 ^ SizeBits
<1>4. size \in Nat /\ size > 0 /\ iters = 0 % size
  BY <1>1, <1>3
<1> HIDE DEF size
<1> QED
  BY <1>4

(* Sleeping a share of a second so often takes no longer than asked.       *)
LEMMA SleepsAddUp ==
  ASSUME NEW second \in Nat, NEW rate \in Nat \ {0}, NEW time \in Nat,
         NEW n \in Nat, n <= rate * time
  PROVE  n * (second \div rate) <= second * time
<1> DEFINE q == second \div rate
<1>1. q \in Nat /\ q * rate <= second
  OBVIOUS
<1> HIDE DEF q
<1>2. rate * time \in Nat
  OBVIOUS
<1>3. n * q <= (rate * time) * q
  <2>1. PICK d \in Nat : rate * time = n + d
    <3>1. (rate * time) - n \in Nat /\ rate * time = n + ((rate * time) - n)
      BY <1>2
    <3> QED
      BY <3>1
  <2>2. (n + d) * q = (n * q) + (d * q) /\ d * q \in Nat /\ n * q \in Nat
    BY <1>1, <2>1
  <2> QED
    BY <2>1, <2>2
<1>4. (rate * time) * q = (q * rate) * time
  BY <1>1
<1>5. (q * rate) * time <= second * time
  <2>1. q * rate \in Nat
    BY <1>1
  <2>2. PICK d \in Nat : second = (q * rate) + d
    <3>1. second - (q * rate) \in Nat /\ second = (q * rate) + (second - (q * rate))
      BY <1>1, <2>1
    <3> QED
      BY <3>1
  <2>3. ((q * rate) + d) * time = ((q * rate) * time) + (d * time) /\ d * time \in Nat
        /\ (q * rate) * time \in Nat
    BY <2>1, <2>2
  <2> QED
    BY <2>2, <2>3
<1>6. n * q \in Nat /\ second * time \in Nat /\ (rate * time) * q \in Nat
  BY <1>1, <1>2
<1>7. n * q <= second * time
  BY <1>3, <1>4, <1>5, <1>6
<1> QED
  BY <1>7 DEF q

(* A process that samples does so at the rate and for the time its command *)
(* line asked for last, takes as many samples as their product says when   *)
(* it is an int, and never divides by zero or sleeps longer than asked -   *)
(* for every width of an int, every default and every command line.        *)
THEOREM SampledAsAsked == Spec => []SamplesAsAsked
<1>1. SettingsInv => AsAsked
  <2> SUFFICES ASSUME SettingsInv, Sampling,
                      LastOf("s") \in Signed(IntBits), LastOf("t") \in Signed(IntBits)
               PROVE  /\ proc.rate = Asked("s") /\ proc.time = Asked("t")
                      /\ proc.workload <=> \E k \in 1..Len(given) : given[k].opt = "w"
                      /\ proc.rate * proc.time \in Signed(IntBits) => iters = proc.rate * proc.time
                      /\ shown # <<>> => shown = <<LastOf("s"), LastOf("t"), proc.workload>>
    BY DEF AsAsked, Sampling
  <2>1. /\ given \in Seq(Option) /\ next = Len(given) + 1 /\ iters \in TotalIters
        /\ proc = [rate |-> OrDefault(a.rate), time |-> OrDefault(a.time), workload |-> a.workload]
        /\ shown # <<>> => shown = <<a.rate, a.time, proc.workload>>
        /\ a.rate \in Signed(IntBits) /\ a.time \in Signed(IntBits)
    BY DEF SettingsInv, AsUsed, TypeOK
  <2>2. next - 1 = Len(given)
    BY <2>1
  <2>3. /\ LastRead(given, Len(given), "s", a.rate) /\ LastRead(given, Len(given), "t", a.time)
        /\ WorkloadRead(given, Len(given), a.workload)
    BY <2>2 DEF SettingsInv, AsRead, ReadUpTo
  <2>4. a.rate = LastOf("s")
    BY <2>1, <2>3, LastCounts
  <2>5. a.time = LastOf("t")
    BY <2>1, <2>3, LastCounts
  <2>6. proc.rate = Asked("s") /\ proc.time = Asked("t")
    BY <2>1, <2>4, <2>5 DEF Asked, OrDefault
  <2>7. proc.workload <=> \E k \in 1..Len(given) : given[k].opt = "w"
    BY <2>1, <2>3 DEF WorkloadRead
  <2>8. proc.rate * proc.time \in Signed(IntBits) => iters = proc.rate * proc.time
    <3>1. proc.rate \in Nat /\ proc.time \in Nat
      BY <2>1, OrDefaultIsInt
    <3> QED
      BY <2>1, <3>1, ProductIsSize
  <2>9. shown # <<>> => shown = <<LastOf("s"), LastOf("t"), proc.workload>>
    BY <2>1, <2>4, <2>5
  <2> QED
    BY <2>6, <2>7, <2>8, <2>9
<1>2. SettingsInv => SleepIsDefined
  <2> SUFFICES ASSUME SettingsInv, pc = "sample"
               PROVE  /\ proc.rate > 0 /\ iters > 0
                      /\ iters <= proc.rate * proc.time => iters * SleepTime <= Second * proc.time
    BY DEF SleepIsDefined
  <2>1. /\ proc = [rate |-> OrDefault(a.rate), time |-> OrDefault(a.time), workload |-> a.workload]
        /\ a.rate \in Signed(IntBits) /\ a.time \in Signed(IntBits)
        /\ iters \in TotalIters /\ iters # 0 /\ iters \in 0..(2 ^ SizeBits - 1)
    BY DEF SettingsInv, AsUsed, Sampling, TypeOK
  <2>2. proc.rate \in Nat /\ proc.time \in Nat
    BY <2>1, OrDefaultIsInt
  <2>3. iters \in Nat
    <3>1. 2 ^ SizeBits \in Nat
      BY PowerIsCount, BitsAssumption
    <3> QED
      BY <2>1, <3>1
  <2>4. proc.rate # 0
    <3>1. ASSUME proc.rate = 0 PROVE FALSE
      <4>1. proc.rate * proc.time = 0
        BY <2>2, <3>1
      <4> QED
        BY <2>1, <4>1, NoSamples
    <3> QED
      BY <3>1
  <2>5. iters <= proc.rate * proc.time => iters * SleepTime <= Second * proc.time
    BY <2>2, <2>3, <2>4, SleepsAddUp, DefaultAssumption DEF SleepTime
  <2> QED
    BY <2>1, <2>2, <2>3, <2>4, <2>5
<1>3. SettingsInv => SamplesAsAsked
  BY <1>1, <1>2 DEF SamplesAsAsked
<1> QED
  BY <1>3, SettingsInvariant, PTL

=============================================================================
