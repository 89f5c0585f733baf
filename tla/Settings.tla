------------------------------ MODULE Settings ------------------------------
(***************************************************************************)
(* From the command line to the sampling loop: mmu_args.c reads rate, time *)
(* and workload, mpimemu_update_proc validates them, and                   *)
(* mmu_memory_get_total_iters turns rate times time into a number of       *)
(* samples that are reserved and taken.                                    *)
(*                                                                         *)
(* An int has IntBits bits, a long LongBits, a size_t SizeBits.  An option *)
(* is a record of its letter and its argument: the number strtol finds at  *)
(* the start of it (what follows the digits is ignored), or NoDigits.      *)
(*                                                                         *)
(* A Bug_ operator is the definition after it with a plausible slip; no    *)
(* specification uses it.  README.md says which property notices it.       *)
(***************************************************************************)
EXTENDS Integers, Sequences, FiniteSetsExt

CONSTANTS
  IntBits, LongBits, SizeBits,
  Default,      \* MMU_DEFAULT_SAMPLE_RATE and MMU_DEFAULT_SAMPLE_TIME
  Second,       \* a second in microseconds
  Reservable,   \* as many samples as any machine has memory for
  NoDigits,     \* an argument that does not begin with a number
  Numbers,      \* the numbers tried as arguments
  MaxOptions    \* bound on the length of the command line

ASSUME BitsAssumption ==
  /\ IntBits \in Nat \ {0} /\ LongBits \in Nat /\ SizeBits \in Nat
  /\ IntBits < LongBits /\ 2 * IntBits <= SizeBits
ASSUME NumbersAssumption == Numbers \subseteq Int /\ NoDigits \notin Numbers
ASSUME DefaultAssumption ==
  /\ Default \in Nat \ {0} /\ Second \in Nat \ {0} /\ Reservable \in Nat
  /\ Default * Default < 2 ^ (IntBits - 1)

Signed(bits) == -(2 ^ (bits - 1)) .. (2 ^ (bits - 1) - 1)

Bug_Wrap(v, bits) == v % 2 ^ bits

(* The value of v in a signed type of that width.                          *)
Wrap(v, bits) == ((v + 2 ^ (bits - 1)) % 2 ^ bits) - 2 ^ (bits - 1)

Option ==
  [opt : {"s", "t"}, arg : Numbers \union {NoDigits}]
    \union [opt : {"w", "h", "v", "?"}, arg : {NoDigits}]

VARIABLES
  given,     \* the options, in the order getopt_long_only returns them
  extra,     \* is there something on the command line that is no option?
  next,      \* the option to look at
  a,         \* mmu_args_t: what is asked for
  proc,      \* the settings of the process
  iters,     \* total_iters, as reserved
  shown,     \* the settings print_settings shows
  pc,
  exit       \* "none" until the program has ended

vars == <<given, extra, next, a, proc, iters, shown, pc, exit>>

Defaults == [rate |-> Default, time |-> Default, workload |-> FALSE]

Init ==
  /\ given \in UNION {[1..n -> Option] : n \in 0..MaxOptions}
  /\ extra \in BOOLEAN
  /\ next = 1
  /\ a = Defaults
  /\ proc = [rate |-> 0, time |-> 0, workload |-> FALSE]
  /\ iters = 0
  /\ shown = <<>>
  /\ pc = "parse"
  /\ exit = "none"

Exit(code) == pc' = "exited" /\ exit' = code

Current == given[next]

-----------------------------------------------------------------------------
(* mmu_args_process_user_input *)

Reading(letters) ==
  /\ pc = "parse"
  /\ next <= Len(given)
  /\ Current.opt \in letters

(* strtol reports a number that is no long; (int) cuts one that is.        *)
ValidInt(v) == v # NoDigits /\ v \in Signed(LongBits)

HandleNumber ==
  /\ Reading({"s", "t"})
  /\ ValidInt(Current.arg)
  /\ a' = IF Current.opt = "s" THEN [a EXCEPT !.rate = Wrap(Current.arg, IntBits)]
                               ELSE [a EXCEPT !.time = Wrap(Current.arg, IntBits)]
  /\ next' = next + 1
  /\ UNCHANGED <<given, extra, proc, iters, shown, pc, exit>>

HandleWorkload ==
  /\ Reading({"w"})
  /\ a' = [a EXCEPT !.workload = TRUE]
  /\ next' = next + 1
  /\ UNCHANGED <<given, extra, proc, iters, shown, pc, exit>>

Bug_ShowAndExit ==
  /\ Reading({"h", "v"})
  /\ next' = next + 1
  /\ UNCHANGED <<given, extra, a, proc, iters, shown, pc, exit>>

(* Help and version end the program at once, whatever follows.             *)
ShowAndExit ==
  /\ Reading({"h", "v"})
  /\ Exit("success")
  /\ UNCHANGED <<given, extra, next, a, proc, iters, shown>>

ShowUsage ==
  /\ pc = "parse"
  /\ \/ Reading({"?"})
     \/ Reading({"s", "t"}) /\ ~ValidInt(Current.arg)
     \/ next > Len(given) /\ extra
  /\ Exit("failure")
  /\ UNCHANGED <<given, extra, next, a, proc, iters, shown>>

Parsed ==
  /\ pc = "parse"
  /\ next > Len(given)
  /\ ~extra
  /\ pc' = "update"
  /\ UNCHANGED <<given, extra, next, a, proc, iters, shown, exit>>

-----------------------------------------------------------------------------
(* mpimemu_update_proc, and mmu_memory_reserve_memory *)

OrDefault(v) == IF v < 0 THEN Default ELSE v

Bug_UpdateProc ==
  /\ pc = "update"
  /\ proc' = [rate |-> OrDefault(a.rate), time |-> OrDefault(a.rate),
              workload |-> a.workload]
  /\ pc' = "reserve"
  /\ UNCHANGED <<given, extra, next, a, iters, shown, exit>>

UpdateProc ==
  /\ pc = "update"
  /\ proc' = [rate |-> OrDefault(a.rate), time |-> OrDefault(a.time),
              workload |-> a.workload]
  /\ pc' = "reserve"
  /\ UNCHANGED <<given, extra, next, a, iters, shown, exit>>

(* sample_rate * sample_time is a product of ints, widened afterwards.     *)
(* One that is no int is undefined: a build may wrap it around, or, as it  *)
(* is widened anyway, have computed it in the wider type.                  *)
Products == {Wrap(proc.rate * proc.time, IntBits), proc.rate * proc.time}

TotalIters == {p % 2 ^ SizeBits : p \in Products}

(* A product of two ints always fits a size_t, so "result is too large"    *)
(* is never said; zero is refused.                                         *)
Refused(n) == n = 0

Refuse ==
  /\ pc = "reserve"
  /\ \E n \in TotalIters : Refused(n)
  /\ Exit("failure")
  /\ UNCHANGED <<given, extra, next, a, proc, iters, shown>>

(* All lists get their room before the first sample.                       *)
Reserve ==
  /\ pc = "reserve"
  /\ \E n \in TotalIters :
       /\ ~Refused(n)
       /\ n <= Reservable
       /\ iters' = n
  /\ pc' = "sample"
  /\ UNCHANGED <<given, extra, next, a, proc, shown, exit>>

(* Out of memory, in any case for more than there can be.                  *)
ReserveFails ==
  /\ pc = "reserve"
  /\ \E n \in TotalIters : ~Refused(n)
  /\ Exit("failure")
  /\ UNCHANGED <<given, extra, next, a, proc, iters, shown>>

-----------------------------------------------------------------------------
(* The rest of main: samples, MPI_Init, print_settings, samples *)

SleepTime == Second \div proc.rate

(* Between the two stages the delegate shows the settings.  The number of  *)
(* samples is computed again at each stage, by the same code; sampling and *)
(* what follows it are Mpimemu.                                            *)
PrintSettings ==
  /\ pc = "sample"
  /\ shown' = <<a.rate, a.time, proc.workload>>
  /\ Exit("success")
  /\ UNCHANGED <<given, extra, next, a, proc, iters>>

Next ==
  \/ HandleNumber
  \/ HandleWorkload
  \/ ShowAndExit
  \/ ShowUsage
  \/ Parsed
  \/ UpdateProc
  \/ Refuse
  \/ Reserve
  \/ ReserveFails
  \/ PrintSettings

Spec == Init /\ [][Next]_vars

-----------------------------------------------------------------------------
TypeOK ==
  /\ \A k \in 1..Len(given) : given[k] \in Option
  /\ extra \in BOOLEAN
  /\ next \in 1..(Len(given) + 1)
  /\ a \in [rate : Signed(IntBits), time : Signed(IntBits), workload : BOOLEAN]
  /\ proc \in [rate : Signed(IntBits), time : Signed(IntBits), workload : BOOLEAN]
  /\ iters \in 0..(2 ^ SizeBits - 1)
  /\ pc \in {"parse", "update", "reserve", "sample", "exited"}
  /\ exit \in {"none", "success", "failure"}

(* Where the command line stops being read: help, version, an unknown      *)
(* option, or an argument that is no number.                               *)
Stops ==
  {k \in 1..Len(given) :
     \/ given[k].opt \in {"h", "v", "?"}
     \/ given[k].opt \in {"s", "t"} /\ (given[k].arg = NoDigits
                                        \/ given[k].arg \notin Signed(LongBits))}

(* What the usage promises: the first option that stops the reading says   *)
(* how the program ends, and what is no option is an error after that.     *)
Verdict ==
  IF Stops # {} THEN IF given[Min(Stops)].opt \in {"h", "v"} THEN "success" ELSE "failure"
  ELSE IF extra THEN "failure"
  ELSE "run"

(* A command line is run, explained or refused exactly as its options say, *)
(* in every order of them: main's two exits around                         *)
(* mmu_args_process_user_input (mpimemu.c:130-142) do not mix them up.     *)
VerdictKept ==
  /\ pc \in {"update", "reserve", "sample"} => Verdict = "run"
  /\ pc = "exited" /\ Verdict # "run" => exit = Verdict

(* The last -s or -t counts, or else the default.                          *)
LastOf(letter) ==
  LET at == {k \in 1..Len(given) : given[k].opt = letter}
  IN IF at = {} THEN Default ELSE given[Max(at)].arg

Asked(letter) == IF LastOf(letter) < 0 THEN Default ELSE LastOf(letter)

(* A process that samples does so at the rate and for the time it was told *)
(* on the command line, "negative sample rate requested: ignoring and      *)
(* continuing with default rate" (mpimemu.c:34), if they are ints; and if  *)
(* their product is one too it reserves and takes rate times time samples. *)
(* The settings shown are those used, but for a negative one: shown is     *)
(* what was asked for, and not the default.                                *)
AsAsked ==
  ((pc = "sample" \/ shown # <<>>) /\ LastOf("s") \in Signed(IntBits) /\ LastOf("t") \in Signed(IntBits)) =>
    /\ proc.rate = Asked("s") /\ proc.time = Asked("t")
    /\ proc.workload <=> \E k \in 1..Len(given) : given[k].opt = "w"
    /\ proc.rate * proc.time \in Signed(IntBits) => iters = proc.rate * proc.time
    /\ shown # <<>> => shown = <<LastOf("s"), LastOf("t"), proc.workload>>

(* No sampling loop divides by a rate of zero or sleeps longer than asked, *)
(* even if the number of its samples has wrapped around to a smaller one.  *)
SleepIsDefined ==
  pc = "sample" =>
    /\ proc.rate > 0 /\ iters > 0
    /\ iters <= proc.rate * proc.time => iters * SleepTime <= Second * proc.time

(* A process samples as asked, and as it can.                              *)
SamplesAsAsked == AsAsked /\ SleepIsDefined

=============================================================================
