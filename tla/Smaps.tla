------------------------------- MODULE Smaps -------------------------------
(***************************************************************************)
(* The sampler of memnesia (src/memnesia/trace/memnesia-sampler.cc): it    *)
(* reads /proc/self/smaps, entry by entry, and adds up the values of each  *)
(* key over all mappings but those of the tracing library itself.          *)
(*                                                                         *)
(* A line is a record: a "header" says whether its path ends in the name   *)
(* of the tracing library, other lines have a key, a value and units; what *)
(* ends an entry is its "VmFlags" line.                                    *)
(* It is a system of its own; its names are apart from those of Memnesia,  *)
(* so that one module can prove about both.                                *)
(*                                                                         *)
(* A Bug_ operator is the definition after it with a plausible slip; no    *)
(* specification uses it.  README.md says which property notices it.       *)
(***************************************************************************)
EXTENDS Integers, Sequences

CONSTANTS
  Tallied,   \* the keys of tokid_tab that are added up
  Other,     \* a key that is not in tokid_tab
  Files      \* what smaps may hold

SmapsLine ==
  [key : {"header"}, trace : BOOLEAN]
    \union [key : Tallied \union {Other, "VmFlags"}, val : Nat, units : {"kB", "other", "none"}]

ASSUME KeyAssumption ==
  {"header", "VmFlags"} \intersect (Tallied \union {Other}) = {} /\ Other \notin Tallied

(* "We rely on this being the last element for a given entry"              *)
(* (memnesia-sampler.cc:196): headers are the lines after VmFlags.         *)
ASSUME FilesAssumption ==
  \A f \in Files :
    /\ f \in Seq(SmapsLine)
    /\ \A n \in 1..Len(f) : f[n].key = "header" <=> n = 1 \/ f[n - 1].key = "VmFlags"

VARIABLES
  smaps,
  line,       \* the line to be read
  place,      \* "header", "body", "done", "failed"
  add,       \* add_entry_to_tally
  sample     \* data_in_kb

samplerVars == <<smaps, line, place, add, sample>>

SamplerInit ==
  /\ smaps \in Files
  /\ line = 1
  /\ place = "header"
  /\ add = FALSE
  /\ sample = [key \in Tallied |-> 0]

ThisLine == smaps[line]
Reading(where) == place = where /\ line <= Len(smaps)

Bug_ParseHeader ==
  /\ Reading("header")
  /\ add' = (add \/ ~ThisLine.trace)
  /\ line' = line + 1
  /\ place' = "body"
  /\ UNCHANGED <<smaps, sample>>

ParseHeader ==
  /\ Reading("header")
  /\ add' = ~ThisLine.trace
  /\ line' = line + 1
  /\ place' = "body"
  /\ UNCHANGED <<smaps, sample>>

(* fgets returns NULL at the end, and after an error.                      *)
NoMoreLines ==
  /\ place \in {"header", "body"}
  /\ place' = "done"
  /\ UNCHANGED <<smaps, line, add, sample>>

(* The third token of a line is used before anything is known of the line. *)
(* Where there is none ("THPeligible: 0", since Linux 4.20) the behaviour  *)
(* is undefined: a crash, or some string.                                  *)
NoUnits ==
  /\ Reading("body")
  /\ ThisLine.units = "none"
  /\ place' = "failed"
  /\ UNCHANGED <<smaps, line, add, sample>>

Ignore ==
  /\ Reading("body")
  /\ ThisLine.key = Other
  /\ line' = line + 1
  /\ UNCHANGED <<smaps, place, add, sample>>

EndOfEntry ==
  /\ Reading("body")
  /\ ThisLine.key = "VmFlags"
  /\ line' = line + 1
  /\ place' = "header"
  /\ UNCHANGED <<smaps, add, sample>>

Added == IF add THEN [sample EXCEPT ![ThisLine.key] = @ + ThisLine.val] ELSE sample

Tally ==
  /\ Reading("body")
  /\ ThisLine.key \in Tallied /\ ThisLine.units = "kB"
  /\ sample' = Added
  /\ line' = line + 1
  /\ UNCHANGED <<smaps, place, add>>

(* "PARSE ERROR: Unexpected units", said once the value has been added.    *)
WrongUnits ==
  /\ Reading("body")
  /\ ThisLine.key \in Tallied /\ ThisLine.units # "kB"
  /\ sample' = Added
  /\ line' = line + 1
  /\ place' = "failed"
  /\ UNCHANGED <<smaps, add>>

SamplerNext ==
  \/ ParseHeader
  \/ NoMoreLines
  \/ NoUnits
  \/ Ignore
  \/ EndOfEntry
  \/ Tally
  \/ WrongUnits

SamplerSpec == SamplerInit /\ [][SamplerNext]_samplerVars

-----------------------------------------------------------------------------
(* The line that begins the entry line n is in.                            *)
HeaderOf(n) ==
  CHOOSE h \in 1..n : smaps[h].key = "header" /\ \A j \in (h + 1)..n : smaps[j].key # "header"

Counts(n, key) == smaps[n].key = key /\ ~smaps[HeaderOf(n)].trace

SumOf(key) ==
  LET sum[n \in 0..Len(smaps)] ==
        IF n = 0 THEN 0 ELSE sum[n - 1] + IF Counts(n, key) THEN smaps[n].val ELSE 0
  IN  sum[line - 1]

(* A sample is the sum over all mappings read so far, "Skip all entries    *)
(* that end with memnesia-trace.so" (memnesia-sampler.cc:74): what is      *)
(* decided at the header of an entry holds for its lines and no others.    *)
TallyIsSum == \A key \in Tallied : sample[key] = SumOf(key)

=============================================================================
