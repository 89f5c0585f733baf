----------------------------- MODULE ProcSample -----------------------------
(***************************************************************************)
(* What a sample is: the values of the keys of interest in a file of /proc *)
(* (the tables and is_valid_key of mmu_memory.c), read as far as it could  *)
(* be read.                                                                *)
(***************************************************************************)
EXTENDS Integers, Sequences

CONSTANTS
  UllongMax,      \* the largest unsigned long long
  Iters,          \* mmu_memory_get_total_iters
  SelfKey,        \* mmu_memory_proc_self_tab
  NodeKey,        \* mmu_memory_proc_node_tab
  Other,          \* a key in neither table
  NoColon,        \* no key: nothing before a colon, or the rest of a long line
  NoDigits,       \* a value that does not begin with a digit
  StatusFiles,    \* what /proc/self/status may hold, line by line
  MeminfoFiles    \* what /proc/meminfo may hold

Key == SelfKey \union NodeKey
Value == 0..UllongMax
Line == [key : Key \union {Other, NoColon}, val : Nat \union {NoDigits}]

ASSUME MaxAssumption == UllongMax \in Nat
ASSUME ItersAssumption == Iters \in Nat \ {0}
ASSUME KeyAssumption ==
  /\ {"MemTotal", "MemFree", "MemUsed"} \subseteq NodeKey
  /\ SelfKey \intersect NodeKey = {}
  /\ Other \notin Key /\ NoColon \notin Key
ASSUME FilesAssumption ==
  \A f \in StatusFiles \union MeminfoFiles : f \in Seq(Line)

Kind == {"self", "node"}
Stage == {"pre", "post"}
List == Stage \X Kind
Table(kind) == IF kind = "self" THEN SelfKey ELSE NodeKey
Files(kind) == IF kind = "self" THEN StatusFiles ELSE MeminfoFiles

Sample == [Key -> Value]
Blank == [k \in Key |-> 0]

(* A line that can be read: its key is of no interest, or its value is one. *)
Readable(l, kind) ==
  l.key # NoColon /\ (l.key \in Table(kind) => l.val \in Value)

(* Of the first n lines of f those with key k.                             *)
LinesOf(f, n, k) == {j \in 1..n : f[j].key = k}

Latest(S) == CHOOSE j \in S : \A i \in S : i <= j

(* The value of key k in the first n lines of f: the last one counts.      *)
ValueOf(f, n, k) ==
  IF LinesOf(f, n, k) = {} THEN 0 ELSE f[Latest(LinesOf(f, n, k))].val

Raw(f, n, kind) == [k \in Key |-> IF k \in Table(kind) THEN ValueOf(f, n, k) ELSE 0]

(* What is used is what is not free, as unsigned numbers subtract.         *)
WithUsed(s) == [s EXCEPT !["MemUsed"] = (s["MemTotal"] - s["MemFree"]) % (UllongMax + 1)]

Measure(f, n, kind) ==
  IF kind = "node" THEN WithUsed(Raw(f, n, kind)) ELSE Raw(f, n, kind)

=============================================================================
