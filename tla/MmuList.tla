------------------------------- MODULE MmuList -------------------------------
(***************************************************************************)
(* The growable array of src/src/mmu_list.c, with the allocator failing    *)
(* whenever it likes.                                                      *)
(*                                                                         *)
(* ptrs is the array the item_ptrs field points to, as a sequence: a NULL  *)
(* array is the empty sequence (no call allocates zero slots).  capacity   *)
(* is the field the code consults, which is not always the length of the   *)
(* array.  Slot i of the code is ptrs[i + 1].                              *)
(*                                                                         *)
(* A Bug_ operator is the operation after it with a plausible slip; no     *)
(* specification uses it.  README.md says which property notices it.       *)
(***************************************************************************)
EXTENDS Naturals, Sequences

CONSTANTS
  Payload,   \* what callers store
  Garbage,   \* the content of memory nobody wrote
  MaxLen     \* bound on reserve sizes and on the number of items

ASSUME PayloadAssumption == Garbage \notin Payload
ASSUME MaxLenAssumption == MaxLen \in Nat

VARIABLES
  phase,     \* "absent", "open", "failed" (a call returned OOR), "misused"
             \* (its caller goes on all the same), "closed", or "crashed"
             \* (the code used a slot that is not there)
  ptrs,      \* the array of item pointers
  size,      \* list->size
  capacity,  \* list->capacity
  live,      \* items allocated by append, neither popped nor destructed
  rc,        \* what the last call returned
  item       \* what the last successful pop handed to its caller

vars == <<phase, ptrs, size, capacity, live, rc, item>>

Init ==
  /\ phase = "absent"
  /\ ptrs = << >>
  /\ size = 0
  /\ capacity = 0
  /\ live = 0
  /\ rc = "NONE"
  /\ item = Garbage

(* realloc to n slots keeps the old ones and leaves the new ones unset. *)
Realloc(n) ==
  [i \in 1..n |-> IF i <= Len(ptrs) THEN ptrs[i] ELSE Garbage]

(* A call fails; whoever has gone on after a failure is past being warned. *)
Failed == phase' = IF phase = "misused" THEN "misused" ELSE "failed"

(* list_grow: nothing to do, a successful realloc, or a failed one, which  *)
(* overwrites item_ptrs with NULL and leaves size and capacity alone.      *)
GrowIsFree(n) == capacity >= n

Grown(n) == IF GrowIsFree(n) THEN ptrs ELSE Realloc(n)

GrowFails(n) ==
  /\ ~GrowIsFree(n)
  /\ ptrs' = << >>
  /\ Failed
  /\ rc' = "OOR"
  /\ UNCHANGED <<size, capacity, live, item>>

-----------------------------------------------------------------------------
(* mmu_list_construct *)

Construct ==
  /\ phase = "absent"
  /\ phase' = "open"
  /\ rc' = "SUCCESS"
  /\ UNCHANGED <<ptrs, size, capacity, live, item>>

ConstructFails ==
  /\ phase = "absent"
  /\ phase' = "closed"
  /\ rc' = "OOR"
  /\ UNCHANGED <<ptrs, size, capacity, live, item>>

(* mmu_list_reserve *)

Bug_Reserve(n) ==
  /\ n > 0
  /\ ptrs' = Grown(n)
  /\ capacity' = n
  /\ rc' = "SUCCESS"
  /\ UNCHANGED <<phase, size, live, item>>

Reserve(n) ==
  /\ n > 0
  /\ ptrs' = Grown(n)
  /\ capacity' = IF GrowIsFree(n) THEN capacity ELSE n
  /\ rc' = "SUCCESS"
  /\ UNCHANGED <<phase, size, live, item>>

ReserveNothing ==
  /\ rc' = "INVALID_ARG"
  /\ UNCHANGED <<phase, ptrs, size, capacity, live, item>>

ReserveFails(n) == GrowFails(n)

(* mmu_list_append *)

Append1(v) ==
  LET array == Grown(size + 1) IN
  /\ size < MaxLen
  /\ size < Len(array)
  /\ ptrs' = [array EXCEPT ![size + 1] = v]
  /\ capacity' = IF GrowIsFree(size + 1) THEN capacity ELSE size + 1
  /\ size' = size + 1
  /\ live' = live + 1
  /\ rc' = "SUCCESS"
  /\ UNCHANGED <<phase, item>>

(* list_grow found capacity enough, but there is no array to store into *)
AppendCrashes ==
  /\ size < MaxLen
  /\ size >= Len(Grown(size + 1))
  /\ phase' = "crashed"
  /\ UNCHANGED <<ptrs, size, capacity, live, rc, item>>

(* list_item_construct fails: the node or its payload cannot be allocated *)
AppendItemFails ==
  /\ size < MaxLen
  /\ Failed
  /\ rc' = "OOR"
  /\ UNCHANGED <<ptrs, size, capacity, live, item>>

(* the item was built, the array does not grow: the item is destructed *)
AppendGrowFails ==
  /\ size < MaxLen
  /\ GrowFails(size + 1)

(* mmu_list_pop: the payload changes hands, its node is freed *)

SlotIsItem(i) == i \in 1..Len(ptrs) /\ ptrs[i] # Garbage

Bug_Pop ==
  /\ size > 0
  /\ SlotIsItem(1)
  /\ item' = ptrs[1]
  /\ size' = size - 1
  /\ live' = live - 1
  /\ rc' = "SUCCESS"
  /\ UNCHANGED <<phase, ptrs, capacity>>

Pop ==
  /\ size > 0
  /\ SlotIsItem(size)
  /\ item' = ptrs[size]
  /\ size' = size - 1
  /\ live' = live - 1
  /\ rc' = "SUCCESS"
  /\ UNCHANGED <<phase, ptrs, capacity>>

PopEmpty ==
  /\ size = 0
  /\ rc' = "LIST_POP"
  /\ UNCHANGED <<phase, ptrs, size, capacity, live, item>>

PopCrashes ==
  /\ size > 0
  /\ ~SlotIsItem(size)
  /\ phase' = "crashed"
  /\ UNCHANGED <<ptrs, size, capacity, live, rc, item>>

(* mmu_list_destruct: the items are reached through the array only *)
Destruct ==
  /\ ptrs = << >> \/ \A i \in 1..size : SlotIsItem(i)
  /\ phase' = "closed"
  /\ ptrs' = << >>
  /\ size' = 0
  /\ capacity' = 0
  /\ live' = IF ptrs = << >> THEN live ELSE live - size
  /\ rc' = "SUCCESS"
  /\ UNCHANGED item

DestructCrashes ==
  /\ ptrs # << >>
  /\ \E i \in 1..size : ~SlotIsItem(i)
  /\ phase' = "crashed"
  /\ UNCHANGED <<ptrs, size, capacity, live, rc, item>>

-----------------------------------------------------------------------------
(* One call on a constructed list. *)
Call ==
  \/ \E n \in 1..MaxLen : Reserve(n) \/ ReserveFails(n)
  \/ ReserveNothing
  \/ \E v \in Payload : Append1(v)
  \/ AppendCrashes
  \/ AppendItemFails
  \/ AppendGrowFails
  \/ Pop
  \/ PopEmpty
  \/ PopCrashes

Discard == Destruct \/ DestructCrashes

(* A caller that goes on after a failure, which nothing in the interface   *)
(* keeps it from.  The callers in src/src do not: every one leaves by its  *)
(* "out" label, and the list is only destructed.                           *)
GoOn ==
  /\ phase = "failed"
  /\ phase' = "misused"
  /\ UNCHANGED <<ptrs, size, capacity, live, rc, item>>

Next ==
  \/ Construct
  \/ ConstructFails
  \/ phase \in {"open", "misused"} /\ Call
  \/ phase \in {"open", "failed", "misused"} /\ Discard
  \/ GoOn

Spec == Init /\ [][Next]_vars

-----------------------------------------------------------------------------
TypeOK ==
  /\ phase \in {"absent", "open", "failed", "misused", "closed", "crashed"}
  /\ ptrs \in Seq(Payload \cup {Garbage})
  /\ size \in Nat
  /\ capacity \in Nat
  /\ live \in Nat
  /\ rc \in {"NONE", "SUCCESS", "OOR", "INVALID_ARG", "LIST_POP"}
  /\ item \in Payload \cup {Garbage}

HasArray == phase = "open" \/ (phase = "failed" /\ ptrs # << >>)

(* A list whose calls have all succeeded has as many slots as its capacity *)
(* field says, and reaches every item it owns through them; a list that    *)
(* failed still does, unless the failed realloc lost its array             *)
(* (list_grow, append, pop and the loop of mmu_list_destruct).  Nothing is *)
(* said of a list whose caller goes on.                                    *)
Consistent ==
  /\ phase = "absent" => ptrs = << >> /\ size = 0 /\ capacity = 0 /\ live = 0
  /\ HasArray => /\ Len(ptrs) = capacity
                 /\ size <= capacity
                 /\ live = size
                 /\ \A i \in 1..size : ptrs[i] \in Payload

(* The list is the stack mmu_list.h promises: every call has the outcome   *)
(* the stack allows, in any order of calls and with the allocator failing  *)
(* at any of them; after a failure it can be destructed; and it crashes on *)
(* none but a caller that has gone on after one.                           *)
Contents == IF phase = "open" THEN SubSeq(ptrs, 1, size) ELSE << >>

Stack == INSTANCE MmuStack WITH contents <- Contents

ImplementsStack == Stack!Spec

(* Whoever keeps calling, a list goes wrong only after one of its calls    *)
(* has returned MMU_FAILURE_OOR, and not when it is just destructed then:  *)
(* append, pop and destruct find a slot wherever they look.                *)
CrashOnlyByMisuse == [][phase' = "crashed" => phase \in {"misused", "crashed"}]_vars

=============================================================================
