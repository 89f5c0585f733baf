------------------------------ MODULE MmuStack ------------------------------
(***************************************************************************)
(* What src/src/mmu_list.h promises its callers: a list on which items are *)
(* appended at the end, and from which the last item is popped.  A call    *)
(* that runs out of memory reports MMU_FAILURE_OOR; after it the list can  *)
(* be destructed.  Nothing is promised to a caller that goes on with it.   *)
(***************************************************************************)
EXTENDS Naturals, Sequences

CONSTANTS
  Payload,   \* what callers store
  Garbage    \* the content of memory nobody wrote

VARIABLES
  phase,     \* "absent", "open", "failed", "misused", "closed" or "crashed"
  contents,  \* the payloads stored, oldest first
  rc,        \* what the last call returned
  item       \* what the last successful pop handed to its caller

vars == <<phase, contents, rc, item>>

Init ==
  /\ phase = "absent"
  /\ contents = << >>
  /\ rc = "NONE"
  /\ item = Garbage

(* Any call that needs memory may find none. *)
OutOfResources(next) ==
  /\ phase \in {"absent", "open"}
  /\ phase' = next
  /\ contents' = << >>
  /\ rc' = "OOR"
  /\ UNCHANGED item

Construct ==
  /\ phase = "absent"
  /\ phase' = "open"
  /\ rc' = "SUCCESS"
  /\ UNCHANGED <<contents, item>>

Reserve ==
  /\ phase = "open"
  /\ rc' \in {"SUCCESS", "INVALID_ARG"}
  /\ UNCHANGED <<phase, contents, item>>

Push(v) ==
  /\ phase = "open"
  /\ contents' = Append(contents, v)
  /\ rc' = "SUCCESS"
  /\ UNCHANGED <<phase, item>>

Pop ==
  /\ phase = "open"
  /\ contents # << >>
  /\ item' = contents[Len(contents)]
  /\ contents' = SubSeq(contents, 1, Len(contents) - 1)
  /\ rc' = "SUCCESS"
  /\ UNCHANGED phase

PopEmpty ==
  /\ phase = "open"
  /\ contents = << >>
  /\ rc' = "LIST_POP"
  /\ UNCHANGED <<phase, contents, item>>

Destruct ==
  /\ phase \in {"open", "failed"}
  /\ phase' = "closed"
  /\ contents' = << >>
  /\ rc' = "SUCCESS"
  /\ UNCHANGED item

GoOn ==
  /\ phase = "failed"
  /\ phase' = "misused"
  /\ UNCHANGED <<contents, rc, item>>

(* Whatever becomes of it then. *)
Undefined ==
  /\ phase = "misused"
  /\ phase' \in {"misused", "closed", "crashed"}
  /\ contents' = << >>
  /\ rc' \in {"NONE", "SUCCESS", "OOR", "INVALID_ARG", "LIST_POP"}
  /\ item' \in Payload \cup {Garbage}

Next ==
  \/ Construct
  \/ Reserve
  \/ \E v \in Payload : Push(v)
  \/ Pop
  \/ PopEmpty
  \/ Destruct
  \/ OutOfResources("failed")
  \/ OutOfResources("closed")
  \/ GoOn
  \/ Undefined

Spec == Init /\ [][Next]_vars

=============================================================================
