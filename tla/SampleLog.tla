----------------------------- MODULE SampleLog -----------------------------
(***************************************************************************)
(* What src/src/mmu_memory.h promises a process that samples: in each of   *)
(* two stages, before and after MPI_Init, a sample of its own memory and   *)
(* one of its node's, in turn, Iters times.  A sample is a measurement of  *)
(* one file of /proc as far as it could be read.  On a node only one       *)
(* process, the delegate, measures the node after MPI_Init; the others     *)
(* keep blank samples, so that all of them need the same memory.           *)
(* A failure ends the sampling, and keeps what there is.                   *)
(***************************************************************************)
EXTENDS ProcSample

VARIABLES
  delegate,  \* will this process be the delegate of its node?
  lists,     \* the samples kept, by stage and kind
  ended      \* "no", "success" or "failure"

vars == <<delegate, lists, ended>>

Init ==
  /\ delegate \in BOOLEAN
  /\ lists = [l \in List |-> <<>>]
  /\ ended = "no"

Full(stage) == Len(lists[<<stage, "node">>]) = Iters

(* After MPI_Init only once all was sampled before it; the node after      *)
(* the process.                                                            *)
Turn(stage, kind) ==
  /\ stage = "post" => Full("pre")
  /\ IF kind = "self"
     THEN Len(lists[<<stage, "self">>]) = Len(lists[<<stage, "node">>]) /\ ~Full(stage)
     ELSE Len(lists[<<stage, "self">>]) = Len(lists[<<stage, "node">>]) + 1

Kept(stage, kind, s) == lists' = [lists EXCEPT ![<<stage, kind>>] = Append(@, s)]

Keep(stage, kind) ==
  /\ ended = "no"
  /\ Turn(stage, kind)
  /\ IF stage = "post" /\ kind = "node" /\ ~delegate
     THEN Kept(stage, kind, Blank)
     ELSE \E f \in Files(kind) : \E n \in 0..Len(f) :
            /\ \A j \in 1..n : Readable(f[j], kind)
            /\ Kept(stage, kind, Measure(f, n, kind))
  /\ UNCHANGED <<delegate, ended>>

End ==
  /\ ended = "no"
  /\ Full("pre") /\ Full("post")
  /\ ended' = "success"
  /\ UNCHANGED <<delegate, lists>>

Fail ==
  /\ ended = "no"
  /\ ended' = "failure"
  /\ UNCHANGED <<delegate, lists>>

Next ==
  \/ \E stage \in Stage, kind \in Kind : Keep(stage, kind)
  \/ End
  \/ Fail

Spec == Init /\ [][Next]_vars

=============================================================================
