---------------------------- MODULE MmuListProofs ----------------------------
(***************************************************************************)
(* Proofs about MmuList, for every set of payloads and every MaxLen.       *)
(* OpenArray says what a list looks like while its calls succeed; it is    *)
(* the open half of Consistent, and all the other results rest on it.      *)
(***************************************************************************)
EXTENDS MmuList, SequenceTheorems, TLAPS

Slot == Payload \cup {Garbage}

OpenArray ==
  /\ ptrs \in Seq(Slot)
  /\ size \in Nat
  /\ capacity = Len(ptrs)
  /\ size <= capacity
  /\ \A i \in 1..size : ptrs[i] \in Payload

-----------------------------------------------------------------------------
(* list_grow on an array as long as its capacity says: the result has room *)
(* for n items and keeps the slots there were.                             *)
LEMMA GrownArray ==
  ASSUME ptrs \in Seq(Slot), capacity = Len(ptrs), NEW n \in Nat
  PROVE  /\ Grown(n) \in Seq(Slot)
         /\ Len(Grown(n)) = IF GrowIsFree(n) THEN capacity ELSE n
         /\ Len(Grown(n)) >= n
         /\ Len(Grown(n)) >= Len(ptrs)
         /\ \A i \in 1..Len(ptrs) : Grown(n)[i] = ptrs[i]
  <1>1. CASE GrowIsFree(n)
    BY <1>1 DEF Grown, GrowIsFree
  <1>2. CASE ~GrowIsFree(n)
    <2>1. Grown(n) = [i \in 1..n |-> IF i <= Len(ptrs) THEN ptrs[i] ELSE Garbage]
      BY <1>2 DEF Grown, Realloc
    <2>2. \A i \in 1..n : Grown(n)[i] \in Slot
      BY <2>1 DEF Slot
    <2>3. Grown(n) \in [1..n -> Slot]
      BY <2>1, <2>2
    <2>4. Grown(n) \in Seq(Slot) /\ Len(Grown(n)) = n
      BY <2>3, SeqDef
    <2>5. n > Len(ptrs)
      BY <1>2 DEF GrowIsFree
    <2>6. \A i \in 1..Len(ptrs) : Grown(n)[i] = ptrs[i]
      BY <2>1, <2>5
    <2> QED
      BY <1>2, <2>4, <2>5, <2>6
  <1> QED
    BY <1>1, <1>2

LEMMA ReserveArray ==
  ASSUME OpenArray, NEW n \in Nat, Reserve(n)
  PROVE  /\ OpenArray'
         /\ \A i \in 1..size : ptrs'[i] = ptrs[i]
  <1>1. ptrs \in Seq(Slot) /\ capacity = Len(ptrs) /\ size \in 0..Len(ptrs)
    BY DEF OpenArray
  <1>2. /\ Grown(n) \in Seq(Slot)
        /\ Len(Grown(n)) = IF GrowIsFree(n) THEN capacity ELSE n
        /\ Len(Grown(n)) >= Len(ptrs)
        /\ \A i \in 1..Len(ptrs) : Grown(n)[i] = ptrs[i]
    BY <1>1, GrownArray
  <1>3. /\ ptrs' = Grown(n) /\ size' = size
        /\ capacity' = IF GrowIsFree(n) THEN capacity ELSE n
    BY DEF Reserve
  <1>4. \A i \in 1..size : ptrs'[i] = ptrs[i]
    BY <1>1, <1>2, <1>3
  <1>5. capacity' = Len(ptrs') /\ size' \in Nat /\ size' <= capacity'
    BY <1>1, <1>2, <1>3
  <1> QED
    BY <1>1, <1>2, <1>3, <1>4, <1>5 DEF OpenArray

(* The store of mmu_list_append: one more item, the others untouched. *)
LEMMA AppendArray ==
  ASSUME OpenArray, NEW v \in Payload, Append1(v)
  PROVE  /\ OpenArray'
         /\ size' = size + 1
         /\ ptrs'[size + 1] = v
         /\ \A i \in 1..size : ptrs'[i] = ptrs[i]
  <1> DEFINE array == Grown(size + 1)
  <1>1. /\ array \in Seq(Slot)
        /\ Len(array) = IF GrowIsFree(size + 1) THEN capacity ELSE size + 1
        /\ size + 1 \in 1..Len(array)
        /\ \A i \in 1..size : array[i] = ptrs[i]
    <2>1. /\ ptrs \in Seq(Slot) /\ capacity = Len(ptrs)
          /\ size \in Nat /\ size <= Len(ptrs) /\ size + 1 \in Nat
      BY DEF OpenArray
    <2>2. /\ Grown(size + 1) \in Seq(Slot)
          /\ Len(Grown(size + 1)) = IF GrowIsFree(size + 1) THEN capacity ELSE size + 1
          /\ Len(Grown(size + 1)) >= size + 1
          /\ \A i \in 1..Len(ptrs) : Grown(size + 1)[i] = ptrs[i]
      BY <2>1, GrownArray
    <2>3. \A i \in 1..size : i \in 1..Len(ptrs)
      BY <2>1
    <2> QED
      BY <2>1, <2>2, <2>3
  <1>2. /\ ptrs' = [array EXCEPT ![size + 1] = v]
        /\ capacity' = IF GrowIsFree(size + 1) THEN capacity ELSE size + 1
        /\ size' = size + 1
    BY DEF Append1
  <1>3. v \in Slot
    BY DEF Slot
  <1> HIDE DEF array
  <1>4. /\ ptrs' \in Seq(Slot)
        /\ Len(ptrs') = Len(array)
        /\ \A j \in 1..Len(array) : ptrs'[j] = IF j = size + 1 THEN v ELSE array[j]
    BY <1>1, <1>2, <1>3, ExceptSeq
  <1>5. /\ \A i \in 1..size : i \in 1..Len(array) /\ i # size + 1
        /\ \A i \in 1..(size + 1) : i \in 1..size \/ i = size + 1
    BY <1>1 DEF OpenArray
  <1>6. /\ ptrs'[size + 1] = v
        /\ \A i \in 1..size : ptrs'[i] = ptrs[i]
    BY <1>1, <1>4, <1>5
  <1>7. \A i \in 1..size' : ptrs'[i] \in Payload
    BY <1>2, <1>5, <1>6 DEF OpenArray
  <1>8. capacity' = Len(ptrs') /\ size' \in Nat /\ size' <= capacity'
    BY <1>1, <1>2, <1>4 DEF OpenArray
  <1> QED
    BY <1>2, <1>4, <1>6, <1>7, <1>8 DEF OpenArray

(* While its calls succeed, a list finds a slot wherever it looks. *)
LEMMA OpenArrayNeverCrashes ==
  ASSUME OpenArray
  PROVE  ~AppendCrashes /\ ~PopCrashes /\ ~DestructCrashes
  <1>1. Len(Grown(size + 1)) >= size + 1 /\ size + 1 \in Nat
    <2>1. ptrs \in Seq(Slot) /\ capacity = Len(ptrs) /\ size + 1 \in Nat
      BY DEF OpenArray
    <2> QED
      BY <2>1, GrownArray
  <1>2. Len(Grown(size + 1)) \in Nat
    <2>1. ptrs \in Seq(Slot) /\ capacity = Len(ptrs) /\ size + 1 \in Nat
      BY DEF OpenArray
    <2> QED
      BY <2>1, GrownArray, LenProperties
  <1>3. \A i \in 1..size : SlotIsItem(i)
    BY PayloadAssumption DEF OpenArray, SlotIsItem
  <1>4. ~AppendCrashes
    BY <1>1, <1>2 DEF AppendCrashes, OpenArray
  <1>5. ~PopCrashes /\ ~DestructCrashes
    BY <1>3 DEF PopCrashes, DestructCrashes, OpenArray
  <1> QED
    BY <1>4, <1>5

-----------------------------------------------------------------------------
LEMMA ConsistentOpens ==
  ASSUME TypeOK, Consistent, HasArray
  PROVE  OpenArray /\ live = size
  BY DEF TypeOK, Consistent, OpenArray, Slot

LEMMA OpenIsConsistent ==
  ASSUME OpenArray, live = size, phase = "open"
  PROVE  Consistent
  BY DEF OpenArray, Consistent

(* Types do not depend on the calls made before: a slot is looked at only  *)
(* where there is one.  Items may get lost with their array, but none is   *)
(* given away twice.                                                       *)
Counted == size <= live

LEMMA GrownType ==
  ASSUME TypeOK, NEW n \in Nat
  PROVE  Grown(n) \in Seq(Slot) /\ Len(Grown(n)) \in Nat
  <1>1. CASE GrowIsFree(n)
    BY <1>1 DEF TypeOK, Grown, Slot
  <1>2. CASE ~GrowIsFree(n)
    <2>1. Grown(n) = [i \in 1..n |-> IF i <= Len(ptrs) THEN ptrs[i] ELSE Garbage]
      BY <1>2 DEF Grown, Realloc
    <2>2. \A i \in 1..n : Grown(n)[i] \in Slot
      BY <2>1 DEF Slot, TypeOK
    <2>3. Grown(n) \in [1..n -> Slot]
      BY <2>1, <2>2
    <2> QED
      BY <2>3, SeqDef, LenProperties
  <1> QED
    BY <1>1, <1>2

LEMMA AppendTypes ==
  ASSUME TypeOK, NEW v \in Payload, Append1(v)
  PROVE  TypeOK'
  <1> DEFINE array == Grown(size + 1)
  <1>1. array \in Seq(Slot) /\ size + 1 \in 1..Len(array)
    BY GrownType DEF TypeOK, Append1
  <1>2. ptrs' = [array EXCEPT ![size + 1] = v] /\ v \in Slot
    BY DEF Append1, Slot
  <1> HIDE DEF array
  <1>3. ptrs' \in Seq(Slot)
    BY <1>1, <1>2, ExceptSeq
  <1>4. capacity' \in Nat /\ size' \in Nat /\ live' \in Nat
    BY DEF TypeOK, Append1
  <1> QED
    BY <1>3, <1>4 DEF TypeOK, Append1, Slot

LEMMA TypeStep ==
  ASSUME TypeOK, Counted, [Next]_vars
  PROVE  TypeOK' /\ Counted'
  <1> USE DEF TypeOK, Counted
  <1>1. CASE Construct \/ ConstructFails \/ GoOn
    BY <1>1 DEF Construct, ConstructFails, GoOn
  <1>2. ASSUME NEW n \in 1..MaxLen, Reserve(n)
        PROVE  TypeOK' /\ Counted'
    <2>1. n \in Nat /\ ptrs' \in Seq(Slot)
      BY <1>2, GrownType, MaxLenAssumption DEF Reserve
    <2> QED
      BY <1>2, <2>1 DEF Reserve, Slot
  <1>3. ASSUME NEW n \in Nat, GrowFails(n)
        PROVE  TypeOK' /\ Counted'
    BY <1>3, EmptySeq DEF GrowFails, Failed
  <1>4. CASE ReserveNothing \/ AppendCrashes \/ PopEmpty \/ PopCrashes \/ DestructCrashes
    BY <1>4 DEF ReserveNothing, AppendCrashes, PopEmpty, PopCrashes, DestructCrashes
  <1>5. ASSUME NEW v \in Payload, Append1(v)
        PROVE  TypeOK' /\ Counted'
    BY <1>5, AppendTypes DEF Append1
  <1>6. CASE AppendItemFails
    BY <1>6 DEF AppendItemFails, Failed
  <1>7. CASE AppendGrowFails
    BY <1>3, <1>7 DEF AppendGrowFails
  <1>8. CASE Pop
    <2>1. item' \in Payload \cup {Garbage}
      BY <1>8 DEF Pop, SlotIsItem
    <2> QED
      BY <1>8, <2>1 DEF Pop
  <1>9. CASE Destruct
    BY <1>9, EmptySeq DEF Destruct
  <1>10. CASE UNCHANGED vars
    BY <1>10 DEF vars
  <1> QED
    BY <1>1, <1>2, <1>3, <1>4, <1>5, <1>6, <1>7, <1>8, <1>9, <1>10, MaxLenAssumption
    DEF Next, Call, Discard, ReserveFails

(* A list that is misused never comes back, so only calls on an open list  *)
(* matter for Consistent.                                                  *)
LEMMA ConsistentStep ==
  ASSUME TypeOK, Consistent, [Next]_vars
  PROVE  Consistent'
  <1> USE DEF TypeOK
  <1>0. phase = "open" => OpenArray /\ live = size
    BY ConsistentOpens DEF HasArray
  <1>1. CASE Construct
    BY <1>1 DEF Construct, Consistent, HasArray
  <1>2. CASE ConstructFails
    BY <1>2 DEF ConstructFails, Consistent, HasArray
  <1>3. ASSUME phase = "open", NEW n \in 1..MaxLen, Reserve(n)
        PROVE  Consistent'
    <2>1. OpenArray' /\ live' = size' /\ phase' = "open"
      BY <1>0, <1>3, ReserveArray, MaxLenAssumption DEF Reserve
    <2> QED
      BY <2>1 DEF OpenArray, Consistent, HasArray
  <1>4. ASSUME NEW n \in Nat, phase = "open", GrowFails(n)
        PROVE  Consistent'
    BY <1>4, EmptySeq DEF GrowFails, Failed, Consistent, HasArray
  <1>5. CASE phase = "open" /\ ReserveNothing
    BY <1>5 DEF ReserveNothing, Consistent, HasArray
  <1>6. ASSUME phase = "open", NEW v \in Payload, Append1(v)
        PROVE  Consistent'
    <2>1. OpenArray' /\ live' = size' /\ phase' = "open"
      BY <1>0, <1>6, AppendArray DEF Append1
    <2> QED
      BY <2>1 DEF OpenArray, Consistent, HasArray
  <1>7. CASE phase = "open" /\ (AppendCrashes \/ PopCrashes)
    BY <1>0, <1>7, OpenArrayNeverCrashes
  <1>8. CASE phase = "open" /\ AppendItemFails
    BY <1>8 DEF AppendItemFails, Failed, Consistent, HasArray
  <1>9. CASE phase = "open" /\ AppendGrowFails
    BY <1>9, <1>4 DEF AppendGrowFails
  <1>10. CASE phase = "open" /\ Pop
    BY <1>0, <1>10 DEF Pop, Consistent, HasArray, Slot, OpenArray
  <1>11. CASE phase = "open" /\ PopEmpty
    BY <1>11 DEF PopEmpty, Consistent, HasArray
  <1>12. CASE phase \in {"open", "failed", "misused"} /\ Discard
    BY <1>12 DEF Discard, Destruct, DestructCrashes, Consistent, HasArray
  <1>13. CASE GoOn
    BY <1>13 DEF GoOn, Consistent, HasArray
  <1>14. CASE phase = "misused" /\ Call
    <2>1. phase' \in {"misused", "crashed"}
      BY <1>14 DEF Call, Reserve, ReserveFails, ReserveNothing, GrowFails, Failed, Append1,
         AppendCrashes, AppendItemFails, AppendGrowFails, Pop, PopEmpty, PopCrashes
    <2> QED
      BY <2>1 DEF Consistent, HasArray
  <1>15. CASE UNCHANGED vars
    BY <1>15 DEF vars, Consistent, HasArray
  <1> QED
    BY <1>1, <1>2, <1>3, <1>4, <1>5, <1>6, <1>7, <1>8, <1>9, <1>10, <1>11,
       <1>12, <1>13, <1>14, <1>15, MaxLenAssumption
    DEF Next, Call, ReserveFails

LEMMA InitInvariant == Init => TypeOK /\ Counted /\ Consistent
  BY EmptySeq DEF Init, TypeOK, Counted, Consistent, HasArray

(* Nothing is freed twice: a list never holds more items than are live. *)
LEMMA ListCounted == Spec => [](TypeOK /\ Counted)
  <1>1. TypeOK /\ Counted /\ [Next]_vars => TypeOK' /\ Counted'
    BY TypeStep
  <1> QED
    BY InitInvariant, <1>1, PTL DEF Spec

(* The fields of every list keep their types, whatever calls fail for want *)
(* of memory, and whatever its caller does then.                           *)
THEOREM ListTypeCorrect == Spec => []TypeOK
  BY ListCounted, PTL

(* Every list reaches all the items it owns through its array, unless the  *)
(* realloc of list_grow has just failed and lost it, or its caller went on *)
(* after a failure.                                                        *)
THEOREM ListConsistent == Spec => []Consistent
  <1>1. TypeOK /\ Consistent /\ [Next]_vars => Consistent'
    BY ConsistentStep
  <1> QED
    BY InitInvariant, ListTypeCorrect, <1>1, PTL DEF Spec

(* A list that is destructed after its first failure does not crash.       *)
LEMMA NoCrashUnlessMisused ==
  ASSUME TypeOK, Consistent, Next, phase' = "crashed"
  PROVE  phase \in {"misused", "crashed"}
  <1>1. HasArray => ~AppendCrashes /\ ~PopCrashes /\ ~DestructCrashes
    BY ConsistentOpens, OpenArrayNeverCrashes
  <1>2. ptrs = << >> => ~DestructCrashes
    BY DEF DestructCrashes
  <1>3. CASE phase = "open" /\ Call
    BY <1>1, <1>3 DEF HasArray, Call, Reserve, ReserveFails, ReserveNothing, GrowFails,
       Failed, Append1, AppendItemFails, AppendGrowFails, Pop, PopEmpty
  <1>4. CASE phase \in {"open", "failed"} /\ Discard
    BY <1>1, <1>2, <1>4 DEF HasArray, Discard, Destruct
  <1> QED
    BY <1>3, <1>4 DEF Next, Construct, ConstructFails, GoOn

(* No list crashes, whatever calls fail, unless its caller goes on after   *)
(* one has: append, pop and destruct find a slot wherever they look.       *)
THEOREM ListCrashOnlyByMisuse == Spec => CrashOnlyByMisuse
  <1>1. TypeOK /\ Consistent /\ [Next]_vars =>
          [phase' = "crashed" => phase \in {"misused", "crashed"}]_vars
    BY NoCrashUnlessMisused
  <1> QED
    BY <1>1, ListTypeCorrect, ListConsistent, PTL DEF Spec, CrashOnlyByMisuse

-----------------------------------------------------------------------------
(* MmuList implements MmuStack. *)

(* A prefix depends on the slots it covers only. *)
LEMMA SamePrefix ==
  ASSUME NEW S, NEW s \in Seq(S), NEW t \in Seq(S), NEW n \in Nat,
         n <= Len(s), n <= Len(t), \A i \in 1..n : t[i] = s[i]
  PROVE  SubSeq(t, 1, n) = SubSeq(s, 1, n)
  <1>1. /\ SubSeq(s, 1, n) \in Seq(S) /\ Len(SubSeq(s, 1, n)) = n
        /\ \A i \in 1..n : SubSeq(s, 1, n)[i] = s[i]
    BY SubSeqProperties
  <1>2. /\ SubSeq(t, 1, n) \in Seq(S) /\ Len(SubSeq(t, 1, n)) = n
        /\ \A i \in 1..n : SubSeq(t, 1, n)[i] = t[i]
    BY SubSeqProperties
  <1> QED
    BY <1>1, <1>2, SeqEqual

(* The prefix one longer is the prefix and the slot after it. *)
LEMMA LongerPrefix ==
  ASSUME NEW S, NEW s \in Seq(S), NEW n \in Nat, n + 1 <= Len(s)
  PROVE  SubSeq(s, 1, n + 1) = Append(SubSeq(s, 1, n), s[n + 1])
  <1>1. /\ SubSeq(s, 1, n) \in Seq(S) /\ Len(SubSeq(s, 1, n)) = n
        /\ \A i \in 1..n : SubSeq(s, 1, n)[i] = s[i]
    BY SubSeqProperties
  <1>2. /\ SubSeq(s, 1, n + 1) \in Seq(S) /\ Len(SubSeq(s, 1, n + 1)) = n + 1
        /\ \A i \in 1..(n + 1) : SubSeq(s, 1, n + 1)[i] = s[i]
    BY SubSeqProperties
  <1>3. s[n + 1] \in S
    BY ElementOfSeq
  <1> DEFINE t == Append(SubSeq(s, 1, n), s[n + 1])
  <1>4. /\ t \in Seq(S) /\ Len(t) = n + 1
        /\ \A i \in 1..n : t[i] = s[i]
        /\ t[n + 1] = s[n + 1]
    BY <1>1, <1>3, AppendProperties
  <1>5. \A i \in 1..(n + 1) : t[i] = s[i]
    BY <1>4
  <1> QED
    BY <1>2, <1>4, <1>5, SeqEqual

LEMMA ContentsOpen ==
  ASSUME OpenArray, phase = "open"
  PROVE  /\ Contents \in Seq(Slot)
         /\ Len(Contents) = size
         /\ \A i \in 1..size : Contents[i] = ptrs[i]
  BY SubSeqProperties DEF Contents, OpenArray

LEMMA RefinementStep ==
  ASSUME TypeOK, Counted, Consistent, [Next]_vars
  PROVE  [Stack!Next]_(Stack!vars)
  <1>0. phase = "open" => OpenArray
    BY ConsistentOpens DEF HasArray
  <1>1. CASE Construct
    BY <1>1 DEF Construct, Consistent, Stack!Next, Stack!Construct, Contents
  <1>2. CASE ConstructFails
    BY <1>2 DEF ConstructFails, Stack!Next, Stack!OutOfResources, Contents
  <1>3. ASSUME phase = "open", NEW n \in 1..MaxLen, Reserve(n)
        PROVE  Stack!Next
    <2>1. OpenArray /\ OpenArray' /\ \A i \in 1..size : ptrs'[i] = ptrs[i]
      BY <1>0, <1>3, ReserveArray, MaxLenAssumption
    <2>2. SubSeq(ptrs', 1, size) = SubSeq(ptrs, 1, size)
      BY <1>3, <2>1, SamePrefix DEF OpenArray, Reserve
    <2>3. Contents' = Contents
      BY <1>3, <2>2 DEF Contents, Reserve
    <2> QED
      BY <1>3, <2>3 DEF Stack!Next, Stack!Reserve, Reserve
  <1>4. ASSUME NEW n \in Nat, phase = "open", GrowFails(n)
        PROVE  Stack!Next
    BY <1>4 DEF GrowFails, Failed, Stack!Next, Stack!OutOfResources, Contents
  <1>5. CASE phase = "open" /\ ReserveNothing
    BY <1>5 DEF ReserveNothing, Stack!Next, Stack!Reserve, Contents
  <1>6. ASSUME phase = "open", NEW v \in Payload, Append1(v)
        PROVE  Stack!Next
    <2>1. /\ OpenArray /\ OpenArray' /\ size' = size + 1 /\ ptrs'[size + 1] = v
          /\ \A i \in 1..size : ptrs'[i] = ptrs[i]
      BY <1>0, <1>6, AppendArray
    <2>2. SubSeq(ptrs', 1, size) = SubSeq(ptrs, 1, size)
      BY <2>1, SamePrefix DEF OpenArray
    <2>3. SubSeq(ptrs', 1, size + 1) = Append(SubSeq(ptrs', 1, size), ptrs'[size + 1])
      BY <2>1, LongerPrefix DEF OpenArray
    <2>4. Contents' = Append(Contents, v)
      BY <1>6, <2>1, <2>2, <2>3 DEF Contents, Append1
    <2> QED
      BY <1>6, <2>4 DEF Stack!Next, Stack!Push, Append1
  <1>7. CASE phase = "open" /\ (AppendCrashes \/ PopCrashes)
    BY <1>0, <1>7, OpenArrayNeverCrashes
  <1>8. CASE phase = "open" /\ AppendItemFails
    BY <1>8 DEF AppendItemFails, Failed, Stack!Next, Stack!OutOfResources, Contents
  <1>9. CASE phase = "open" /\ AppendGrowFails
    BY <1>4, <1>9 DEF AppendGrowFails, TypeOK
  <1>10. CASE phase = "open" /\ Pop
    <2>1. /\ OpenArray /\ size \in Nat /\ size > 0
          /\ item' = ptrs[size] /\ size' = size - 1 /\ ptrs' = ptrs
          /\ phase' = phase /\ rc' = "SUCCESS"
      BY <1>0, <1>10 DEF Pop, OpenArray
    <2>2. /\ Contents \in Seq(Slot) /\ Len(Contents) = size
          /\ \A i \in 1..size : Contents[i] = ptrs[i]
      BY <1>10, <2>1, ContentsOpen
    <2>3. Contents # << >> /\ item' = Contents[Len(Contents)]
      BY <2>1, <2>2
    <2>4. SubSeq(Contents, 1, size - 1) = SubSeq(ptrs, 1, size - 1)
      <3>1. size - 1 \in Nat /\ \A i \in 1..(size - 1) : i \in 1..size
        BY <2>1
      <3> QED
        BY <2>1, <2>2, <3>1, SamePrefix DEF OpenArray
    <2>5. Contents' = SubSeq(Contents, 1, Len(Contents) - 1)
      BY <1>10, <2>1, <2>2, <2>4 DEF Contents
    <2> QED
      BY <1>10, <2>1, <2>3, <2>5 DEF Stack!Next, Stack!Pop
  <1>11. CASE phase = "open" /\ PopEmpty
    <2>1. Contents = << >> /\ Contents' = << >>
      <3>1. OpenArray /\ size = 0
        BY <1>0, <1>11 DEF PopEmpty
      <3>2. Contents \in Seq(Slot) /\ Len(Contents) = 0
        BY <1>11, <3>1, ContentsOpen
      <3> QED
        BY <1>11, <3>2, EmptySeq DEF PopEmpty, Contents
    <2> QED
      BY <1>11, <2>1 DEF PopEmpty, Stack!Next, Stack!PopEmpty
  <1>12. CASE phase \in {"open", "failed"} /\ Destruct
    BY <1>12 DEF Destruct, Stack!Next, Stack!Destruct, Contents
  <1>13. CASE phase \in {"open", "failed"} /\ DestructCrashes
    <2>1. Next /\ phase' = "crashed"
      BY <1>13 DEF Next, Discard, DestructCrashes
    <2>2. phase \in {"misused", "crashed"}
      BY <2>1, NoCrashUnlessMisused
    <2> QED
      BY <1>13, <2>2
  <1>14. CASE GoOn
    BY <1>14 DEF GoOn, Stack!Next, Stack!GoOn, Contents
  <1>15. CASE phase = "misused" /\ (Call \/ Discard)
    <2>1. phase' \in {"misused", "closed", "crashed"}
      BY <1>15 DEF Call, Reserve, ReserveFails, ReserveNothing, GrowFails, Failed, Append1,
         AppendCrashes, AppendItemFails, AppendGrowFails, Pop, PopEmpty, PopCrashes,
         Discard, Destruct, DestructCrashes
    <2>2. /\ item' \in Payload \cup {Garbage}
          /\ rc' \in {"NONE", "SUCCESS", "OOR", "INVALID_ARG", "LIST_POP"}
      BY TypeStep DEF TypeOK
    <2> QED
      BY <1>15, <2>1, <2>2 DEF Contents, Stack!Next, Stack!Undefined
  <1>16. CASE UNCHANGED vars
    BY <1>16 DEF vars, Stack!vars, Contents
  <1> QED
    BY <1>1, <1>2, <1>3, <1>4, <1>5, <1>6, <1>7, <1>8, <1>9, <1>10, <1>11,
       <1>12, <1>13, <1>14, <1>15, <1>16, MaxLenAssumption
    DEF Next, Call, Discard, ReserveFails

(* For every caller the growable array is the stack mmu_list.h             *)
(* promises: pop returns the items in the reverse order of append, across  *)
(* every growth of the array, until a call reports that memory ran out.    *)
THEOREM ListImplementsStack == Spec => ImplementsStack
  <1>1. Init => Stack!Init
    BY DEF Init, Stack!Init, Contents
  <1>2. TypeOK /\ Counted /\ Consistent /\ [Next]_vars => [Stack!Next]_(Stack!vars)
    BY RefinementStep
  <1>3. Spec => [](TypeOK /\ Counted /\ Consistent)
    BY ListCounted, ListConsistent, PTL
  <1> QED
    BY <1>1, <1>2, <1>3, PTL DEF Spec, Stack!Spec, ImplementsStack

=============================================================================
