----------------------------- MODULE QueueProof -----------------------------
(***************************************************************************)
(* Proofs about the admission queue, for every limit and every finite set  *)
(* of clients.                                                             *)
(*                                                                         *)
(* A step moves one request from a label to another.  What it does to the  *)
(* slots is one of a few changes (keep, take, give back, join the waiters, *)
(* be woken, give up), and what it does to the counters follows from the   *)
(* two labels; the lemmas treat the two sides apart.                       *)
(***************************************************************************)
EXTENDS Queue, FiniteSetTheorems, SequenceTheorems, TLAPS

At(L) == {r \in Requests : pc[r] \in L}

\* A request is counted as queued, pending or used exactly at these labels.
QueuedPcs == {"acquire", "wait", "got", "aborted"}
CountersExact ==
  /\ queued = Cardinality(At(QueuedPcs))
  /\ pending = Cardinality(At({"running"}))
  /\ used = Cardinality(At({"session"}))

\* What the fields of the semaphore are, and that they agree with the requests.
SlotInv ==
  /\ sem \in Nat /\ waiters \in Seq(Requests) /\ granted \subseteq Requests
  /\ WaitersExact /\ SlotConservation /\ NoLostWakeup

Inv == TypeOK /\ SlotInv /\ CountersExact

Elems(ws) == {ws[i] : i \in DOMAIN ws}
Distinct(ws) == \A i, j \in DOMAIN ws : ws[i] = ws[j] => i = j

(***************************************************************************)
(* Lists of waiters.                                                       *)
(***************************************************************************)

\* The oldest waiter leaves the list.
LEMMA TailWaiters ==
  ASSUME NEW ws \in Seq(Requests), ws # <<>>, Distinct(ws)
  PROVE  /\ Tail(ws) \in Seq(Requests) /\ Distinct(Tail(ws))
         /\ Elems(Tail(ws)) = Elems(ws) \ {Head(ws)}
         /\ Head(ws) \in Elems(ws) /\ Head(ws) \in Requests
<1>1. Len(ws) \in Nat /\ Len(ws) > 0 /\ DOMAIN ws = 1 .. Len(ws)
  OBVIOUS
<1>2. /\ Tail(ws) \in Seq(Requests) /\ Len(Tail(ws)) = Len(ws) - 1
      /\ DOMAIN Tail(ws) = 1 .. Len(ws) - 1
      /\ \A i \in 1 .. Len(ws) - 1 : Tail(ws)[i] = ws[i + 1]
  BY <1>1
<1>3. Head(ws) = ws[1] /\ Head(ws) \in Requests
  BY <1>1
<1>4. Distinct(Tail(ws))
  BY <1>1, <1>2 DEF Distinct
<1>5. ASSUME NEW x \in Elems(Tail(ws)) PROVE x \in Elems(ws) \ {Head(ws)}
  BY <1>1, <1>2, <1>3 DEF Elems, Distinct
<1>6. ASSUME NEW x \in Elems(ws) \ {Head(ws)} PROVE x \in Elems(Tail(ws))
  <2>1. PICK i \in DOMAIN ws : ws[i] = x
    BY DEF Elems
  <2>2. i # 1 /\ i - 1 \in DOMAIN Tail(ws) /\ Tail(ws)[i - 1] = x
    BY <1>1, <1>2, <1>3, <2>1
  <2> QED
    BY <2>2 DEF Elems
<1> QED
  BY <1>1, <1>2, <1>3, <1>4, <1>5, <1>6 DEF Elems

\* A request joins the list.
LEMMA AppendWaiters ==
  ASSUME NEW ws \in Seq(Requests), Distinct(ws),
         NEW r \in Requests, r \notin Elems(ws)
  PROVE  /\ Append(ws, r) \in Seq(Requests) /\ Distinct(Append(ws, r))
         /\ Elems(Append(ws, r)) = Elems(ws) \union {r}
         /\ Append(ws, r) # <<>>
<1>1. /\ DOMAIN ws = 1 .. Len(ws) /\ Len(ws) \in Nat
      /\ DOMAIN Append(ws, r) = 1 .. Len(ws) + 1
      /\ \A i \in 1 .. Len(ws) : Append(ws, r)[i] = ws[i]
      /\ Append(ws, r)[Len(ws) + 1] = r
  OBVIOUS
<1>2. Distinct(Append(ws, r))
  BY <1>1 DEF Distinct, Elems
<1>3. Elems(Append(ws, r)) = Elems(ws) \union {r}
  <2>1. ASSUME NEW x \in Elems(ws) \union {r} PROVE x \in Elems(Append(ws, r))
    <3>1. PICK i \in 1 .. Len(ws) + 1 : Append(ws, r)[i] = x
      BY <1>1, <2>1 DEF Elems
    <3> QED
      BY <1>1, <3>1 DEF Elems
  <2>2. ASSUME NEW x \in Elems(Append(ws, r)) PROVE x \in Elems(ws) \union {r}
    BY <1>1 DEF Elems
  <2> QED
    BY <2>1, <2>2
<1> QED
  BY <1>1, <1>2, <1>3

\* A waiter leaves from the middle of the list.
LEMMA WithoutWaiters ==
  ASSUME NEW ws \in Seq(Requests), Distinct(ws), NEW i \in DOMAIN ws
  PROVE  /\ Without(ws, i) \in Seq(Requests) /\ Distinct(Without(ws, i))
         /\ Elems(Without(ws, i)) = Elems(ws) \ {ws[i]}
<1> DEFINE v == Without(ws, i)
<1>1. Len(ws) \in Nat /\ Len(ws) - 1 \in Nat /\ DOMAIN ws = 1 .. Len(ws)
  OBVIOUS
<1>2. /\ v \in [1 .. Len(ws) - 1 -> Requests]
      /\ DOMAIN v = 1 .. Len(ws) - 1
      /\ \A j \in 1 .. Len(ws) - 1 : v[j] = IF j < i THEN ws[j] ELSE ws[j + 1]
  BY <1>1 DEF Without
<1>3. v \in Seq(Requests)
  BY <1>1, <1>2, SeqDef
<1> HIDE DEF v
<1>4. Distinct(v)
  BY <1>1, <1>2 DEF Distinct
<1>5. ASSUME NEW x \in Elems(v) PROVE x \in Elems(ws) \ {ws[i]}
  BY <1>1, <1>2 DEF Elems, Distinct
<1>6. ASSUME NEW x \in Elems(ws) \ {ws[i]} PROVE x \in Elems(v)
  <2>1. PICK j \in DOMAIN ws : ws[j] = x
    BY DEF Elems
  <2>2. CASE j < i
    <3>1. j \in DOMAIN v /\ v[j] = x
      BY <1>1, <1>2, <2>1, <2>2
    <3> QED
      BY <3>1 DEF Elems
  <2>3. CASE j > i
    <3>1. j - 1 \in DOMAIN v /\ v[j - 1] = x
      BY <1>1, <1>2, <2>1, <2>3
    <3> QED
      BY <3>1 DEF Elems
  <2> QED
    BY <1>1, <2>1, <2>2, <2>3
<1> QED
  BY <1>3, <1>4, <1>5, <1>6 DEF v

(***************************************************************************)
(* What a step does to the slots.                                          *)
(***************************************************************************)

\* The three facts about the waiters in terms of Elems and Distinct.
LEMMA WaitersFacts ==
  WaitersExact <=>
    /\ granted \subseteq {r \in Requests : pc[r] = "wait"}
    /\ Elems(waiters) = {r \in Requests : pc[r] = "wait"} \ granted
    /\ Distinct(waiters)
BY DEF WaitersExact, Elems, Distinct

\* The slots in use are finitely many.
LEMMA HoldersFinite ==
  /\ IsFiniteSet(Holders) /\ Holders \subseteq Requests
  /\ Cardinality(Holders) \in Nat
<1>1. Holders \subseteq Requests
  BY DEF Holders
<1> QED
  BY <1>1, RequestsAssumption, FS_Subset, FS_CardinalityType

\* The allocator counts as the queue does.
LEMMA SameCount == Slots!Cardinality(Holders) = Cardinality(Holders)
BY Zenon DEF Slots!Cardinality, Cardinality

\* A request moves between labels other than "wait", and both are holders or
\* neither is.
LEMMA KeepSlots ==
  ASSUME TypeOK, SlotInv, NEW r \in Requests, NEW b \in Pcs,
         pc[r] # "wait", b # "wait", pc[r] \in HoldingPcs <=> b \in HoldingPcs,
         Goto(r, b), UNCHANGED semVars
  PROVE  SlotInv' /\ UNCHANGED Holders
<1> USE DEF TypeOK, SlotInv, Goto, semVars
<1>1. \A q \in Requests : pc'[q] = "wait" <=> pc[q] = "wait"
  OBVIOUS
<1>2. Holders' = Holders
  BY <1>1 DEF Holders, Holds
<1>3. {q \in Requests : pc'[q] = "wait"} = {q \in Requests : pc[q] = "wait"}
  BY <1>1
<1>4. WaitersExact'
  BY <1>3 DEF WaitersExact
<1>5. SlotConservation' /\ NoLostWakeup'
  BY <1>2 DEF SlotConservation, NoLostWakeup
<1> QED
  BY <1>2, <1>4, <1>5

\* A request takes a free slot.
LEMMA TakeSlot ==
  ASSUME TypeOK, SlotInv, NEW r \in Requests, NEW b \in HoldingPcs,
         pc[r] # "wait", pc[r] \notin HoldingPcs, MayTake,
         Goto(r, b), sem' = sem + 1, UNCHANGED <<waiters, granted>>
  PROVE  SlotInv' /\ Slots!Next
<1> USE LimitAssumption DEF TypeOK, SlotInv, Goto
<1>1. /\ b # "wait"
      /\ \A q \in Requests : pc'[q] = "wait" <=> pc[q] = "wait"
  BY DEF HoldingPcs
<1>2. Holders' = Holders \union {r} /\ r \notin Holders
  BY <1>1 DEF Holders, Holds
<1>3. Cardinality(Holders') = Cardinality(Holders) + 1
  BY <1>2, HoldersFinite, FS_AddElement
<1>4. {q \in Requests : pc'[q] = "wait"} = {q \in Requests : pc[q] = "wait"}
  BY <1>1
<1>5. WaitersExact'
  BY <1>4 DEF WaitersExact
<1>6. SlotConservation'
  BY <1>3 DEF SlotConservation, MayTake
<1>7. NoLostWakeup'
  BY DEF NoLostWakeup, MayTake
<1>8. Slots!Take(r)
  BY <1>2, SameCount DEF Slots!Take, SlotConservation, MayTake
<1> QED
  BY <1>5, <1>6, <1>7, <1>8 DEF Slots!Next

\* A request gives its slot back; the oldest waiter gets it, if there is one.
LEMMA GiveSlot ==
  ASSUME TypeOK, SlotInv, NEW r \in Requests, NEW b \in Pcs,
         pc[r] \in HoldingPcs, b # "wait", b \notin HoldingPcs,
         Goto(r, b), SemRelease
  PROVE  SlotInv' /\ Slots!Next
<1> USE LimitAssumption DEF TypeOK, SlotInv, Goto
<1>1. pc[r] # "wait" /\ r \in Holders
  BY DEF HoldingPcs, Holders, Holds
<1>2. {q \in Requests : pc'[q] = "wait"} = {q \in Requests : pc[q] = "wait"}
  BY <1>1
<1>3. Cardinality(Holders \ {r}) = Cardinality(Holders) - 1
  BY <1>1, HoldersFinite, FS_RemoveElement
<1>4. CASE waiters = <<>>
  <2>1. sem' = sem - 1 /\ UNCHANGED <<waiters, granted>>
    BY <1>4 DEF SemRelease, Notify
  <2>2. Holders' = Holders \ {r}
    BY <1>1, <2>1 DEF Holders, Holds
  <2>3. sem' \in Nat /\ SlotConservation'
    <3>1. Cardinality(Holders \ {r}) \in Nat
      BY HoldersFinite, FS_RemoveElement, FS_CardinalityType
    <3> QED
      BY <1>3, <2>1, <2>2, <3>1 DEF SlotConservation
  <2>4. WaitersExact' /\ NoLostWakeup'
    BY <1>2, <1>4, <2>1 DEF WaitersExact, NoLostWakeup
  <2>5. Slots!Give(r)
    BY <1>1, <2>2 DEF Slots!Give
  <2> QED
    BY <2>1, <2>3, <2>4, <2>5 DEF Slots!Next
<1>5. CASE waiters # <<>>
  <2> DEFINE h == Head(waiters)
  <2>1. sem = Limit
    BY <1>5 DEF NoLostWakeup
  <2>2. sem' = sem /\ waiters' = Tail(waiters) /\ granted' = granted \union {h}
    BY <1>5, <2>1 DEF SemRelease, Notify
  <2>3. /\ waiters' \in Seq(Requests) /\ Distinct(waiters')
        /\ Elems(waiters') = Elems(waiters) \ {h}
        /\ h \in Elems(waiters) /\ h \in Requests
    BY <1>5, <2>2, WaitersFacts, TailWaiters
  <2> HIDE DEF h
  <2>4. pc[h] = "wait" /\ h \notin granted /\ h # r
    BY <1>1, <2>3, WaitersFacts
  <2>5. h \notin Holders
    BY <2>4 DEF Holders, Holds, HoldingPcs
  <2>6. Holders' = (Holders \ {r}) \union {h}
    BY <1>1, <2>2, <2>3, <2>4 DEF Holders, Holds
  <2>7. Cardinality(Holders') = Cardinality(Holders)
    <3>1. IsFiniteSet(Holders \ {r}) /\ h \notin Holders \ {r}
      BY <2>5, HoldersFinite, FS_RemoveElement
    <3>2. Cardinality((Holders \ {r}) \union {h}) = Cardinality(Holders \ {r}) + 1
      BY <3>1, FS_AddElement
    <3> QED
      BY <1>3, <2>6, <3>2, HoldersFinite
  <2>8. WaitersExact'
    <3>1. granted' \subseteq {q \in Requests : pc'[q] = "wait"}
      BY <1>2, <2>2, <2>3, <2>4, WaitersFacts
    <3>2. Elems(waiters') = {q \in Requests : pc'[q] = "wait"} \ granted'
      BY <1>2, <2>2, <2>3, WaitersFacts
    <3> QED
      BY <2>3, <3>1, <3>2 DEF WaitersExact, Elems, Distinct
  <2>9. SlotConservation' /\ NoLostWakeup'
    BY <2>1, <2>2, <2>7 DEF SlotConservation, NoLostWakeup
  <2>10. Slots!Handover(r, h)
    BY <1>1, <2>3, <2>5, <2>6 DEF Slots!Handover
  <2> QED
    BY <2>2, <2>3, <2>8, <2>9, <2>10 DEF Slots!Next
<1> QED
  BY <1>4, <1>5

\* A request that finds no free slot joins the waiters.
LEMMA JoinWaiters ==
  ASSUME TypeOK, SlotInv, NEW r \in Requests,
         pc[r] \notin HoldingPcs, pc[r] # "wait", ~MayTake,
         waiters' = Append(waiters, r), Goto(r, "wait"),
         UNCHANGED <<sem, granted>>
  PROVE  SlotInv' /\ UNCHANGED Holders
<1> USE LimitAssumption DEF TypeOK, SlotInv, Goto
<1>1. {q \in Requests : pc'[q] = "wait"}
        = {q \in Requests : pc[q] = "wait"} \union {r}
  OBVIOUS
<1>2. r \notin granted /\ r \notin Elems(waiters)
  BY WaitersFacts
<1>3. /\ waiters' \in Seq(Requests) /\ Distinct(waiters')
      /\ Elems(waiters') = Elems(waiters) \union {r}
  BY <1>2, WaitersFacts, AppendWaiters
<1>4. WaitersExact'
  <2>1. granted' \subseteq {q \in Requests : pc'[q] = "wait"}
    BY <1>1, WaitersFacts
  <2>2. Elems(waiters') = {q \in Requests : pc'[q] = "wait"} \ granted'
    BY <1>1, <1>2, <1>3, WaitersFacts
  <2> QED
    BY <1>3, <2>1, <2>2 DEF WaitersExact, Elems, Distinct
<1>5. Holders' = Holders
  BY <1>2 DEF Holders, Holds, HoldingPcs
<1>6. SlotConservation'
  BY <1>5 DEF SlotConservation
<1>7. NoLostWakeup'
  BY DEF NoLostWakeup, MayTake, SlotConservation
<1> QED
  BY <1>3, <1>4, <1>5, <1>6, <1>7

\* A waiter that was handed a slot goes on with it.
LEMMA WakeWithSlot ==
  ASSUME TypeOK, SlotInv, NEW r \in granted, pc[r] = "wait",
         granted' = granted \ {r}, Goto(r, "got"), UNCHANGED <<sem, waiters>>
  PROVE  SlotInv' /\ UNCHANGED Holders
<1> USE DEF TypeOK, SlotInv, Goto
<1>1. {q \in Requests : pc'[q] = "wait"}
        = {q \in Requests : pc[q] = "wait"} \ {r}
  OBVIOUS
<1>2. WaitersExact'
  <2>1. granted' \subseteq {q \in Requests : pc'[q] = "wait"}
    BY <1>1, WaitersFacts
  <2>2. Elems(waiters) = {q \in Requests : pc'[q] = "wait"} \ granted'
    BY <1>1, WaitersFacts
  <2> QED
    BY <2>1, <2>2, WaitersFacts DEF WaitersExact, Elems, Distinct
<1>3. Holders' = Holders
  BY DEF Holders, Holds, HoldingPcs
<1>4. SlotConservation' /\ NoLostWakeup'
  BY <1>3 DEF SlotConservation, NoLostWakeup
<1> QED
  BY <1>2, <1>3, <1>4

\* A waiter that was handed a slot and has gone meanwhile passes it on.
LEMMA WakeAndGive ==
  ASSUME TypeOK, SlotInv, NEW r \in granted, pc[r] = "wait",
         IF sem - 1 < Limit /\ waiters # <<>>
           THEN /\ UNCHANGED sem
                /\ waiters' = Tail(waiters)
                /\ granted' = (granted \ {r}) \union {Head(waiters)}
           ELSE /\ sem' = sem - 1
                /\ granted' = granted \ {r}
                /\ UNCHANGED waiters,
         Goto(r, "aborted")
  PROVE  SlotInv' /\ Slots!Next
<1> USE LimitAssumption DEF TypeOK, SlotInv, Goto
<1>1. {q \in Requests : pc'[q] = "wait"}
        = {q \in Requests : pc[q] = "wait"} \ {r}
  OBVIOUS
<1>2. r \in Requests /\ r \in Holders
  BY DEF Holders, Holds
<1>3. Cardinality(Holders \ {r}) = Cardinality(Holders) - 1
  BY <1>2, HoldersFinite, FS_RemoveElement
<1>4. Cardinality(Holders \ {r}) \in Nat /\ IsFiniteSet(Holders \ {r})
  BY HoldersFinite, FS_RemoveElement, FS_CardinalityType
<1>5. CASE waiters = <<>>
  <2>1. sem' = sem - 1 /\ granted' = granted \ {r} /\ UNCHANGED waiters
    BY <1>5
  <2>2. Holders' = Holders \ {r}
    BY <2>1 DEF Holders, Holds, HoldingPcs
  <2>3. sem' \in Nat /\ SlotConservation'
    BY <1>3, <1>4, <2>1, <2>2 DEF SlotConservation
  <2>4. WaitersExact'
    <3>1. granted' \subseteq {q \in Requests : pc'[q] = "wait"}
      BY <1>1, <2>1, WaitersFacts
    <3>2. Elems(waiters) = {q \in Requests : pc'[q] = "wait"} \ granted'
      BY <1>1, <2>1, WaitersFacts
    <3> QED
      BY <2>1, <3>1, <3>2, WaitersFacts DEF WaitersExact, Elems, Distinct
  <2>5. NoLostWakeup'
    BY <1>5, <2>1 DEF NoLostWakeup
  <2>6. Slots!Give(r)
    BY <1>2, <2>2 DEF Slots!Give
  <2> QED
    BY <1>2, <2>1, <2>3, <2>4, <2>5, <2>6 DEF Slots!Next
<1>6. CASE waiters # <<>>
  <2> DEFINE h == Head(waiters)
  <2>1. sem = Limit
    BY <1>6 DEF NoLostWakeup
  <2>2. /\ sem' = sem /\ waiters' = Tail(waiters)
        /\ granted' = (granted \ {r}) \union {h}
    BY <1>6, <2>1
  <2>3. /\ waiters' \in Seq(Requests) /\ Distinct(waiters')
        /\ Elems(waiters') = Elems(waiters) \ {h}
        /\ h \in Elems(waiters) /\ h \in Requests
    BY <1>6, <2>2, WaitersFacts, TailWaiters
  <2> HIDE DEF h
  <2>4. pc[h] = "wait" /\ h \notin granted /\ h # r
    BY <2>3, WaitersFacts
  <2>5. h \notin Holders
    BY <2>4 DEF Holders, Holds, HoldingPcs
  <2>6. Holders' = (Holders \ {r}) \union {h}
    BY <1>2, <2>2, <2>3, <2>4 DEF Holders, Holds, HoldingPcs
  <2>7. Cardinality(Holders') = Cardinality(Holders)
    <3>1. Cardinality((Holders \ {r}) \union {h}) = Cardinality(Holders \ {r}) + 1
      BY <1>4, <2>5, FS_AddElement
    <3> QED
      BY <1>3, <2>6, <3>1, HoldersFinite
  <2>8. WaitersExact'
    <3>1. granted' \subseteq {q \in Requests : pc'[q] = "wait"}
      BY <1>1, <2>2, <2>3, <2>4, WaitersFacts
    <3>2. Elems(waiters') = {q \in Requests : pc'[q] = "wait"} \ granted'
      BY <1>1, <2>2, <2>3, WaitersFacts
    <3> QED
      BY <2>3, <3>1, <3>2 DEF WaitersExact, Elems, Distinct
  <2>9. SlotConservation' /\ NoLostWakeup'
    BY <2>1, <2>2, <2>7 DEF SlotConservation, NoLostWakeup
  <2>10. Slots!Handover(r, h)
    BY <1>2, <2>3, <2>5, <2>6 DEF Slots!Handover
  <2>11. granted' \subseteq Requests
    BY <2>2, <2>3
  <2> QED
    BY <1>2, <2>2, <2>3, <2>8, <2>9, <2>10, <2>11 DEF Slots!Next
<1> QED
  BY <1>5, <1>6

\* A waiter that was not served leaves the list; no slot is free to be given
\* to the next one.
LEMMA LeaveWaiters ==
  ASSUME TypeOK, SlotInv, NEW r \in Requests, GiveUp(r)
  PROVE  SlotInv' /\ UNCHANGED Holders
<1> USE LimitAssumption DEF TypeOK, SlotInv, Goto
<1>1. PICK i \in DOMAIN waiters :
        /\ waiters[i] = r
        /\ IF i = 1
           THEN Notify(sem, Without(waiters, i))
           ELSE /\ waiters' = Without(waiters, i)
                /\ UNCHANGED <<sem, granted>>
  BY DEF GiveUp
<1>2. pc[r] = "wait" /\ r \notin granted /\ Goto(r, "aborted")
  BY DEF GiveUp
<1>3. waiters # <<>> /\ sem = Limit
  BY <1>1 DEF NoLostWakeup
<1>4. waiters' = Without(waiters, i) /\ UNCHANGED <<sem, granted>>
  BY <1>1, <1>3 DEF Notify
<1>5. /\ waiters' \in Seq(Requests) /\ Distinct(waiters')
      /\ Elems(waiters') = Elems(waiters) \ {r}
  BY <1>1, <1>4, WaitersFacts, WithoutWaiters
<1>6. {q \in Requests : pc'[q] = "wait"}
        = {q \in Requests : pc[q] = "wait"} \ {r}
  BY <1>2
<1>7. WaitersExact'
  <2>1. granted' \subseteq {q \in Requests : pc'[q] = "wait"}
    BY <1>2, <1>4, <1>6, WaitersFacts
  <2>2. Elems(waiters') = {q \in Requests : pc'[q] = "wait"} \ granted'
    BY <1>4, <1>5, <1>6, WaitersFacts
  <2> QED
    BY <1>5, <2>1, <2>2 DEF WaitersExact, Elems, Distinct
<1>8. Holders' = Holders
  BY <1>2, <1>4 DEF Holders, Holds, HoldingPcs
<1>9. SlotConservation' /\ NoLostWakeup'
  BY <1>3, <1>4, <1>8 DEF SlotConservation, NoLostWakeup
<1> QED
  BY <1>4, <1>5, <1>7, <1>8, <1>9

(***************************************************************************)
(* What a step does to the counters.                                       *)
(***************************************************************************)

\* What a move from a to b adds to the number of requests at L.
Delta(L, a, b) == (IF b \in L THEN 1 ELSE 0) - (IF a \in L THEN 1 ELSE 0)

\* A move of one request changes the number of requests at L by Delta.
LEMMA MoveCount ==
  ASSUME NEW L, NEW r \in Requests, NEW b, pc \in [Requests -> Pcs], Goto(r, b)
  PROVE  /\ Cardinality(At(L)') = Cardinality(At(L)) + Delta(L, pc[r], b)
         /\ Cardinality(At(L)) \in Nat /\ Cardinality(At(L)') \in Nat
<1>1. IsFiniteSet(At(L)) /\ IsFiniteSet(At(L)')
  <2>1. At(L) \subseteq Requests /\ At(L)' \subseteq Requests
    BY DEF At
  <2> QED
    BY <2>1, RequestsAssumption, FS_Subset
<1>2. Cardinality(At(L)) \in Nat /\ Cardinality(At(L)') \in Nat
  BY <1>1, FS_CardinalityType
<1>3. CASE b \in L
  <2>1. At(L)' = At(L) \union {r}
    BY <1>3 DEF At, Goto
  <2>2. r \in At(L) <=> pc[r] \in L
    BY DEF At
  <2>3. Cardinality(At(L)') = IF pc[r] \in L THEN Cardinality(At(L))
                                             ELSE Cardinality(At(L)) + 1
    BY <1>1, <2>1, <2>2, FS_AddElement
  <2> QED
    BY <1>2, <1>3, <2>3 DEF Delta
<1>4. CASE b \notin L
  <2>1. At(L)' = At(L) \ {r}
    BY <1>4 DEF At, Goto
  <2>2. r \in At(L) <=> pc[r] \in L
    BY DEF At
  <2>3. Cardinality(At(L)') = IF pc[r] \in L THEN Cardinality(At(L)) - 1
                                             ELSE Cardinality(At(L))
    BY <1>1, <2>1, <2>2, FS_RemoveElement
  <2> QED
    BY <1>2, <1>4, <2>3 DEF Delta
<1> QED
  BY <1>2, <1>3, <1>4

\* A step that changes each counter by the Delta of its labels keeps the
\* counters exact, and with them natural numbers.
LEMMA CountersStep ==
  ASSUME TypeOK, CountersExact, NEW r \in Requests, NEW b, Goto(r, b),
         queued' = queued + Delta(QueuedPcs, pc[r], b),
         pending' = pending + Delta({"running"}, pc[r], b),
         used' = used + Delta({"session"}, pc[r], b)
  PROVE  /\ CountersExact'
         /\ queued' \in Nat /\ pending' \in Nat /\ used' \in Nat
<1>1. pc \in [Requests -> Pcs]
  BY DEF TypeOK
<1>2. queued' = Cardinality(At(QueuedPcs)') /\ queued' \in Nat
  BY <1>1, MoveCount DEF CountersExact
<1>3. pending' = Cardinality(At({"running"})') /\ pending' \in Nat
  BY <1>1, MoveCount DEF CountersExact
<1>4. used' = Cardinality(At({"session"})') /\ used' \in Nat
  BY <1>1, MoveCount DEF CountersExact
<1> QED
  BY <1>2, <1>3, <1>4 DEF CountersExact

(***************************************************************************)
(* The steps of a request.                                                 *)
(***************************************************************************)

\* Every step of a request keeps SlotInv, and the holders change as the
\* allocator allows.
LEMMA StepSlots ==
  ASSUME TypeOK, SlotInv, NEW r \in Requests, Step(r)
  PROVE  SlotInv' /\ [Slots!Next]_Holders
<1> USE DEF Pcs, HoldingPcs
<1>1. CASE Try(r)
  <2>1. CASE Goto(r, "check") /\ UNCHANGED semVars
    BY <1>1, <2>1, KeepSlots DEF Try
  <2>2. CASE MayTake /\ sem' = sem + 1 /\ Goto(r, "tryProbe")
             /\ UNCHANGED <<waiters, granted>>
    BY <1>1, <2>2, TakeSlot DEF Try
  <2>3. CASE Goto(r, "idle") /\ UNCHANGED semVars
    BY <1>1, <2>3, KeepSlots DEF Try
  <2> QED
    BY <1>1, <2>1, <2>2, <2>3 DEF Try, Finish
<1>2. CASE Check(r)
  <2>1. CASE Goto(r, "enter") /\ UNCHANGED semVars
    BY <1>2, <2>1, KeepSlots DEF Check
  <2>2. CASE MayTake /\ sem' = sem + 1 /\ Goto(r, "checkProbe")
             /\ UNCHANGED <<waiters, granted>>
    BY <1>2, <2>2, TakeSlot DEF Check
  <2>3. CASE Goto(r, "idle") /\ UNCHANGED semVars
    BY <1>2, <2>3, KeepSlots DEF Check
  <2> QED
    BY <1>2, <2>1, <2>2, <2>3 DEF Check, Finish
<1>3. CASE ProbeRelease(r)
  <2>1. CASE pc[r] = "tryProbe" /\ Goto(r, "check")
    BY <1>3, <2>1, GiveSlot DEF ProbeRelease
  <2>2. CASE pc[r] = "checkProbe" /\ Goto(r, "enter")
    BY <1>3, <2>2, GiveSlot DEF ProbeRelease
  <2> QED
    BY <1>3, <2>1, <2>2 DEF ProbeRelease
<1>4. CASE Acquire(r)
  <2>1. CASE Goto(r, "aborted") /\ UNCHANGED semVars
    BY <1>4, <2>1, KeepSlots DEF Acquire
  <2>2. CASE MayTake /\ sem' = sem + 1 /\ Goto(r, "got")
             /\ UNCHANGED <<waiters, granted>>
    BY <1>4, <2>2, TakeSlot DEF Acquire
  <2>3. CASE ~MayTake /\ waiters' = Append(waiters, r) /\ Goto(r, "wait")
             /\ UNCHANGED <<sem, granted>>
    BY <1>4, <2>3, JoinWaiters DEF Acquire
  <2> QED
    BY <1>4, <2>1, <2>2, <2>3 DEF Acquire
<1>5. CASE Wake(r)
  <2>1. CASE r \notin gone
    BY <1>5, <2>1, WakeWithSlot DEF Wake
  <2>2. CASE r \in gone
    BY <1>5, <2>2, WakeAndGive DEF Wake
  <2> QED
    BY <2>1, <2>2
<1>6. CASE GiveUp(r)
  BY <1>6, LeaveWaiters
<1>7. CASE Enter(r)
  <2>1. Goto(r, "acquire") /\ UNCHANGED semVars
    BY <1>7 DEF Enter
  <2> QED
    BY <1>7, <2>1, KeepSlots DEF Enter
<1>8. CASE Leave(r)
  <2>1. Goto(r, "idle") /\ UNCHANGED semVars
    BY <1>8 DEF Leave, Finish
  <2> QED
    BY <1>8, <2>1, KeepSlots DEF Leave
<1>9. CASE Got(r)
  <2>1. Goto(r, "accept") /\ UNCHANGED semVars
    BY <1>9 DEF Got
  <2> QED
    BY <1>9, <2>1, KeepSlots DEF Got
<1>10. CASE Accept(r)
  <2>1. Goto(r, "running") /\ UNCHANGED semVars
    BY <1>10 DEF Accept
  <2> QED
    BY <1>10, <2>1, KeepSlots DEF Accept
<1>11. CASE Drop(r)
  <2>1. Goto(r, "drop") /\ UNCHANGED semVars
    BY <1>11 DEF Drop
  <2> QED
    BY <1>11, <2>1, KeepSlots DEF Drop
<1>12. CASE Create(r)
  <2>1. Goto(r, "count") /\ UNCHANGED semVars
    BY <1>12 DEF Create
  <2> QED
    BY <1>12, <2>1, KeepSlots DEF Create
<1>13. CASE CreateUsed(r)
  <2>1. Goto(r, "session") /\ UNCHANGED semVars
    BY <1>13 DEF CreateUsed
  <2> QED
    BY <1>13, <2>1, KeepSlots DEF CreateUsed
<1>14. CASE Release(r)
  <2>1. Goto(r, "release") /\ UNCHANGED semVars
    BY <1>14 DEF Release
  <2> QED
    BY <1>14, <2>1, KeepSlots DEF Release
<1>15. CASE DropSlot(r)
  BY <1>15, GiveSlot DEF DropSlot, Finish
<1>16. CASE ReleaseSlot(r)
  BY <1>16, GiveSlot DEF ReleaseSlot, Finish
<1> QED
  BY <1>1, <1>2, <1>3, <1>4, <1>5, <1>6, <1>7, <1>8,
     <1>9, <1>10, <1>11, <1>12, <1>13, <1>14, <1>15, <1>16 DEF Step

\* Every step of a request keeps the counters exact.
LEMMA StepCounters ==
  ASSUME TypeOK, CountersExact, NEW r \in Requests, Step(r)
  PROVE  CountersExact' /\ queued' \in Nat /\ pending' \in Nat /\ used' \in Nat
<1> USE DEF QueuedPcs, Delta, TypeOK
<1>1. CASE Try(r)
  <2>1. PICK b \in {"check", "tryProbe", "idle"} : Goto(r, b)
    BY <1>1 DEF Try, Finish
  <2> QED
    BY <1>1, <2>1, CountersStep DEF Try, counters
<1>2. CASE Check(r)
  <2>1. PICK b \in {"enter", "checkProbe", "idle"} : Goto(r, b)
    BY <1>2 DEF Check, Finish
  <2> QED
    BY <1>2, <2>1, CountersStep DEF Check, counters
<1>3. CASE ProbeRelease(r)
  <2>1. PICK b \in {"check", "enter"} : Goto(r, b)
    BY <1>3 DEF ProbeRelease
  <2> QED
    BY <1>3, <2>1, CountersStep DEF ProbeRelease, counters
<1>4. CASE Acquire(r)
  <2>1. PICK b \in {"aborted", "got", "wait"} : Goto(r, b)
    BY <1>4 DEF Acquire
  <2> QED
    BY <1>4, <2>1, CountersStep DEF Acquire, counters
<1>5. CASE Wake(r)
  <2>1. PICK b \in {"got", "aborted"} : Goto(r, b)
    BY <1>5 DEF Wake
  <2> QED
    BY <1>5, <2>1, CountersStep DEF Wake, counters
<1>6. CASE GiveUp(r)
  <2>1. Goto(r, "aborted")
    BY <1>6 DEF GiveUp
  <2> QED
    BY <1>6, <2>1, CountersStep DEF GiveUp, counters
<1>7. CASE Enter(r)
  <2>1. Goto(r, "acquire")
    BY <1>7 DEF Enter
  <2> QED
    BY <1>7, <2>1, CountersStep DEF Enter, counters
<1>8. CASE Leave(r)
  <2>1. Goto(r, "idle")
    BY <1>8 DEF Leave, Finish
  <2> QED
    BY <1>8, <2>1, CountersStep DEF Leave, counters
<1>9. CASE Got(r)
  <2>1. Goto(r, "accept")
    BY <1>9 DEF Got
  <2> QED
    BY <1>9, <2>1, CountersStep DEF Got, counters
<1>10. CASE Accept(r)
  <2>1. Goto(r, "running")
    BY <1>10 DEF Accept
  <2> QED
    BY <1>10, <2>1, CountersStep DEF Accept, counters
<1>11. CASE Drop(r)
  <2>1. Goto(r, "drop")
    BY <1>11 DEF Drop
  <2> QED
    BY <1>11, <2>1, CountersStep DEF Drop, counters
<1>12. CASE Create(r)
  <2>1. Goto(r, "count")
    BY <1>12 DEF Create
  <2> QED
    BY <1>12, <2>1, CountersStep DEF Create, counters
<1>13. CASE CreateUsed(r)
  <2>1. Goto(r, "session")
    BY <1>13 DEF CreateUsed
  <2> QED
    BY <1>13, <2>1, CountersStep DEF CreateUsed, counters
<1>14. CASE Release(r)
  <2>1. Goto(r, "release")
    BY <1>14 DEF Release
  <2> QED
    BY <1>14, <2>1, CountersStep DEF Release, counters
<1>15. CASE DropSlot(r)
  <2>1. Goto(r, "idle")
    BY <1>15 DEF DropSlot, Finish
  <2> QED
    BY <1>15, <2>1, CountersStep DEF DropSlot, counters
<1>16. CASE ReleaseSlot(r)
  <2>1. Goto(r, "idle")
    BY <1>16 DEF ReleaseSlot, Finish
  <2> QED
    BY <1>16, <2>1, CountersStep DEF ReleaseSlot, counters
<1> QED
  BY <1>1, <1>2, <1>3, <1>4, <1>5, <1>6, <1>7, <1>8,
     <1>9, <1>10, <1>11, <1>12, <1>13, <1>14, <1>15, <1>16 DEF Step

\* Every step of a request leads to a label.
LEMMA StepTypes ==
  ASSUME TypeOK, NEW r \in Requests, Step(r)
  PROVE  pc' \in [Requests -> Pcs] /\ noWait' \subseteq Requests
         /\ gone' \subseteq Requests
<1>1. \E b \in Pcs : Goto(r, b)
  BY DEF Step, Try, Check, ProbeRelease, Enter, Acquire, Wake, GiveUp, Leave,
         Got, Accept, Drop, DropSlot, Create, CreateUsed, Release,
         ReleaseSlot, Finish, Pcs
<1>2. pc' \in [Requests -> Pcs]
  BY <1>1 DEF Goto, TypeOK
<1>3. noWait' \subseteq noWait /\ gone' \subseteq gone
  BY DEF Step, Try, Check, ProbeRelease, Enter, Acquire, Wake, GiveUp, Leave,
         Got, Accept, Drop, DropSlot, Create, CreateUsed, Release,
         ReleaseSlot, Finish, request
<1> QED
  BY <1>2, <1>3 DEF TypeOK

(***************************************************************************)
(* The theorems.                                                           *)
(***************************************************************************)

\* At the start nothing is taken and nobody waits.
LEMMA InitInv == Init => Inv /\ Slots!Init
<1> SUFFICES ASSUME Init PROVE Inv /\ Slots!Init
  OBVIOUS
<1> USE DEF Init
<1>1. TypeOK
  <2>1. disabled \in BOOLEAN
    BY Zenon
  <2>2. pc \in [Requests -> Pcs]
    BY DEF Pcs
  <2>3. sem \in Nat /\ queued \in Nat /\ pending \in Nat /\ used \in Nat
    OBVIOUS
  <2>4. /\ waiters \in Seq(Requests) /\ granted \subseteq Requests
        /\ noWait \subseteq Requests /\ gone \subseteq Requests
    OBVIOUS
  <2> QED
    BY <2>1, <2>2, <2>3, <2>4, Zenon DEF TypeOK
<1>2. Holders = {}
  BY DEF Holders, Holds, HoldingPcs
<1>3. SlotInv
  <2>1. WaitersExact /\ NoLostWakeup
    BY DEF WaitersExact, NoLostWakeup
  <2>2. SlotConservation
    BY <1>2, FS_EmptySet, LimitAssumption DEF SlotConservation
  <2> QED
    BY <1>1, <2>1, <2>2 DEF SlotInv, TypeOK
<1>4. CountersExact
  <2>1. At(QueuedPcs) = {} /\ At({"running"}) = {} /\ At({"session"}) = {}
    BY DEF At, QueuedPcs
  <2> QED
    BY <2>1, FS_EmptySet DEF CountersExact
<1> QED
  BY <1>1, <1>2, <1>3, <1>4 DEF Inv, Slots!Init

\* Every step keeps the invariant and is a step of the allocator or none.
LEMMA NextInv == Inv /\ [Next]_vars => Inv' /\ [Slots!Next]_Holders
<1> SUFFICES ASSUME Inv, [Next]_vars PROVE Inv' /\ [Slots!Next]_Holders
  OBVIOUS
<1> USE DEF Inv
<1>1. disabled' \in BOOLEAN
  <2>1. UNCHANGED disabled
    BY DEF Next, vars
  <2> QED
    BY <2>1 DEF TypeOK
<1>2. CASE UNCHANGED vars
  <2>1. Holders' = Holders
    BY <1>2 DEF vars, Holders, Holds
  <2>2. TypeOK'
    <3>1. UNCHANGED <<sem, waiters, granted, queued, pending, used, pc, noWait,
                      gone>>
      BY <1>2 DEF vars
    <3> QED
      BY <1>1, <3>1, Zenon DEF TypeOK
  <2>3. SlotInv'
    BY <1>2, <2>1 DEF vars, SlotInv, WaitersExact, SlotConservation, NoLostWakeup
  <2>4. CountersExact'
    BY <1>2 DEF vars, CountersExact, At
  <2> QED
    BY <2>1, <2>2, <2>3, <2>4
<1>3. ASSUME NEW r \in Requests, Step(r) PROVE Inv' /\ [Slots!Next]_Holders
  <2>1. SlotInv' /\ [Slots!Next]_Holders
    BY <1>3, StepSlots
  <2>2. CountersExact' /\ queued' \in Nat /\ pending' \in Nat /\ used' \in Nat
    BY <1>3, StepCounters
  <2>3. pc' \in [Requests -> Pcs] /\ noWait' \subseteq Requests
        /\ gone' \subseteq Requests
    BY <1>3, StepTypes
  <2>4. sem' \in Nat /\ waiters' \in Seq(Requests) /\ granted' \subseteq Requests
    BY <2>1 DEF SlotInv
  <2>5. TypeOK'
    BY <1>1, <2>2, <2>3, <2>4, Zenon DEF TypeOK
  <2> QED
    BY <2>1, <2>2, <2>5
<1>4. ASSUME NEW r \in Requests, Arrive(r) PROVE Inv' /\ [Slots!Next]_Holders
  <2>1. Goto(r, "try") /\ pc[r] = "idle"
    BY <1>4 DEF Arrive
  <2>2. SlotInv' /\ Holders' = Holders
    BY <1>4, <2>1, KeepSlots DEF Arrive, Pcs, HoldingPcs
  <2>3. CountersExact' /\ queued' \in Nat /\ pending' \in Nat /\ used' \in Nat
    BY <1>4, <2>1, CountersStep DEF Arrive, counters, Delta, QueuedPcs, TypeOK
  <2>4. pc' \in [Requests -> Pcs] /\ noWait' \subseteq Requests
        /\ gone' \subseteq Requests
    BY <1>4 DEF Arrive, Goto, Pcs, TypeOK
  <2>5. sem' \in Nat /\ waiters' \in Seq(Requests) /\ granted' \subseteq Requests
    BY <2>2 DEF SlotInv
  <2>6. TypeOK'
    BY <1>1, <2>3, <2>4, <2>5, Zenon DEF TypeOK
  <2> QED
    BY <2>2, <2>3, <2>6
<1>5. ASSUME NEW r \in Requests, Disconnect(r)
      PROVE  Inv' /\ [Slots!Next]_Holders
  <2>1. /\ UNCHANGED <<sem, waiters, granted, queued, pending, used, pc, noWait>>
        /\ gone' = gone \union {r}
    BY <1>5 DEF Disconnect, semVars, counters
  <2>2. Holders' = Holders
    BY <2>1 DEF Holders, Holds
  <2>3. gone' \subseteq Requests
    BY <2>1 DEF TypeOK
  <2>4. TypeOK'
    BY <1>1, <2>1, <2>3, Zenon DEF TypeOK
  <2>5. SlotInv'
    BY <2>1, <2>2 DEF SlotInv, WaitersExact, SlotConservation, NoLostWakeup
  <2>6. CountersExact'
    BY <2>1 DEF CountersExact, At
  <2> QED
    BY <2>2, <2>4, <2>5, <2>6
<1> QED
  BY <1>2, <1>3, <1>4, <1>5 DEF Next

\* The invariant holds in every state of the queue.
THEOREM Invariance == Spec => []Inv
<1>1. Init => Inv
  BY InitInv
<1>2. Inv /\ [Next]_vars => Inv'
  BY NextInv
<1> QED
  BY <1>1, <1>2, PTL DEF Spec

\* The counters are natural numbers and the semaphore is never released more
\* often than acquired (golang.org/x/sync/semaphore would panic), for every
\* limit and every number of clients.
THEOREM TypeCorrect == Spec => []TypeOK
<1>1. Inv => TypeOK
  BY DEF Inv
<1> QED
  BY <1>1, Invariance, PTL

\* The list of waiters is exact: Protect's callers are in it once, until they
\* are handed a slot or leave.
THEOREM WaitersAreExact == Spec => []WaitersExact
<1>1. Inv => WaitersExact
  BY DEF Inv, SlotInv
<1> QED
  BY <1>1, Invariance, PTL

\* No slot of the queue leaks and none is given back twice.
THEOREM SlotsConserved == Spec => []SlotConservation
<1>1. Inv => SlotConservation
  BY DEF Inv, SlotInv
<1> QED
  BY <1>1, Invariance, PTL

\* Nobody is left waiting in Protect while a slot is free.
THEOREM WakeupsKept == Spec => []NoLostWakeup
<1>1. Inv => NoLostWakeup
  BY DEF Inv, SlotInv
<1> QED
  BY <1>1, Invariance, PTL

\* The counters of sessions and of pending requests never exceed the slots
\* taken: requests at "running" and at "session" are different holders.
THEOREM CountersBounded == Spec => []CountersWithinLimit
<1>1. Inv => CountersWithinLimit
  <2> SUFFICES ASSUME Inv PROVE CountersWithinLimit
    OBVIOUS
  <2> DEFINE P == At({"running"})
             U == At({"session"})
  <2>1. P \subseteq Holders /\ U \subseteq Holders /\ P \intersect U = {}
    BY DEF At, Holders, Holds, HoldingPcs
  <2>2. IsFiniteSet(P) /\ IsFiniteSet(U)
    BY <2>1, HoldersFinite, FS_Subset
  <2>3. Cardinality(P \union U) = Cardinality(P) + Cardinality(U)
    <3>1. Cardinality(P) \in Nat /\ Cardinality(U) \in Nat
      BY <2>2, FS_CardinalityType
    <3>2. Cardinality(P \intersect U) = 0
      BY <2>1, FS_EmptySet
    <3> HIDE DEF P, U
    <3>3. Cardinality(P \union U)
            = Cardinality(P) + Cardinality(U) - Cardinality(P \intersect U)
      BY <2>2, FS_Union, Zenon
    <3> QED
      BY <3>1, <3>2, <3>3
  <2>4. Cardinality(P \union U) <= Cardinality(Holders)
    <3>1. P \union U \in SUBSET Holders
      BY <2>1
    <3> HIDE DEF P, U
    <3> QED
      BY <3>1, HoldersFinite, FS_Subset
  <2>5. used + pending = Cardinality(P) + Cardinality(U)
    BY DEF Inv, CountersExact, TypeOK
  <2> QED
    BY <2>3, <2>4, <2>5 DEF Inv, SlotInv, SlotConservation, CountersWithinLimit
<1> QED
  BY <1>1, Invariance, PTL

\* The queue implements the slot allocator: slots are taken while one is free,
\* given back, or handed over to one that waits.
THEOREM Refinement == Spec => ImplementsSlots
<1>1. Init => Inv /\ Slots!Init
  BY InitInv
<1>2. Inv /\ [Next]_vars => Inv' /\ [Slots!Next]_Holders
  BY NextInv
<1> QED
  BY <1>1, <1>2, Invariance, PTL DEF Spec, ImplementsSlots, Slots!Spec
=============================================================================
