---------------------------- MODULE WebDriverProof ----------------------------
(***************************************************************************)
(* Proofs about WebDriver sessions: for any number of session requests and *)
(* DELETEs and every -limit, no container is forgotten, no slot leaks, and *)
(* a shutdown stops what is registered.                                    *)
(*                                                                         *)
(* The argument is about who owns a session.  Up to sessions.Put it is the *)
(* create handler; then the map, until one DELETE takes it out; then that  *)
(* DELETE.  A DELETE that has found the session but not its lock owns      *)
(* nothing, and only a second one of these can break the balance of slots. *)
(***************************************************************************)
EXTENDS WebDriver, FiniteSetTheorems, TLAPS

Registered == {"count", "arm", "live"}
BoxPcs == StartingPcs \union {"cancel", "crashed", "panicked"}

\* DELETEs that have taken their session out of the map.
Past(d) == dpc[d] \in BegunDpcs \ {"found"}

Types ==
  /\ phase \in {"up", "draining", "sweeping", "down", "killed"}
  /\ sem \in Nat /\ used \in Int /\ pending \in Int
  /\ map \subseteq Sessions /\ todo \subseteq map
  /\ dog \in [Sessions -> {"none", "new", "armed", "stopped", "expired"}]
  /\ box \in [Sessions -> {"none", "running", "removed"}]
  /\ pc \in [Sessions -> Pcs] /\ dpc \in [Deleters -> Dpcs]
  /\ released \in [Sessions -> Nat] /\ stops \in [Sessions -> Nat]

\* Create owns a session before it is in the map, and a DELETE after.
Owners ==
  /\ \A s \in map : pc[s] \in Registered /\ released[s] = 0
  /\ \A s \in Sessions : pc[s] \notin Registered => released[s] = 0
  /\ \A d \in Deleters :
       dpc[d] \in BegunDpcs => pc[Target(d)] \in Registered
  /\ \A d \in Deleters : Past(d) => Target(d) \notin map
  /\ \A s \in Sessions \ map : pc[s] \in Registered =>
       \E d \in Deleters : Target(d) = s /\ Past(d)

\* A timer expires once.
Timers ==
  \A s \in Sessions :
     /\ pc[s] \notin Registered => dog[s] = "none"
     /\ dog[s] # "expired" => dpc[s] = "idle"

Boxes ==
  /\ \A s \in Sessions : box[s] = "running" => pc[s] \in BoxPcs \union Registered
  /\ \A d \in Deleters : dpc[d] = "done" => box[Target(d)] = "removed"

\* The sweep has the sessions for itself.
Sweeping ==
  /\ phase \notin {"sweeping", "down"} => todo = {}
  /\ phase = "down" => todo = {}
  /\ phase \in {"sweeping", "down"} =>
       /\ HandlersDone
       /\ \A s \in map \ todo : box[s] = "removed"

StoppedBy ==
  \A s \in Sessions :
     /\ stops[s] # 0 =>
          \/ \E d \in Deleters : Target(d) = s /\ dpc[d] = "done"
          \/ s \in map \ todo /\ phase \in {"sweeping", "down"}
     /\ Contested(s) \/ stops[s] <= 1

IInv ==
  Types /\ Owners /\ Timers /\ Boxes /\ Sweeping /\ StoppedBy /\ SlotsBalanced

USE DEF queue, attempt, deletion, shutdown, Deleters

LEMMA TargetType == \A d \in Deleters : Target(d) \in Sessions
  BY AboutAssumption DEF Target

LEMMA HoldersFinite == IsFiniteSet(Holders) /\ Cardinality(Holders) \in Nat
<1>1. Holders \subseteq Sessions
  BY DEF Holders
<1> QED
  BY <1>1, SessionsAssumption, FS_Subset, FS_CardinalityType

\* At the start nobody owns anything.
LEMMA Initially == Init => IInv
<1> SUFFICES ASSUME Init PROVE IInv
  OBVIOUS
<1> USE DEF Init
<1>1. Types
  BY DEF Types, Pcs, EndPcs, Dpcs
<1>2. Owners /\ Timers
  BY DEF Owners, Timers, Registered, BegunDpcs, RunningDpcs, Past
<1>3. Boxes /\ Sweeping /\ StoppedBy
  BY DEF Boxes, Sweeping, StoppedBy
<1>4. Holders = {}
  BY DEF Holders, Holds, SlotPcs, StartingPcs
<1>5. SlotsBalanced
  BY <1>4, FS_EmptySet DEF SlotsBalanced
<1> QED
  BY <1>1, <1>2, <1>3, <1>5 DEF IInv

(***************************************************************************)
(* The steps of create before the session is registered have one form.     *)
(***************************************************************************)
Kept(s, l) == UNCHANGED queue /\ (pc[s] \in SlotPcs <=> l \in SlotPcs)
Admitted(s, l) ==
  /\ pc[s] \notin SlotPcs /\ l \in SlotPcs
  /\ sem' = sem + 1 /\ pending' = pending + 1 /\ used' = used
Dropped(s, l) ==
  /\ pc[s] \in SlotPcs /\ l \notin SlotPcs
  /\ sem' = (IF sem > 0 THEN sem - 1 ELSE sem)
  /\ pending' = pending - 1 /\ used' = used

Move(s, l, b) ==
  /\ pc[s] \notin Registered /\ (pc[s] \notin EndPcs \/ phase = "up")
  /\ pc' = [pc EXCEPT ![s] = l]
  /\ box' = [box EXCEPT ![s] = b] /\ (b = "running" => l \in BoxPcs)
  /\ Kept(s, l) \/ Admitted(s, l) \/ Dropped(s, l)
  /\ UNCHANGED <<map, dog, deletion, shutdown>>

CreateMove(s) ==
  \E l \in Pcs \ Registered, b \in {"none", "running", "removed"} : Move(s, l, b)

\* DropThen is a drop, from whichever slot-owning place it is called.
LEMMA DropMoves ==
  ASSUME IInv, NEW s \in Sessions, NEW l \in Pcs \ SlotPcs, NEW b \in {"none", "running", "removed"},
         pc[s] \in SlotPcs \ (Registered \union EndPcs), DropThen(s, l),
         box' = [box EXCEPT ![s] = b], b = "running" => l = "cancel",
         UNCHANGED <<map, dog, deletion, shutdown>>
  PROVE  CreateMove(s)
<1>1. sem \in Nat
  BY DEF IInv, Types
<1>2. PICK m \in {l, "panicked"} :
         /\ pc' = [pc EXCEPT ![s] = m]
         /\ sem' = (IF sem > 0 THEN sem - 1 ELSE sem)
         /\ pending' = pending - 1 /\ used' = used
  BY <1>1 DEF DropThen, Goto
<1>3. "panicked" \in Pcs \ SlotPcs /\ "panicked" \notin Registered /\ "panicked" \in BoxPcs
      /\ "cancel" \in BoxPcs /\ l \notin Registered
  BY DEF Pcs, SlotPcs, StartingPcs, EndPcs, Registered, BoxPcs
<1>4. Dropped(s, m)
  BY <1>2, <1>3 DEF Dropped
<1>5. Move(s, m, b)
  BY <1>2, <1>3, <1>4 DEF Move
<1> QED
  BY <1>2, <1>3, <1>5 DEF CreateMove

LEMMA FailMoves ==
  ASSUME IInv, NEW s \in Sessions, Fail(s), pc[s] \in {"sent", "replied"}
  PROVE  CreateMove(s)
<1>1. box' = [box EXCEPT ![s] = box[s]] /\ box[s] \in {"none", "running", "removed"}
  BY DEF IInv, Types, Fail
<1>2. "cancel" \in Pcs \ SlotPcs /\ pc[s] \in SlotPcs \ (Registered \union EndPcs)
  BY DEF Pcs, SlotPcs, StartingPcs, EndPcs, Registered
<1>3. DropThen(s, "cancel") /\ UNCHANGED <<map, dog, deletion, shutdown>>
  BY DEF Fail
<1> QED
  BY <1>1, <1>2, <1>3, DropMoves

LEMMA CreateMoves ==
  ASSUME IInv, NEW s \in Sessions, Arrive(s) \/ CreateStep(s)
  PROVE  CreateMove(s) \/ Put(s) \/ Count(s) \/ Arm(s)
<1> DEFINE Places == {"none", "running", "removed"}
<1>1. box[s] \in Places /\ (box[s] = "running" => pc[s] \in BoxPcs \union Registered)
  BY DEF IInv, Types, Boxes
<1> USE DEF Pcs, SlotPcs, StartingPcs, EndPcs, Registered, BoxPcs
<1> DEFINE To(l, b) == /\ l \in Pcs \ Registered /\ b \in Places
                       /\ pc[s] \notin Registered /\ (pc[s] \notin EndPcs \/ phase = "up")
                       /\ pc' = [pc EXCEPT ![s] = l]
                       /\ box' = [box EXCEPT ![s] = b] /\ (b = "running" => l \in BoxPcs)
                       /\ UNCHANGED <<map, dog, deletion, shutdown>>
<1>2. ASSUME NEW l, NEW b, To(l, b), UNCHANGED queue, pc[s] \in SlotPcs <=> l \in SlotPcs
      PROVE  CreateMove(s)
  BY <1>2 DEF CreateMove, Move, Kept
<1> HIDE DEF To
<1>3. CASE Arrive(s)
  <2>1. To("queued", box[s]) /\ UNCHANGED queue
    BY <1>1, <1>3 DEF Arrive, Goto, To, IInv, Types
  <2> QED
    BY <1>2, <1>3, <2>1 DEF Arrive
<1>4. CASE Leave(s)
  <2>1. To("refused", box[s]) /\ UNCHANGED queue
    BY <1>1, <1>4 DEF Leave, Goto, To, IInv, Types
  <2> QED
    BY <1>2, <1>4, <2>1 DEF Leave
<1>5. CASE Admit(s)
  <2>1. To("admitted", box[s])
    BY <1>1, <1>5 DEF Admit, Goto, To, IInv, Types
  <2>2. Admitted(s, "admitted")
    BY <1>5 DEF Admit, Admitted
  <2> QED
    BY <2>1, <2>2 DEF CreateMove, Move, To
<1>6. CASE Reject(s)
  <2>1. box' = [box EXCEPT ![s] = box[s]] /\ box[s] # "running"
    BY <1>1, <1>6 DEF Reject, IInv, Types
  <2> QED
    BY <1>1, <1>6, <2>1, DropMoves DEF Reject
<1>7. CASE Start(s)
  <2>1. To("starting", "running") /\ UNCHANGED queue
    BY <1>1, <1>7 DEF Start, Goto, To
  <2> QED
    BY <1>2, <1>7, <2>1 DEF Start
<1>8. CASE StartFails(s)
  BY <1>8, DropMoves DEF StartFails, Remove
<1>9. CASE Started(s)
  <2>1. To("attempt", box[s]) /\ UNCHANGED queue
    BY <1>1, <1>9 DEF Started, Goto, To, IInv, Types
  <2> QED
    BY <1>2, <1>9, <2>1 DEF Started
<1>10. CASE Crash(s)
  <2>1. To("crashed", box[s]) /\ UNCHANGED queue
    BY <1>1, <1>10 DEF Crash, Goto, To, IInv, Types
  <2> QED
    BY <1>2, <1>10, <2>1 DEF Crash
<1>11. CASE Attempt(s)
  <2>1. To("sent", box[s]) /\ UNCHANGED queue
    BY <1>1, <1>11 DEF Attempt, Goto, To, IInv, Types
  <2> QED
    BY <1>2, <1>11, <2>1 DEF Attempt
<1>12. CASE Answer(s)
  <2>1. To("replied", box[s]) /\ UNCHANGED queue
    BY <1>1, <1>12 DEF Answer, Goto, To, IInv, Types
  <2> QED
    BY <1>2, <1>12, <2>1 DEF Answer
<1>13. ASSUME pc[s] = "sent", Goto(s, "attempt"), UNCHANGED <<queue, map, dog, box, deletion, shutdown>>
       PROVE  CreateMove(s)
  <2>1. To("attempt", box[s])
    BY <1>1, <1>13 DEF Goto, To, IInv, Types
  <2> QED
    BY <1>2, <1>13, <2>1
<1>14. CASE NotFound(s)
  BY <1>13, <1>14, FailMoves DEF NotFound
<1>15. CASE Timeout(s)
  BY <1>13, <1>15, FailMoves DEF Timeout
<1>16. CASE SendFails(s) \/ BadReply(s)
  BY <1>16, FailMoves DEF SendFails, BadReply
<1>17. CASE FailCancel(s)
  <2>1. To("failed", "removed") /\ UNCHANGED queue
    BY <1>1, <1>17 DEF FailCancel, Goto, Remove, To
  <2> QED
    BY <1>2, <1>17, <2>1 DEF FailCancel
<1> QED
  BY <1>3, <1>4, <1>5, <1>6, <1>7, <1>8, <1>9, <1>10, <1>11, <1>12, <1>14, <1>15, <1>16,
     <1>17 DEF CreateStep

(***************************************************************************)
(* The slots.                                                              *)
(***************************************************************************)
\* No DELETE is taken back: what is contested stays so.
OnwardDeletes == \A d \in Deleters : dpc[d] \in BegunDpcs => dpc'[d] \in BegunDpcs

LEMMA ContestedStays ==
  ASSUME OnwardDeletes, NEW s \in Sessions, Contested(s)
  PROVE  Contested(s)'
  BY DEF OnwardDeletes, Contested, Target

LEMMA BalanceKept ==
  ASSUME IInv, OnwardDeletes, Holders' = Holders, sem' = sem,
         used' + pending' = used + pending
  PROVE  SlotsBalanced'
  BY ContestedStays DEF IInv, SlotsBalanced

LEMMA BalanceUp ==
  ASSUME IInv, OnwardDeletes, NEW s \in Sessions \ Holders, Holders' = Holders \union {s},
         sem' = sem + 1, used' + pending' = used + pending + 1
  PROVE  SlotsBalanced'
<1>1. SUFFICES ASSUME \A t \in Sessions : ~Contested(t)'
               PROVE  sem' = Cardinality(Holders') /\ used' + pending' = sem'
  BY DEF SlotsBalanced
<1>2. sem = Cardinality(Holders) /\ used + pending = sem
  BY <1>1, ContestedStays DEF IInv, SlotsBalanced
<1>3. Cardinality(Holders') = Cardinality(Holders) + 1
  BY HoldersFinite, FS_AddElement
<1> QED
  BY <1>2, <1>3 DEF IInv, Types

LEMMA BalanceDown ==
  ASSUME IInv, OnwardDeletes, NEW s \in Holders, Holders' = Holders \ {s},
         sem > 0 => sem' = sem - 1,  used' + pending' = used + pending - 1
  PROVE  SlotsBalanced'
<1>1. SUFFICES ASSUME \A t \in Sessions : ~Contested(t)'
               PROVE  sem' = Cardinality(Holders') /\ used' + pending' = sem'
  BY DEF SlotsBalanced
<1>2. sem = Cardinality(Holders) /\ used + pending = sem
  BY <1>1, ContestedStays DEF IInv, SlotsBalanced
<1>3. Cardinality(Holders') = Cardinality(Holders) - 1
  BY HoldersFinite, FS_RemoveElement
<1>4. sem > 0
  BY <1>2, HoldersFinite, FS_EmptySet
<1> QED
  BY <1>2, <1>3, <1>4 DEF IInv, Types

(***************************************************************************)
(* The steps of create.                                                    *)
(***************************************************************************)
LEMMA MoveHolders ==
  ASSUME IInv, NEW s \in Sessions, NEW l \in Pcs \ Registered, NEW b, Move(s, l, b)
  PROVE  SlotsBalanced'
<1>1. released[s] = 0 /\ pc[s] \notin Registered
  BY DEF Move, IInv, Owners
<1>2. OnwardDeletes
  BY DEF OnwardDeletes, Move
<1>3. \A t \in Sessions : Holds(t)' <=> IF t = s THEN l \in SlotPcs ELSE Holds(t)
  BY <1>1 DEF Holds, Move, IInv, Types
<1>4. s \in Holders <=> pc[s] \in SlotPcs
  BY <1>1 DEF Holders, Holds
<1>5. CASE Kept(s, l)
  <2>1. Holders' = Holders
    BY <1>3, <1>4, <1>5 DEF Holders, Kept
  <2> QED
    BY <1>2, <1>5, <2>1, BalanceKept DEF Kept
<1>6. CASE Admitted(s, l)
  <2>1. Holders' = Holders \union {s} /\ s \notin Holders
    BY <1>3, <1>4, <1>6 DEF Holders, Admitted
  <2>2. used' + pending' = used + pending + 1
    BY <1>6 DEF Admitted, IInv, Types
  <2> QED
    BY <1>2, <1>6, <2>1, <2>2, BalanceUp DEF Admitted
<1>7. CASE Dropped(s, l)
  <2>1. Holders' = Holders \ {s} /\ s \in Holders
    BY <1>3, <1>4, <1>7 DEF Holders, Dropped
  <2>2. used' + pending' = used + pending - 1
    BY <1>7 DEF Dropped, IInv, Types
  <2> QED
    BY <1>2, <1>7, <2>1, <2>2, BalanceDown DEF Dropped
<1> QED
  BY <1>5, <1>6, <1>7 DEF Move

LEMMA MoveKeeps ==
  ASSUME IInv, NEW s \in Sessions, CreateMove(s)
  PROVE  IInv'
<1>1. PICK l \in Pcs \ Registered, b \in {"none", "running", "removed"} : Move(s, l, b)
  BY DEF CreateMove
<1> USE <1>1, TargetType DEF Move
<1>2. Types'
  <2>1. sem' \in Nat /\ used' \in Int /\ pending' \in Int
    BY DEF Kept, Admitted, Dropped, IInv, Types
  <2> QED
    BY <2>1 DEF IInv, Types
<1>3. \A t \in Sessions : pc'[t] \in Registered <=> pc[t] \in Registered
  BY DEF IInv, Types
<1>4. \A t \in Sessions : pc[t] \in Registered => pc'[t] = pc[t] /\ box'[t] = box[t]
  BY DEF IInv, Types
<1>5. Owners'
  BY <1>3, <1>4 DEF IInv, Types, Owners, Past
<1>6. Timers'
  BY <1>3 DEF IInv, Timers
<1>7. Boxes'
  <2>1. \A t \in Sessions : box'[t] = "running" => pc'[t] \in BoxPcs \union Registered
    BY DEF IInv, Types, Boxes
  <2>2. \A d \in Deleters : dpc[d] = "done" => box'[Target(d)] = "removed"
    BY <1>4 DEF IInv, Boxes, Owners, BegunDpcs
  <2> QED
    BY <2>1, <2>2 DEF Boxes, Target
<1>8. Sweeping'
  <2>1. phase \notin {"sweeping", "down"}
    BY DEF IInv, Sweeping, HandlersDone
  <2> QED
    BY <2>1 DEF IInv, Sweeping
<1>9. StoppedBy'
  BY DEF IInv, StoppedBy, Contested, Target
<1>10. SlotsBalanced'
  BY MoveHolders
<1> QED
  BY <1>2, <1>5, <1>6, <1>7, <1>8, <1>9, <1>10 DEF IInv

LEMMA PutKeeps ==
  ASSUME IInv, NEW s \in Sessions, Put(s)
  PROVE  IInv'
<1> USE TargetType DEF Put, Goto
<1>1. pc[s] \notin Registered /\ pc[s] \notin EndPcs /\ phase \notin {"sweeping", "down"}
  BY DEF Registered, EndPcs, IInv, Sweeping, HandlersDone
<1>2. Types'
  BY DEF IInv, Types, Pcs, SlotPcs
<1>3. "count" \in Registered /\ \A t \in Sessions \ {s} : pc'[t] = pc[t]
  BY DEF Registered, IInv, Types
<1>4. pc'[s] = "count"
  BY DEF IInv, Types
<1>5. Owners'
  <2>1. \A d \in Deleters : dpc[d] \in BegunDpcs => Target(d) # s
    BY <1>1 DEF IInv, Owners
  <2> QED
    BY <1>1, <1>3, <1>4, <2>1 DEF IInv, Owners, Past, Target
<1>6. Timers'
  BY <1>1, <1>3, <1>4 DEF IInv, Types, Timers
<1>7. Boxes'
  BY <1>3, <1>4 DEF IInv, Types, Boxes, Target
<1>8. Sweeping'
  BY <1>1 DEF IInv, Sweeping
<1>9. StoppedBy'
  BY <1>1 DEF IInv, Owners, StoppedBy, Contested, Target
<1>10. Holders' = Holders
  BY <1>3, <1>4 DEF Holders, Holds, SlotPcs, StartingPcs
<1>11. SlotsBalanced'
  BY <1>10, BalanceKept DEF OnwardDeletes
<1> QED
  BY <1>2, <1>5, <1>6, <1>7, <1>8, <1>9, <1>11 DEF IInv

LEMMA RegisteredKeeps ==
  ASSUME IInv, NEW s \in Sessions, Count(s) \/ Arm(s)
  PROVE  IInv'
<1> USE TargetType DEF Count, Arm, Goto
<1>1. pc[s] \in {"count", "arm"} /\ pc' = [pc EXCEPT ![s] = IF pc[s] = "count" THEN "arm" ELSE "live"]
  OBVIOUS
<1>2. phase \notin {"sweeping", "down"}
  BY <1>1 DEF EndPcs, IInv, Sweeping, HandlersDone
<1>3. Types'
  BY DEF IInv, Types, Pcs, SlotPcs
<1>4. \A t \in Sessions : pc'[t] \in Registered <=> pc[t] \in Registered
  BY <1>1 DEF Registered, IInv, Types
<1>5. \A t \in Sessions : pc'[t] \in BoxPcs <=> pc[t] \in BoxPcs
  BY <1>1 DEF BoxPcs, StartingPcs, IInv, Types
<1>6. \A t \in Sessions : pc'[t] \in SlotPcs <=> pc[t] \in SlotPcs
  BY <1>1 DEF SlotPcs, IInv, Types
<1>7. Owners'
  <2> USE <1>4 DEF IInv, Owners
  <2>1. /\ \A t \in map : pc'[t] \in Registered /\ released[t] = 0
        /\ \A t \in Sessions : pc'[t] \notin Registered => released[t] = 0
    BY DEF Types
  <2>2. \A d \in Deleters : dpc[d] \in BegunDpcs => pc'[Target(d)] \in Registered
    OBVIOUS
  <2>3. \A d \in Deleters : Past(d) => Target(d) \notin map
    OBVIOUS
  <2>4. \A t \in Sessions \ map : pc'[t] \in Registered =>
           \E d \in Deleters : Target(d) = t /\ Past(d)
    OBVIOUS
  <2> QED
    BY <2>1, <2>2, <2>3, <2>4 DEF Past, Target
<1>8. Timers'
  BY <1>1, <1>4 DEF Registered, IInv, Types, Timers
<1>9. Boxes'
  BY <1>4, <1>5 DEF IInv, Boxes, Target
<1>10. Sweeping'
  BY <1>2 DEF IInv, Sweeping
<1>11. StoppedBy'
  BY DEF IInv, StoppedBy, Contested, Target
<1>12. Holders' = Holders /\ sem' = sem /\ used' + pending' = used + pending
  BY <1>6 DEF Holders, Holds, IInv, Types
<1>13. SlotsBalanced'
  BY <1>12, BalanceKept DEF OnwardDeletes
<1> QED
  BY <1>3, <1>7, <1>8, <1>9, <1>10, <1>11, <1>13 DEF IInv

(***************************************************************************)
(* The steps of a DELETE.                                                  *)
(***************************************************************************)
LEMMA AskKeeps ==
  ASSUME IInv, NEW d \in Deleters, (d \in Clients /\ Ask(d)) \/ (d \in Sessions /\ Loopback(d))
  PROVE  IInv'
<1> USE TargetType
<1>1. /\ dpc[d] \in {"idle", "expired"} /\ dpc' = [dpc EXCEPT ![d] = dpc'[d]]
      /\ dpc'[d] = "denied" \/ (dpc'[d] = "found" /\ phase = "up" /\ Target(d) \in map)
      /\ UNCHANGED <<queue, map, dog, box, pc, released, stops, locked, phase, todo>>
      /\ d \in Sessions => dpc[d] = "expired"
  <2> USE DEF DeleteGoto, IInv, Types
  <2>1. CASE d \in Clients /\ Ask(d)
    <3>1. d \notin Sessions
      BY <2>1, ClientsAssumption
    <3> QED
      BY <2>1, <3>1 DEF Ask
  <2>2. CASE d \in Sessions /\ Loopback(d)
    <3>1. Target(d) = d
      BY <2>2 DEF Target
    <3>2. CASE phase = "up" /\ LoopbackAllowed /\ d \in map
      BY <2>2, <3>1, <3>2 DEF Loopback
    <3>3. CASE ~(phase = "up" /\ LoopbackAllowed /\ d \in map)
      <4>1. dpc' = [dpc EXCEPT ![d] = "denied"]
        BY <2>2, <3>3 DEF Loopback
      <4> QED
        BY <2>2, <4>1 DEF Loopback
    <3> QED
      BY <3>2, <3>3
  <2> QED
    BY <2>1, <2>2
<1>2. Types'
  BY <1>1 DEF IInv, Types, Dpcs, BegunDpcs, RunningDpcs
<1>3. OnwardDeletes
  BY <1>1 DEF OnwardDeletes, BegunDpcs, RunningDpcs, IInv, Types
<1>4. \A e \in Deleters : /\ Past(e)' <=> Past(e)
                          /\ dpc'[e] = "done" <=> dpc[e] = "done"
  BY <1>1 DEF Past, BegunDpcs, RunningDpcs, IInv, Types
<1>5. Owners'
  <2>1. \A e \in Deleters : dpc'[e] \in BegunDpcs => pc[Target(e)] \in Registered
    BY <1>1 DEF IInv, Owners, Types, BegunDpcs, RunningDpcs
  <2> QED
    BY <1>1, <1>4, <2>1 DEF IInv, Owners, Target
<1>6. Timers'
  BY <1>1 DEF IInv, Types, Timers
<1>7. Boxes'
  BY <1>1, <1>4 DEF IInv, Boxes, Target
<1>8. Sweeping'
  BY <1>1 DEF IInv, Types, Sweeping, HandlersDone, RunningDpcs
<1>9. StoppedBy'
  BY <1>1, <1>3, <1>4, ContestedStays DEF IInv, StoppedBy, Target
<1>10. SlotsBalanced'
  BY <1>1, <1>3, BalanceKept DEF Holders, Holds
<1> QED
  BY <1>2, <1>5, <1>6, <1>7, <1>8, <1>9, <1>10 DEF IInv

LEMMA ExpireKeeps ==
  ASSUME IInv, NEW s \in Sessions, Expire(s)
  PROVE  IInv'
<1> USE TargetType DEF Expire, DeleteGoto
<1>1. dpc[s] = "idle"
  BY DEF IInv, Timers
<1>2. Types'
  BY DEF IInv, Types, Dpcs
<1>3. \A e \in Deleters : /\ dpc'[e] \in BegunDpcs <=> dpc[e] \in BegunDpcs
                          /\ Past(e)' <=> Past(e)
                          /\ dpc'[e] = "done" <=> dpc[e] = "done"
  BY <1>1 DEF Past, BegunDpcs, RunningDpcs, IInv, Types
<1>4. Owners'
  BY <1>3 DEF IInv, Owners, Target
<1>5. Timers'
  BY DEF IInv, Types, Timers
<1>6. Boxes'
  BY <1>3 DEF IInv, Boxes, Target
<1>7. Sweeping'
  BY DEF IInv, Types, Sweeping, HandlersDone, RunningDpcs
<1>8. OnwardDeletes
  BY <1>3 DEF OnwardDeletes
<1>9. StoppedBy'
  BY <1>3, <1>8, ContestedStays DEF IInv, StoppedBy, Target
<1>10. SlotsBalanced'
  BY <1>8, BalanceKept DEF Holders, Holds
<1> QED
  BY <1>2, <1>4, <1>5, <1>6, <1>7, <1>9, <1>10 DEF IInv

\* A DELETE that finds its session gone is the second of two.
LEMMA SoleDelete ==
  ASSUME IInv, NEW d \in Deleters, dpc[d] = "found", ~Contested(Target(d))
  PROVE  Target(d) \in map
<1>1. pc[Target(d)] \in Registered /\ dpc[d] \in BegunDpcs
  BY DEF IInv, Owners, BegunDpcs, RunningDpcs
<1>2. ASSUME Target(d) \notin map PROVE FALSE
  <2>1. PICK e \in Deleters : Target(e) = Target(d) /\ Past(e)
    BY <1>1, <1>2, TargetType DEF IInv, Owners
  <2> QED
    BY <1>1, <2>1, TargetType DEF Contested, Past
<1> QED
  BY <1>2

LEMMA UnregisterKeeps ==
  ASSUME IInv, NEW d \in Deleters, Unregister(d)
  PROVE  IInv'
<1> DEFINE s == Target(d)
<1> USE TargetType
<1>1. /\ dpc[d] = "found" /\ map' = map \ {s} /\ used' = used - 1
      /\ dog' = IF dog[s] \in {"new", "armed"} THEN [dog EXCEPT ![s] = "stopped"] ELSE dog
      /\ UNCHANGED <<pending, box, pc, stops, phase, todo>>
  BY DEF Unregister
<1>2. \/ /\ sem > 0 /\ sem' = sem - 1 /\ released' = [released EXCEPT ![s] = @ + 1]
         /\ dpc' = [dpc EXCEPT ![d] = "forward"]
      \/ sem = 0 /\ UNCHANGED <<sem, released>> /\ dpc' = [dpc EXCEPT ![d] = "panicked"]
  BY DEF Unregister, DeleteGoto
<1>3. s \in Sessions /\ phase \notin {"sweeping", "down"} /\ todo = {}
  BY <1>1 DEF IInv, Sweeping, HandlersDone, RunningDpcs
<1>4. pc[s] \in Registered
  BY <1>1 DEF IInv, Owners, BegunDpcs, RunningDpcs
<1>5. Types'
  BY <1>1, <1>2, <1>3 DEF IInv, Types, Dpcs, BegunDpcs, RunningDpcs
<1>6. \A e \in Deleters : /\ dpc'[e] \in BegunDpcs <=> dpc[e] \in BegunDpcs
                          /\ Past(e)' <=> Past(e) \/ e = d
                          /\ dpc'[e] = "done" <=> dpc[e] = "done"
  BY <1>1, <1>2 DEF Past, BegunDpcs, RunningDpcs, IInv, Types
<1>7. \A t \in Sessions \ {s} : released'[t] = released[t]
  BY <1>2 DEF IInv, Types
<1>8. Owners'
  <2> USE <1>1, <1>3, <1>4, <1>6, <1>7 DEF IInv, Owners
  <2>1. /\ \A t \in map' : pc'[t] \in Registered /\ released'[t] = 0
        /\ \A t \in Sessions : pc'[t] \notin Registered => released'[t] = 0
    BY DEF Types
  <2>2. \A e \in Deleters : Past(e)' => Target(e) \notin map'
    OBVIOUS
  <2>3. \A t \in Sessions \ map' : pc'[t] \in Registered =>
           \E e \in Deleters : Target(e) = t /\ Past(e)'
    OBVIOUS
  <2> QED
    BY <2>1, <2>2, <2>3 DEF Target
<1>9. Timers'
  BY <1>1, <1>2, <1>3, <1>4 DEF IInv, Types, Timers
<1>10. Boxes'
  BY <1>1, <1>6 DEF IInv, Boxes, Target
<1>11. Sweeping'
  BY <1>1, <1>3 DEF IInv, Sweeping
<1>12. OnwardDeletes
  BY <1>6 DEF OnwardDeletes
<1>13. StoppedBy'
  BY <1>1, <1>3, <1>6, <1>12, ContestedStays DEF IInv, StoppedBy, Target
<1>14. SlotsBalanced'
  <2>1. CASE Contested(s)
    BY <1>3, <1>12, <2>1, ContestedStays DEF SlotsBalanced
  <2>2. CASE ~Contested(s)
    <3>1. s \in map /\ released[s] = 0
      BY <1>1, <2>2, SoleDelete DEF IInv, Owners
    <3>2. s \in Holders
      BY <1>3, <1>4, <3>1 DEF Holders, Holds, Registered, SlotPcs
    <3>3. CASE sem > 0
      <4>1. Holders' = Holders \ {s}
        BY <1>1, <1>2, <1>3, <3>1, <3>3 DEF Holders, Holds, IInv, Types
      <4>2. used' + pending' = used + pending - 1 /\ (sem > 0 => sem' = sem - 1)
        BY <1>1, <1>2 DEF IInv, Types
      <4> QED
        BY <1>12, <3>2, <4>1, <4>2, BalanceDown
    <3>4. CASE sem = 0
      <4>1. sem # Cardinality(Holders)
        BY <3>2, <3>4, HoldersFinite, FS_EmptySet
      <4> QED
        BY <1>12, <4>1, ContestedStays DEF IInv, SlotsBalanced
    <3> QED
      BY <3>3, <3>4 DEF IInv, Types
  <2> QED
    BY <2>1, <2>2
<1> QED
  BY <1>5, <1>8, <1>9, <1>10, <1>11, <1>13, <1>14 DEF IInv

LEMMA ForwardKeeps ==
  ASSUME IInv, NEW d \in Deleters, Forward(d) \/ Abort(d)
  PROVE  IInv'
<1> USE TargetType
<1>1. /\ dpc[d] = "forward" /\ dpc' = [dpc EXCEPT ![d] = dpc'[d]]
      /\ dpc'[d] \in {"cancel", "aborted"}
      /\ UNCHANGED <<queue, map, dog, box, pc, released, stops, locked, phase, todo>>
  BY DEF Forward, Abort, DeleteGoto, IInv, Types
<1>2. Types'
  BY <1>1 DEF IInv, Types, Dpcs, BegunDpcs, RunningDpcs
<1>3. \A e \in Deleters : /\ dpc'[e] \in BegunDpcs <=> dpc[e] \in BegunDpcs
                          /\ Past(e)' <=> Past(e)
                          /\ dpc'[e] = "done" <=> dpc[e] = "done"
  BY <1>1 DEF Past, BegunDpcs, RunningDpcs, IInv, Types
<1>4. Owners'
  BY <1>1, <1>3 DEF IInv, Owners, Target
<1>5. Timers'
  BY <1>1 DEF IInv, Types, Timers
<1>6. Boxes'
  BY <1>1, <1>3 DEF IInv, Boxes, Target
<1>7. Sweeping'
  BY <1>1 DEF IInv, Sweeping, HandlersDone, RunningDpcs
<1>8. OnwardDeletes
  BY <1>3 DEF OnwardDeletes
<1>9. StoppedBy'
  BY <1>1, <1>3, <1>8, ContestedStays DEF IInv, StoppedBy, Target
<1>10. SlotsBalanced'
  BY <1>1, <1>8, BalanceKept DEF Holders, Holds
<1> QED
  BY <1>2, <1>4, <1>5, <1>6, <1>7, <1>9, <1>10 DEF IInv

LEMMA CancelKeeps ==
  ASSUME IInv, NEW d \in Deleters, Cancel(d)
  PROVE  IInv'
<1> DEFINE s == Target(d)
<1> USE TargetType
<1>1. /\ dpc[d] = "cancel" /\ dpc' = [dpc EXCEPT ![d] = "done"]
      /\ box' = [box EXCEPT ![s] = "removed"] /\ stops' = [stops EXCEPT ![s] = @ + 1]
      /\ UNCHANGED <<queue, map, dog, pc, released, locked, phase, todo>>
  BY DEF Cancel, DeleteGoto, Remove
<1>2. Types'
  BY <1>1 DEF IInv, Types, Dpcs, BegunDpcs, RunningDpcs
<1>3. \A e \in Deleters : /\ dpc'[e] \in BegunDpcs <=> dpc[e] \in BegunDpcs
                          /\ Past(e)' <=> Past(e)
                          /\ dpc'[e] = "done" <=> dpc[e] = "done" \/ e = d
  BY <1>1 DEF Past, BegunDpcs, RunningDpcs, IInv, Types
<1>4. Owners'
  BY <1>1, <1>3 DEF IInv, Owners, Target
<1>5. Timers'
  BY <1>1 DEF IInv, Types, Timers
<1>6. Boxes'
  BY <1>1, <1>3 DEF IInv, Types, Boxes, Target
<1>7. phase \notin {"sweeping", "down"}
  BY <1>1 DEF IInv, Sweeping, HandlersDone, RunningDpcs
<1>8. Sweeping'
  BY <1>1, <1>7 DEF IInv, Sweeping
<1>9. OnwardDeletes
  BY <1>3 DEF OnwardDeletes
<1>10. StoppedBy'
  <2>1. ASSUME ~Contested(s)' PROVE stops[s] = 0
    <3>1. \A e \in Deleters : Target(e) = s /\ dpc[e] = "done" => Contested(s)
      BY <1>1 DEF Contested, BegunDpcs, RunningDpcs
    <3> QED
      BY <1>7, <1>9, <2>1, <3>1, ContestedStays DEF IInv, StoppedBy
  <2>2. Contested(s)' \/ stops'[s] <= 1
    BY <1>1, <2>1 DEF IInv, Types
  <2>3. \A t \in Sessions \ {s} : stops'[t] = stops[t]
    BY <1>1 DEF IInv, Types
  <2>4. \A t \in Sessions : stops'[t] # 0 =>
          \E e \in Deleters : Target(e) = t /\ dpc'[e] = "done"
    BY <1>3, <1>7, <2>3 DEF IInv, StoppedBy
  <2>5. \A t \in Sessions : Contested(t)' \/ stops'[t] <= 1
    BY <1>9, <2>2, <2>3, ContestedStays DEF IInv, StoppedBy
  <2> QED
    BY <2>4, <2>5 DEF StoppedBy, Target
<1>11. SlotsBalanced'
  BY <1>1, <1>9, BalanceKept DEF Holders, Holds
<1> QED
  BY <1>2, <1>4, <1>5, <1>6, <1>8, <1>10, <1>11 DEF IInv

(***************************************************************************)
(* Shutdown, and the theorems.                                             *)
(***************************************************************************)
LEMMA ShutdownKeeps ==
  ASSUME IInv, Signal \/ Drained \/ GraceOver \/ Exit
  PROVE  IInv'
<1> USE DEF Signal, Drained, GraceOver, Exit
<1>1. UNCHANGED <<queue, map, dog, box, pc, dpc, released, stops, locked>>
  OBVIOUS
<1>2. Types'
  BY DEF IInv, Types
<1>3. Owners' /\ Timers'
  BY <1>1 DEF IInv, Owners, Timers, Past, Target
<1>4. Boxes'
  BY <1>1 DEF IInv, Boxes, Target
<1>5. Sweeping'
  BY DEF IInv, Sweeping, HandlersDone
<1>6. StoppedBy'
  BY DEF IInv, Sweeping, StoppedBy, Contested, Target
<1>7. SlotsBalanced'
  BY <1>1, BalanceKept DEF Holders, Holds, OnwardDeletes
<1> QED
  BY <1>2, <1>3, <1>4, <1>5, <1>6, <1>7 DEF IInv

LEMMA SweepKeeps ==
  ASSUME IInv, NEW s \in Sessions, Sweep(s)
  PROVE  IInv'
<1> USE TargetType DEF Sweep, Remove
<1>1. Types'
  BY DEF IInv, Types
<1>2. Owners' /\ Timers'
  BY DEF IInv, Owners, Timers, Past, Target
<1>3. Boxes'
  BY DEF IInv, Types, Boxes, Target
<1>4. Sweeping'
  BY DEF IInv, Types, Sweeping, HandlersDone
<1>5. s \in map
  BY DEF IInv, Types
<1>6. stops[s] = 0
  <2>1. \A d \in Deleters : Target(d) = s => dpc[d] # "done"
    BY <1>5 DEF IInv, Owners, Past, BegunDpcs
  <2> QED
    BY <2>1 DEF IInv, StoppedBy
<1>7. StoppedBy'
  BY <1>5, <1>6 DEF IInv, Types, StoppedBy, Contested, Target
<1>8. SlotsBalanced'
  BY BalanceKept DEF Holders, Holds, OnwardDeletes
<1> QED
  BY <1>1, <1>2, <1>3, <1>4, <1>7, <1>8 DEF IInv

LEMMA StutterKeeps == ASSUME IInv, UNCHANGED vars PROVE IInv'
<1> USE DEF vars
<1>1. Types' /\ Owners' /\ Timers'
  BY DEF IInv, Types, Owners, Timers, Past, Target
<1>2. Boxes' /\ Sweeping' /\ StoppedBy'
  BY DEF IInv, Boxes, Sweeping, HandlersDone, StoppedBy, Contested, Target
<1>3. SlotsBalanced'
  BY BalanceKept DEF Holders, Holds, OnwardDeletes
<1> QED
  BY <1>1, <1>2, <1>3 DEF IInv

LEMMA Invariance == Spec => []IInv
<1>1. IInv /\ [Next]_vars => IInv'
  <2> SUFFICES ASSUME IInv, [Next]_vars PROVE IInv'
    OBVIOUS
  <2>1. ASSUME NEW s \in Sessions, Arrive(s) \/ CreateStep(s) PROVE IInv'
    BY <2>1, CreateMoves, MoveKeeps, PutKeeps, RegisteredKeeps
  <2>2. ASSUME NEW c \in Clients, Ask(c) PROVE IInv'
    <3>1. c \in Deleters
      OBVIOUS
    <3> QED
      BY <2>2, <3>1, AskKeeps
  <2>3. ASSUME NEW s \in Sessions, Expire(s) \/ Loopback(s) PROVE IInv'
    BY <2>3, AskKeeps, ExpireKeeps
  <2>4. ASSUME NEW d \in Deleters, DeleteStep(d) PROVE IInv'
    BY <2>4, UnregisterKeeps, ForwardKeeps, CancelKeeps DEF DeleteStep
  <2>5. CASE ShutdownStep
    BY <2>5, ShutdownKeeps, SweepKeeps DEF ShutdownStep
  <2>6. CASE UNCHANGED vars
    BY <2>6, StutterKeeps
  <2> QED
    BY <2>1, <2>2, <2>3, <2>4, <2>5, <2>6 DEF Next
<1> QED
  BY Initially, <1>1, PTL DEF Spec

\* Whatever the handlers, the timers and the shutdown do, in every order, a
\* running container has an owner, or its handler has panicked.
THEOREM NothingStray == Spec => []NoStrayContainer
<1>1. IInv => NoStrayContainer
  <2> SUFFICES ASSUME IInv, NEW s \in Sessions, box[s] = "running", s \notin map,
                      pc[s] \in Registered
               PROVE  \E d \in Deleters : Target(d) = s /\ dpc[d] \in BegunDpcs \ {"found", "done"}
    BY DEF IInv, Boxes, BoxPcs, NoStrayContainer
  <2>1. PICK d \in Deleters : Target(d) = s /\ Past(d)
    BY DEF IInv, Owners
  <2> QED
    BY <2>1 DEF IInv, Boxes, Past
<1> QED
  BY Invariance, <1>1, PTL

\* No path through create, DELETE and the timer leaks a slot or returns one
\* twice, as long as no session is deleted twice.
THEOREM Balanced == Spec => []SlotsBalanced
<1>1. IInv => SlotsBalanced
  BY DEF IInv
<1> QED
  BY Invariance, <1>1, PTL

\* An orderly shutdown stops every registered session, and a session is
\* stopped once.
THEOREM AllSwept == Spec => []ShutdownSweeps
<1>1. IInv => ShutdownSweeps
  BY DEF IInv, Sweeping, StoppedBy, ShutdownSweeps
<1> QED
  BY Invariance, <1>1, PTL

=============================================================================
