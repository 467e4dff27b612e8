--------------------------- MODULE PlaywrightProof ---------------------------
(***************************************************************************)
(* Proofs about Playwright sessions, for any number of upgrade requests,   *)
(* proposed IDs and DELETEs and every -limit: slots are given back exactly *)
(* once, and a DELETE that has returned has left nothing of its session.   *)
(*                                                                         *)
(* Whoever may run the clean-up of a session has found it in the map, in   *)
(* the list of the sweep or by its timer, so its handler is past Put and   *)
(* nothing is made after the clean-up has taken it away.                   *)
(***************************************************************************)
EXTENDS Playwright, FiniteSetTheorems, TLAPS

\* The handler has put its session into the map.
AfterPut == {"count", "arm", "tunnel", "closing", "ended"}

\* Its request is still counted as pending.
PendingPcs == TrackedPcs \union {"upgraded", "count"}
Starting == {h \in Requests : pc[h] \in PendingPcs}

\* A session that can be found or is being cleaned up is past Put, and what the
\* clean-up has done stays done.
Session(h) ==
  /\ once[h] # "free" \/ dog[h] # "none" \/ h \in todo => pc[h] \in AfterPut
  /\ once[h] \in {"stopped", "removed", "done"} => box[h] = "removed"
  /\ \A i \in Ids : map[i] = h =>
       pc[h] \in AfterPut /\ i = sid[h] /\ once[h] \notin {"removed", "done"}

\* A DELETE has a session that was found in the map.
Deletion(c) ==
  /\ dpc[c] = "idle" => via[c] = "none"
  /\ dpc[c] # "idle" => dsess[c] \in Requests /\ pc[dsess[c]] \in AfterPut
  /\ dpc[c] = "found" => via[c] = "hub"
  /\ dpc[c] = "done" => once[dsess[c]] = "done"

NoneAtHub == \A h \in Requests : ~HubDeleted(h)

\* Without a DELETE at the hub's endpoint only the clean-up releases a slot.
Balanced == NoneAtHub =>
  /\ sem = Cardinality(Holders)
  /\ used + pending = sem
  /\ \A h \in Requests : released[h] # 0 <=> once[h] = "done"

IInv ==
  /\ TypeOK
  /\ \A h \in Requests : Session(h)
  /\ \A c \in Clients : Deletion(c)
  /\ pending = Cardinality(Starting)
  /\ Balanced

\* What most steps need of the types.
LEMMA PcType == ASSUME IInv PROVE pc \in [Requests -> Pcs]
BY DEF IInv, TypeOK

\* Nothing has happened.
LEMMA Initially == Init => IInv
<1> SUFFICES ASSUME Init PROVE IInv
  OBVIOUS
<1>1. TypeOK
  BY IdsAssumption DEF Init, TypeOK, Ids, Pcs, CleanupSteps, Actors, Dpcs
<1>2. \A h \in Requests : Session(h)
  BY RequestsAssumption DEF Init, Session, Ids
<1>3. \A c \in Clients : Deletion(c)
  BY DEF Init, Deletion
<1>4. Holders = {} /\ Starting = {}
  BY DEF Init, Holders, Holds, Starting, PendingPcs, TrackedPcs
<1>5. pending = Cardinality(Starting) /\ Balanced
  BY <1>4, FS_EmptySet DEF Init, Balanced
<1> QED
  BY <1>1, <1>2, <1>3, <1>5 DEF IInv

(***************************************************************************)
(* Counting.                                                               *)
(***************************************************************************)
LEMMA CountsFinite ==
  /\ IsFiniteSet(Holders) /\ Cardinality(Holders) \in Nat
  /\ IsFiniteSet(Starting) /\ Cardinality(Starting) \in Nat
BY RequestsAssumption, FS_Subset, FS_CardinalityType DEF Holders, Starting

LEMMA OneLess ==
  ASSUME NEW S, IsFiniteSet(S), NEW x \in S
  PROVE  /\ Cardinality(S \ {x}) = Cardinality(S) - 1
         /\ Cardinality(S) \in Nat \ {0}
BY FS_RemoveElement, FS_CardinalityType, FS_EmptySet

LEMMA OneMore ==
  ASSUME NEW S, IsFiniteSet(S), NEW x, x \notin S
  PROVE  Cardinality(S \union {x}) = Cardinality(S) + 1
BY FS_AddElement

\* A step that neither takes nor gives back a slot.
LEMMA SlotsStay ==
  ASSUME IInv, UNCHANGED <<queue, released>>,
         \A h \in Requests : pc'[h] \in PendingPcs <=> pc[h] \in PendingPcs,
         \A h \in Requests : pc'[h] \in {"idle", "failed", "panicked"}
                               <=> pc[h] \in {"idle", "failed", "panicked"},
         \A h \in Requests : once'[h] = "done" <=> once[h] = "done",
         NoneAtHub' => NoneAtHub
  PROVE  (pending = Cardinality(Starting))' /\ Balanced'
<1>1. Holders' = Holders /\ Starting' = Starting
  BY DEF Holders, Holds, Starting
<1> QED
  BY <1>1 DEF IInv, Balanced, queue

\* A DELETE that is at the hub's endpoint stays there.
LEMMA HubStays ==
  ASSUME IInv,
         \A c \in Clients : dpc[c] # "idle" => via'[c] = via[c] /\ dsess'[c] = dsess[c]
  PROVE  NoneAtHub' => NoneAtHub
BY DEF IInv, Deletion, NoneAtHub, HubDeleted

(***************************************************************************)
(* The handler.                                                            *)
(***************************************************************************)
\* A step before the session is in the map.
LEMMA EarlyMove ==
  ASSUME IInv, NEW h \in Requests, NEW p \in TrackedPcs \union {"upgraded"},
         pc[h] \in TrackedPcs, pc' = [pc EXCEPT ![h] = p],
         TypeOK', \A g \in Requests \ {h} : sid'[g] = sid[g] /\ box'[g] = box[g],
         UNCHANGED <<queue, map, dog, cleanup, deletion, released, shutdown>>
  PROVE  IInv'
<1>1. pc[h] \notin AfterPut /\ p \notin AfterPut /\ p \in PendingPcs /\ pc[h] \in PendingPcs
  BY DEF AfterPut, TrackedPcs, PendingPcs
<1>2. \A g \in Requests : pc'[g] = IF g = h THEN p ELSE pc[g]
  BY PcType
<1>3. \A g \in Requests : Session(g)'
  BY <1>1, <1>2 DEF IInv, Session, cleanup, shutdown
<1>4. \A c \in Clients : Deletion(c)'
  BY <1>1, <1>2 DEF IInv, Deletion, cleanup, deletion
<1>5. (pending = Cardinality(Starting))' /\ Balanced'
  BY <1>1, <1>2, SlotsStay, HubStays DEF TrackedPcs, cleanup, deletion
<1> QED
  BY <1>3, <1>4, <1>5 DEF IInv

LEMMA EarlyKeeps ==
  ASSUME IInv, NEW h \in Requests,
         \/ Start(h) \/ StartFails(h) \/ Dial(h) \/ Undo(h)
         \/ UndoCancel(h) \/ Resolve(h) \/ Upgrade(h)
  PROVE  IInv'
<1>1. \E p \in TrackedPcs \union {"upgraded"} :
        pc[h] \in TrackedPcs /\ pc' = [pc EXCEPT ![h] = p]
  BY DEF Start, StartFails, Dial, Undo, UndoCancel, Resolve, Upgrade, Goto, TrackedPcs
<1>2. UNCHANGED <<queue, map, dog, cleanup, deletion, released, shutdown>>
  BY DEF Start, StartFails, Dial, Undo, UndoCancel, Resolve, Upgrade
<1>3. /\ box' \in [Requests -> {"none", "running", "removed"}]
      /\ sid' \in [Requests -> Ids]
      /\ \A g \in Requests \ {h} : sid'[g] = sid[g] /\ box'[g] = box[g]
  BY DEF IInv, TypeOK, Start, StartFails, Dial, Undo, UndoCancel, Resolve, Upgrade, Remove,
         Ids
<1>4. TypeOK'
  <2>1. pc' \in [Requests -> Pcs]
    BY <1>1, PcType DEF Pcs, HijackedPcs
  <2> QED
    BY <1>2, <1>3, <2>1 DEF IInv, TypeOK, queue, cleanup, deletion, shutdown
<1> QED
  BY <1>1, <1>2, <1>3, <1>4, EarlyMove

\* A step of a session that is counted, or of its timer.
LEMMA LateKeeps ==
  ASSUME IInv, NEW h \in Requests,
         \/ Arm(h) \/ Disconnect(h) \/ TunnelCloses(h) \/ Return(h) \/ Expire(h)
  PROVE  IInv'
<1> DEFINE Late == AfterPut \ {"count"}
<1>1. \A g \in Requests : pc'[g] = pc[g] \/ (pc[g] \in Late /\ pc'[g] \in Late)
  <2>1. \/ pc' = pc
        \/ \E p \in Late : pc[h] \in Late /\ pc' = [pc EXCEPT ![h] = p]
    BY DEF Arm, Disconnect, TunnelCloses, Return, Expire, Goto, AfterPut
  <2>2. ASSUME NEW p \in Late, pc[h] \in Late, pc' = [pc EXCEPT ![h] = p]
        PROVE  \A g \in Requests : pc'[g] = pc[g] \/ (pc[g] \in Late /\ pc'[g] \in Late)
    <3>1. \A g \in Requests : pc'[g] = IF g = h THEN p ELSE pc[g]
      BY <2>2, PcType
    <3> QED
      BY <2>2, <3>1
  <2> QED
    BY <2>1, <2>2
<1>2. UNCHANGED <<queue, map, sid, box, cleanup, deletion, released, shutdown>>
  BY DEF Arm, Disconnect, TunnelCloses, Return, Expire
<1>3. /\ pc' \in [Requests -> Pcs]
      /\ dog' \in [Requests -> {"none", "new", "armed", "stopped", "expired"}]
      /\ \A g \in Requests : dog'[g] # "none" => dog[g] # "none"
  BY DEF IInv, TypeOK, Arm, Disconnect, TunnelCloses, Return, Expire, Goto, Pcs, HijackedPcs
<1>4. TypeOK'
  BY <1>2, <1>3 DEF IInv, TypeOK, queue, cleanup, deletion, shutdown
<1>5. \A g \in Requests : Session(g)'
  BY <1>1, <1>2, <1>3 DEF IInv, Session, cleanup, shutdown
<1>6. \A c \in Clients : Deletion(c)'
  BY <1>1, <1>2 DEF IInv, Deletion, cleanup, deletion
<1>7. \A p \in Late : p \notin PendingPcs /\ p \notin {"idle", "failed", "panicked"}
  BY DEF AfterPut, PendingPcs, TrackedPcs
<1>8. (pending = Cardinality(Starting))' /\ Balanced'
  BY <1>1, <1>2, <1>7, SlotsStay, HubStays DEF cleanup, deletion
<1> QED
  BY <1>4, <1>5, <1>6, <1>8 DEF IInv

\* Without a DELETE at the hub's endpoint, who is past neither the queue nor the
\* clean-up owns a slot.
LEMMA OwnsASlot ==
  ASSUME IInv, NoneAtHub, NEW h \in Requests, once[h] # "done"
  PROVE  /\ released[h] = 0
         /\ pc[h] \notin {"idle", "failed", "panicked"} => h \in Holders /\ sem > 0
<1>1. released[h] = 0
  BY DEF IInv, Balanced, TypeOK
<1>2. ASSUME pc[h] \notin {"idle", "failed", "panicked"}
      PROVE  h \in Holders /\ sem > 0
  <2>1. h \in Holders
    BY <1>1, <1>2 DEF Holders, Holds
  <2>2. Cardinality(Holders) \in Nat \ {0}
    BY <2>1, CountsFinite, OneLess
  <2> QED
    BY <2>1, <2>2 DEF IInv, Balanced
<1> QED
  BY <1>1, <1>2

\* A request comes through the queue.
LEMMA AdmitKeeps ==
  ASSUME IInv, NEW h \in Requests, Admit(h)
  PROVE  IInv'
<1>1. /\ pc[h] = "idle" /\ pc' = [pc EXCEPT ![h] = "admitted"]
      /\ sem' = sem + 1 /\ pending' = pending + 1
      /\ UNCHANGED <<used, map, sid, dog, box, cleanup, deletion, released, shutdown>>
  BY DEF Admit, Goto
<1>2. \A g \in Requests : pc'[g] = IF g = h THEN "admitted" ELSE pc[g]
  BY <1>1, PcType
<1>3. TypeOK'
  <2>1. pc' \in [Requests -> Pcs]
    BY <1>1, PcType DEF Pcs, TrackedPcs
  <2> QED
    BY <1>1, <2>1 DEF IInv, TypeOK, cleanup, deletion, shutdown
<1>4. \A g \in Requests : Session(g)'
  BY <1>1, <1>2 DEF IInv, Session, cleanup, shutdown, AfterPut
<1>5. \A c \in Clients : Deletion(c)'
  BY <1>1, <1>2 DEF IInv, Deletion, cleanup, deletion, AfterPut
<1>6. (pending = Cardinality(Starting))'
  <2>1. h \notin Starting /\ Starting' = Starting \union {h}
    BY <1>1, <1>2 DEF Starting, PendingPcs, TrackedPcs
  <2> QED
    BY <1>1, <2>1, CountsFinite, OneMore DEF IInv
<1>7. ASSUME NoneAtHub'
      PROVE  /\ sem' = Cardinality(Holders')
             /\ used' + pending' = sem'
             /\ \A g \in Requests : released'[g] # 0 <=> once'[g] = "done"
  <2>1. NoneAtHub
    BY <1>1, <1>7, HubStays DEF deletion
  <2>2. once[h] # "done"
    BY <1>1 DEF IInv, Session, AfterPut
  <2>3. h \notin Holders /\ Holders' = Holders \union {h}
    BY <1>1, <1>2, <2>1, <2>2, OwnsASlot DEF Holders, Holds
  <2>4. Cardinality(Holders') = Cardinality(Holders) + 1
    BY <2>3, CountsFinite, OneMore
  <2> QED
    BY <1>1, <2>1, <2>4 DEF IInv, Balanced, TypeOK, cleanup
<1> QED
  BY <1>3, <1>4, <1>5, <1>6, <1>7 DEF IInv, Balanced

\* A request that is refused or undone gives its slot back.
LEMMA DropKeeps ==
  ASSUME IInv, NEW h \in Requests, Reject(h) \/ UndoDrop(h)
  PROVE  IInv'
<1>1. /\ pc[h] \in {"admitted", "drop"} /\ DropAndReturn(h)
      /\ UNCHANGED <<map, sid, dog, box, cleanup, deletion, released, shutdown>>
  BY DEF Reject, UndoDrop
<1>2. PICK p \in {"failed", "panicked"} :
        /\ pc' = [pc EXCEPT ![h] = p]
        /\ pending' = pending - 1 /\ used' = used
        /\ \/ sem > 0 /\ sem' = sem - 1
           \/ sem = 0 /\ sem' = sem
  BY <1>1 DEF DropAndReturn, Goto
<1>3. \A g \in Requests : pc'[g] = IF g = h THEN p ELSE pc[g]
  BY <1>2, PcType
<1>4. pending \in Nat \ {0} /\ pending' = Cardinality(Starting')
  <2>1. h \in Starting /\ Starting' = Starting \ {h}
    BY <1>1, <1>3 DEF Starting, PendingPcs, TrackedPcs
  <2> QED
    BY <1>2, <2>1, CountsFinite, OneLess DEF IInv
<1>5. TypeOK'
  <2>1. pc' \in [Requests -> Pcs]
    BY <1>2, PcType DEF Pcs
  <2>2. sem' \in Nat /\ pending' \in Nat
    BY <1>2, <1>4 DEF IInv, TypeOK
  <2> QED
    BY <1>1, <1>2, <2>1, <2>2 DEF IInv, TypeOK, cleanup, deletion, shutdown
<1>6. \A g \in Requests : Session(g)'
  BY <1>1, <1>3 DEF IInv, Session, cleanup, shutdown, AfterPut
<1>7. \A c \in Clients : Deletion(c)'
  BY <1>1, <1>3 DEF IInv, Deletion, cleanup, deletion, AfterPut
<1>8. ASSUME NoneAtHub'
      PROVE  /\ sem' = Cardinality(Holders')
             /\ used' + pending' = sem'
             /\ \A g \in Requests : released'[g] # 0 <=> once'[g] = "done"
  <2>1. NoneAtHub
    BY <1>1, <1>8, HubStays DEF deletion
  <2>2. once[h] # "done"
    BY <1>1 DEF IInv, Session, AfterPut
  <2>3. h \in Holders /\ sem > 0
    BY <1>1, <2>1, <2>2, OwnsASlot
  <2>4. Holders' = Holders \ {h}
    BY <1>1, <1>3 DEF Holders, Holds
  <2>5. Cardinality(Holders') = Cardinality(Holders) - 1
    BY <2>3, <2>4, CountsFinite, OneLess
  <2> QED
    BY <1>1, <1>2, <2>1, <2>3, <2>5 DEF IInv, Balanced, TypeOK, cleanup
<1> QED
  BY <1>4, <1>5, <1>6, <1>7, <1>8 DEF IInv, Balanced

\* The session is put into the map.
LEMMA PutKeeps ==
  ASSUME IInv, NEW h \in Requests, Put(h)
  PROVE  IInv'
<1>1. /\ pc[h] = "upgraded" /\ pc' = [pc EXCEPT ![h] = "count"]
      /\ map' = [map EXCEPT ![sid[h]] = h] /\ dog' = [dog EXCEPT ![h] = "new"]
      /\ UNCHANGED <<queue, sid, box, cleanup, deletion, released, shutdown>>
  BY DEF Put, Goto
<1>2. \A g \in Requests : pc'[g] = IF g = h THEN "count" ELSE pc[g]
  BY <1>1, PcType
<1>3. TypeOK'
  <2>1. pc' \in [Requests -> Pcs]
    BY <1>1, PcType DEF Pcs, HijackedPcs
  <2> QED
    BY <1>1, <2>1 DEF IInv, TypeOK, queue, cleanup, deletion, shutdown
<1>4. \A i \in Ids : map'[i] = IF i = sid[h] THEN h ELSE map[i]
  BY <1>1 DEF IInv, TypeOK
<1>5. once[h] = "free"
  BY <1>1 DEF IInv, Session, AfterPut
<1>6. ASSUME NEW g \in Requests
      PROVE  Session(g)'
  <2>1. CASE g = h
    BY <1>1, <1>2, <1>4, <1>5, <2>1 DEF IInv, Session, cleanup, AfterPut
  <2>2. CASE g # h
    <3>1. dog'[g] = dog[g] /\ pc'[g] = pc[g]
      BY <1>1, <1>2, <2>2 DEF IInv, TypeOK
    <3> QED
      BY <1>1, <1>4, <2>2, <3>1 DEF IInv, Session, cleanup, shutdown
  <2> QED
    BY <2>1, <2>2
<1>7. \A c \in Clients : Deletion(c)'
  BY <1>1, <1>2 DEF IInv, Deletion, cleanup, deletion, AfterPut
<1>8. (pending = Cardinality(Starting))' /\ Balanced'
  BY <1>1, <1>2, SlotsStay, HubStays DEF PendingPcs, cleanup, deletion
<1> QED
  BY <1>3, <1>6, <1>7, <1>8 DEF IInv

\* The request is counted as a session.
LEMMA CountKeeps ==
  ASSUME IInv, NEW h \in Requests, Count(h)
  PROVE  IInv'
<1>1. /\ pc[h] = "count" /\ pc' = [pc EXCEPT ![h] = "arm"]
      /\ pending' = pending - 1 /\ used' = used + 1
      /\ UNCHANGED <<sem, map, sid, dog, box, cleanup, deletion, released, shutdown>>
  BY DEF Count, Goto
<1>2. \A g \in Requests : pc'[g] = IF g = h THEN "arm" ELSE pc[g]
  BY <1>1, PcType
<1>3. pending \in Nat \ {0} /\ pending' = Cardinality(Starting')
  <2>1. h \in Starting /\ Starting' = Starting \ {h}
    BY <1>1, <1>2 DEF Starting, PendingPcs, TrackedPcs
  <2> QED
    BY <1>1, <2>1, CountsFinite, OneLess DEF IInv
<1>4. TypeOK'
  <2>1. pc' \in [Requests -> Pcs]
    BY <1>1, PcType DEF Pcs, HijackedPcs
  <2>2. pending' \in Nat /\ used' \in Int
    BY <1>1, <1>3 DEF IInv, TypeOK
  <2> QED
    BY <1>1, <2>1, <2>2 DEF IInv, TypeOK, cleanup, deletion, shutdown
<1>5. \A g \in Requests : Session(g)'
  BY <1>1, <1>2 DEF IInv, Session, cleanup, shutdown, AfterPut
<1>6. \A c \in Clients : Deletion(c)'
  BY <1>1, <1>2 DEF IInv, Deletion, cleanup, deletion, AfterPut
<1>7. NoneAtHub' => NoneAtHub
  BY <1>1, HubStays DEF deletion
<1>8. Holders' = Holders
  BY <1>1, <1>2 DEF Holders, Holds
<1>9. Balanced'
  BY <1>1, <1>7, <1>8 DEF IInv, Balanced, TypeOK, cleanup
<1> QED
  BY <1>3, <1>4, <1>5, <1>6, <1>9 DEF IInv

(***************************************************************************)
(* The clean-up.                                                           *)
(***************************************************************************)
\* Whoever may run it has a session that was in the map.
LEMMA BeginKeeps ==
  ASSUME IInv, NEW h \in Requests, Begin(h)
  PROVE  IInv'
<1>1. PICK a \in Actors : MayRun(h, a) /\ by' = [by EXCEPT ![h] = a]
  BY DEF Begin
<1>2. /\ once[h] = "free" /\ once' = [once EXCEPT ![h] = "closed"]
      /\ dog' = IF dog[h] \in {"new", "armed"}
                  THEN [dog EXCEPT ![h] = "stopped"] ELSE dog
      /\ UNCHANGED <<queue, map, sid, box, pc, deletion, released, shutdown>>
  BY DEF Begin
<1>3. a # "nobody" /\ pc[h] \in AfterPut
  BY <1>1 DEF IInv, Session, Deletion, MayRun, AfterPut
<1>4. \A g \in Requests : /\ once'[g] = IF g = h THEN "closed" ELSE once[g]
                          /\ by'[g] = IF g = h THEN a ELSE by[g]
                          /\ dog'[g] # "none" => dog[g] # "none"
  BY <1>1, <1>2 DEF IInv, TypeOK
<1>5. TypeOK'
  <2>1. /\ once' \in [Requests -> CleanupSteps]
        /\ by' \in [Requests -> Actors]
        /\ dog' \in [Requests -> {"none", "new", "armed", "stopped", "expired"}]
    BY <1>1, <1>2 DEF IInv, TypeOK, CleanupSteps
  <2>2. \A g \in Requests : once'[g] = "free" <=> by'[g] = "nobody"
    BY <1>3, <1>4 DEF IInv, TypeOK
  <2> QED
    BY <1>2, <2>1, <2>2 DEF IInv, TypeOK, queue, deletion, shutdown
<1>6. \A g \in Requests : Session(g)'
  BY <1>2, <1>3, <1>4 DEF IInv, Session, shutdown
<1>7. \A c \in Clients : Deletion(c)'
  BY <1>2, <1>4 DEF IInv, Deletion, deletion
<1>8. (pending = Cardinality(Starting))' /\ Balanced'
  BY <1>2, <1>4, SlotsStay, HubStays DEF deletion
<1> QED
  BY <1>5, <1>6, <1>7, <1>8 DEF IInv

\* The container is stopped, or the session leaves the map.
LEMMA CleanupKeeps ==
  ASSUME IInv, NEW h \in Requests, StopService(h) \/ RemoveEntry(h)
  PROVE  IInv'
<1>1. PICK s \in {"stopped", "removed"} : once' = [once EXCEPT ![h] = s]
  BY DEF StopService, RemoveEntry
<1>2. /\ once[h] \in {"closed", "stopped"}
      /\ UNCHANGED <<queue, sid, dog, pc, by, deletion, released, shutdown>>
  BY DEF StopService, RemoveEntry
<1>3. \A g \in Requests : once'[g] = IF g = h THEN s ELSE once[g]
  BY <1>1 DEF IInv, TypeOK
<1>4. /\ box' \in [Requests -> {"none", "running", "removed"}]
      /\ box'[h] = "removed" /\ \A g \in Requests \ {h} : box'[g] = box[g]
  BY DEF IInv, TypeOK, Session, StopService, RemoveEntry, Remove
<1>5. /\ map' \in [Ids -> Requests \union {None}]
      /\ \A i \in Ids, g \in Requests : map'[i] = g => map[i] = g
      /\ s = "removed" => \A i \in Ids : map'[i] # h
  <2>1. CASE StopService(h)
    BY <1>1, <2>1, <1>3 DEF IInv, TypeOK, StopService
  <2>2. CASE RemoveEntry(h)
    <3>1. map' = [map EXCEPT ![sid[h]] = None]
      BY <2>2 DEF RemoveEntry, Unmap
    <3> QED
      BY <3>1, RequestsAssumption DEF IInv, TypeOK, Session
  <2> QED
    BY <2>1, <2>2
<1>6. TypeOK'
  <2>1. once' \in [Requests -> CleanupSteps]
    BY <1>1 DEF IInv, TypeOK, CleanupSteps
  <2>2. \A g \in Requests : once'[g] = "free" <=> by'[g] = "nobody"
    BY <1>2, <1>3 DEF IInv, TypeOK
  <2> QED
    BY <1>2, <1>4, <1>5, <2>1, <2>2 DEF IInv, TypeOK, queue, deletion, shutdown
<1>7. \A g \in Requests : Session(g)'
  BY <1>2, <1>3, <1>4, <1>5 DEF IInv, Session, shutdown
<1>8. \A c \in Clients : Deletion(c)'
  BY <1>2, <1>3 DEF IInv, Deletion, deletion
<1>9. (pending = Cardinality(Starting))' /\ Balanced'
  BY <1>2, <1>3, SlotsStay, HubStays DEF deletion
<1> QED
  BY <1>6, <1>7, <1>8, <1>9 DEF IInv

\* The clean-up gives the slot back, and there is one to give.
LEMMA ReleaseKeeps ==
  ASSUME IInv, NEW h \in Requests, Release(h)
  PROVE  IInv'
<1>1. /\ once[h] = "removed" /\ once' = [once EXCEPT ![h] = "done"]
      /\ used' = used - 1
      /\ UNCHANGED <<pending, map, sid, dog, box, pc, by, deletion, todo>>
  BY DEF Release
<1>2. \/ /\ sem > 0 /\ sem' = sem - 1
         /\ released' = [released EXCEPT ![h] = @ + 1]
      \/ sem = 0 /\ sem' = sem /\ released' = released
  BY DEF Release
<1>3. phase' \in {"up", "draining", "sweeping", "down", "killed"}
  BY DEF IInv, TypeOK, Release
<1>4. \A g \in Requests : once'[g] = IF g = h THEN "done" ELSE once[g]
  BY <1>1 DEF IInv, TypeOK
<1>5. TypeOK'
  <2>1. once' \in [Requests -> CleanupSteps]
    BY <1>1 DEF IInv, TypeOK, CleanupSteps
  <2>2. \A g \in Requests : once'[g] = "free" <=> by'[g] = "nobody"
    BY <1>1, <1>4 DEF IInv, TypeOK
  <2>3. sem' \in Nat /\ used' \in Int /\ released' \in [Requests -> Nat]
    BY <1>1, <1>2 DEF IInv, TypeOK
  <2> QED
    BY <1>1, <1>3, <2>1, <2>2, <2>3 DEF IInv, TypeOK, deletion
<1>6. \A g \in Requests : Session(g)'
  BY <1>1, <1>4 DEF IInv, Session
<1>7. \A c \in Clients : Deletion(c)'
  BY <1>1, <1>4 DEF IInv, Deletion, deletion
<1>8. Starting' = Starting
  BY <1>1 DEF Starting
<1>9. ASSUME NoneAtHub'
      PROVE  /\ sem' = Cardinality(Holders')
             /\ used' + pending' = sem'
             /\ \A g \in Requests : released'[g] # 0 <=> once'[g] = "done"
  <2>1. NoneAtHub
    BY <1>1, <1>9, HubStays DEF deletion
  <2>2. h \in Holders /\ sem > 0 /\ released[h] = 0
    BY <1>1, <2>1, OwnsASlot DEF IInv, Session, AfterPut
  <2>3. \A g \in Requests : released'[g] = IF g = h THEN 1 ELSE released[g]
    BY <1>2, <2>2 DEF IInv, TypeOK
  <2>4. Holders' = Holders \ {h}
    BY <1>1, <2>3 DEF Holders, Holds
  <2>5. Cardinality(Holders') = Cardinality(Holders) - 1
    BY <2>2, <2>4, CountsFinite, OneLess
  <2>6. sem' = sem - 1 /\ sem = Cardinality(Holders) /\ used + pending = sem
    BY <1>2, <2>1, <2>2 DEF IInv, Balanced
  <2> QED
    BY <1>1, <1>4, <2>1, <2>3, <2>5, <2>6 DEF IInv, Balanced, TypeOK
<1> QED
  BY <1>1, <1>5, <1>6, <1>7, <1>8, <1>9 DEF IInv, Balanced

(***************************************************************************)
(* DELETE and shutdown.                                                    *)
(***************************************************************************)
LEMMA AskKeeps ==
  ASSUME IInv, NEW c \in Clients, Ask(c) \/ AskHub(c)
  PROVE  IInv'
<1>1. PICK e \in {"playwright", "hub"}, label \in {"asked", "found"} :
        /\ LookUp(c, e) /\ dpc' = [dpc EXCEPT ![c] = label]
        /\ label = "found" => e = "hub"
  BY DEF Ask, AskHub, DeleteGoto
<1>2. /\ dpc[c] = "idle" /\ via' = [via EXCEPT ![c] = e]
      /\ UNCHANGED <<queue, map, sid, dog, box, pc, cleanup, locked, released, shutdown>>
  BY <1>1 DEF LookUp
<1>3. PICK g \in Requests : pc[g] \in AfterPut /\ dsess' = [dsess EXCEPT ![c] = g]
  <2>1. PICK i \in Ids : map[i] # None /\ dsess' = [dsess EXCEPT ![c] = map[i]]
    BY <1>1 DEF LookUp
  <2>2. map[i] \in Requests
    BY <2>1 DEF IInv, TypeOK
  <2> QED
    BY <2>1, <2>2 DEF IInv, Session
<1>4. \A d \in Clients : /\ dpc'[d] = IF d = c THEN label ELSE dpc[d]
                         /\ via'[d] = IF d = c THEN e ELSE via[d]
                         /\ dsess'[d] = IF d = c THEN g ELSE dsess[d]
  BY <1>1, <1>2, <1>3 DEF IInv, TypeOK
<1>5. TypeOK'
  <2>1. /\ dpc' \in [Clients -> Dpcs]
        /\ via' \in [Clients -> {"none", "playwright", "hub"}]
        /\ dsess' \in [Clients -> Requests \union {None}]
    BY <1>1, <1>2, <1>3 DEF IInv, TypeOK, Dpcs, RunningDpcs
  <2> QED
    BY <1>2, <2>1 DEF IInv, TypeOK, queue, cleanup, shutdown
<1>6. \A h \in Requests : Session(h)'
  BY <1>2 DEF IInv, Session, cleanup, shutdown
<1>7. \A d \in Clients : Deletion(d)'
  BY <1>1, <1>2, <1>3, <1>4 DEF IInv, Deletion, cleanup
<1>8. (pending = Cardinality(Starting))' /\ Balanced'
  BY <1>2, <1>4, SlotsStay, HubStays DEF cleanup
<1> QED
  BY <1>5, <1>6, <1>7, <1>8 DEF IInv

\* A DELETE goes on.
LEMMA DeleteKeeps ==
  ASSUME IInv, NEW c \in Clients, TakeCancel(c) \/ Forward(c) \/ Deleted(c)
  PROVE  IInv'
<1>1. PICK label \in {"cancel", "aborted", "done"} :
        /\ dpc' = [dpc EXCEPT ![c] = label]
        /\ label = "done" => once[dsess[c]] = "done"
  BY DEF TakeCancel, Forward, Deleted, DeleteGoto
<1>2. /\ dpc[c] # "idle"
      /\ UNCHANGED <<queue, map, sid, dog, box, pc, cleanup, ask, locked, released, shutdown>>
  BY DEF TakeCancel, Forward, Deleted
<1>3. \A d \in Clients : dpc'[d] = IF d = c THEN label ELSE dpc[d]
  BY <1>1 DEF IInv, TypeOK
<1>4. TypeOK'
  <2>1. dpc' \in [Clients -> Dpcs]
    BY <1>1 DEF IInv, TypeOK, Dpcs, RunningDpcs
  <2> QED
    BY <1>2, <2>1 DEF IInv, TypeOK, queue, cleanup, ask, shutdown
<1>5. \A h \in Requests : Session(h)'
  BY <1>2 DEF IInv, Session, cleanup, shutdown
<1>6. \A d \in Clients : Deletion(d)'
  BY <1>1, <1>2, <1>3 DEF IInv, Deletion, cleanup, ask
<1>7. (pending = Cardinality(Starting))' /\ Balanced'
  BY <1>2, SlotsStay, HubStays DEF cleanup, ask
<1> QED
  BY <1>4, <1>5, <1>6, <1>7 DEF IInv

\* At the hub's endpoint the session is taken out before it is cleaned up.
LEMMA UnregisterKeeps ==
  ASSUME IInv, NEW c \in Clients, Unregister(c)
  PROVE  IInv'
<1> DEFINE h == dsess[c]
<1>1. /\ dpc[c] = "found" /\ via[c] = "hub"
      /\ h \in Requests /\ pc[h] \in AfterPut
  BY DEF Unregister, IInv, Deletion
<1>2. PICK label \in {"forward", "panicked"} : dpc' = [dpc EXCEPT ![c] = label]
  BY DEF Unregister, DeleteGoto
<1>3. /\ dog' = IF dog[h] \in {"new", "armed"}
                  THEN [dog EXCEPT ![h] = "stopped"] ELSE dog
      /\ map' = [map EXCEPT ![sid[h]] = None] /\ used' = used - 1
      /\ UNCHANGED <<pending, sid, box, pc, cleanup, ask, shutdown>>
  BY DEF Unregister, Unmap
<1>4. TypeOK'
  <2>1. dpc' \in [Clients -> Dpcs]
    BY <1>2 DEF IInv, TypeOK, Dpcs, RunningDpcs
  <2>2. sem' \in Nat /\ released' \in [Requests -> Nat] /\ locked' \subseteq Requests
    BY <1>1 DEF IInv, TypeOK, Unregister
  <2>3. dog' \in [Requests -> {"none", "new", "armed", "stopped", "expired"}]
    <3>1. dog' \in {dog, [dog EXCEPT ![h] = "stopped"]}
      BY <1>3
    <3> QED
      BY <3>1 DEF IInv, TypeOK
  <2>4. used' \in Int
    BY <1>3 DEF IInv, TypeOK
  <2>5. map' \in [Ids -> Requests \union {None}]
    BY <1>3 DEF IInv, TypeOK
  <2> QED
    BY <1>3, <2>1, <2>2, <2>3, <2>4, <2>5 DEF IInv, TypeOK, cleanup, ask, shutdown
<1>5. \A g \in Requests : Session(g)'
  <2>1. \A i \in Ids, g \in Requests : map'[i] = g => map[i] = g
    BY <1>3, RequestsAssumption DEF IInv, TypeOK
  <2>2. \A g \in Requests : dog'[g] # "none" => dog[g] # "none"
    BY <1>3 DEF IInv, TypeOK
  <2> QED
    BY <1>3, <2>1, <2>2 DEF IInv, Session, cleanup, shutdown
<1>6. \A d \in Clients : Deletion(d)'
  BY <1>1, <1>2, <1>3 DEF IInv, TypeOK, Deletion, cleanup, ask
<1>7. ~NoneAtHub'
  BY <1>1, <1>3 DEF NoneAtHub, HubDeleted, ask
<1>8. Starting' = Starting
  BY <1>3 DEF Starting
<1> QED
  BY <1>3, <1>4, <1>5, <1>6, <1>7, <1>8 DEF IInv, Balanced

LEMMA ShutdownKeeps ==
  ASSUME IInv, ShutdownStep
  PROVE  IInv'
<1>1. UNCHANGED <<queue, map, sid, dog, box, pc, cleanup, deletion, released>>
  BY DEF ShutdownStep, Signal, Drained, GraceOver, Exit, Swept
<1>2. /\ phase' \in {"up", "draining", "sweeping", "down", "killed"}
      /\ \A h \in todo' : h \in todo \/ (h \in Requests /\ \E i \in Ids : map[i] = h)
  BY DEF ShutdownStep, Signal, Drained, GraceOver, Exit, Swept, IInv, TypeOK
<1>3. TypeOK'
  BY <1>1, <1>2 DEF IInv, TypeOK, queue, cleanup, deletion
<1>4. \A h \in Requests : Session(h)'
  BY <1>1, <1>2 DEF IInv, Session, cleanup
<1>5. \A c \in Clients : Deletion(c)'
  BY <1>1 DEF IInv, Deletion, cleanup, deletion
<1>6. (pending = Cardinality(Starting))' /\ Balanced'
  BY <1>1, SlotsStay, HubStays DEF cleanup, deletion
<1> QED
  BY <1>3, <1>4, <1>5, <1>6 DEF IInv

\* The invariant is inductive.
LEMMA Inductive == IInv /\ [Next]_vars => IInv'
<1> SUFFICES ASSUME IInv, [Next]_vars PROVE IInv'
  OBVIOUS
<1>1. ASSUME NEW h \in Requests, HandlerStep(h) PROVE IInv'
  BY <1>1, EarlyKeeps, LateKeeps, DropKeeps, PutKeeps, CountKeeps DEF HandlerStep
<1>2. ASSUME NEW h \in Requests, CleanupStep(h) PROVE IInv'
  BY <1>2, BeginKeeps, CleanupKeeps, ReleaseKeeps DEF CleanupStep
<1>3. ASSUME NEW c \in Clients, DeleteStep(c) PROVE IInv'
  BY <1>3, DeleteKeeps, UnregisterKeeps DEF DeleteStep
<1>4. CASE UNCHANGED vars
  <2>1. TypeOK' /\ (\A h \in Requests : Session(h)') /\ (\A c \in Clients : Deletion(c)')
    BY <1>4 DEF IInv, TypeOK, Session, Deletion, vars, queue, cleanup, deletion, shutdown
  <2>2. (pending = Cardinality(Starting))' /\ Balanced'
    BY <1>4, SlotsStay, HubStays DEF vars, queue, cleanup, deletion
  <2> QED
    BY <2>1, <2>2 DEF IInv
<1> QED
  BY <1>1, <1>2, <1>3, <1>4, AdmitKeeps, LateKeeps, AskKeeps, ShutdownKeeps DEF Next

THEOREM Invariant == Spec => []IInv
BY Initially, Inductive, PTL DEF Spec

\* Types, for any number of requests and DELETEs: pending and the semaphore
\* never fall below zero, and a clean-up that has begun has somebody who runs it.
THEOREM TypeCorrect == Spec => []TypeOK
<1>1. IInv => TypeOK
  BY DEF IInv
<1> QED
  BY <1>1, Invariant, PTL

\* playwright and its clean-up: by whichever of the failures, disconnections,
\* timers, DELETEs and the sweep a session ends, its slot is released once.
THEOREM SlotsAreBalanced == Spec => []SlotsBalanced
<1>1. IInv => SlotsBalanced
  BY DEF IInv, Balanced, NoneAtHub, SlotsBalanced
<1> QED
  BY <1>1, Invariant, PTL

\* DELETE /playwright/session/<id>: when it has answered, the container has been
\* removed and the map holds nothing of the session.
THEOREM DeletedIsGone == Spec => []DeletedMeansGone
<1>1. IInv => DeletedMeansGone
  BY DEF IInv, Session, Deletion, DeletedMeansGone
<1> QED
  BY <1>1, Invariant, PTL
=============================================================================
