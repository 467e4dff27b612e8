------------------------- MODULE ArtifactHistoryProof -------------------------
(***************************************************************************)
(* Proofs about the artifact history, for any number of sessions, DELETEs  *)
(* and requests that change the settings, any retention times and any      *)
(* number of faults: nothing is orphaned, a capture is kept, the settings  *)
(* survive.                                                                *)
(***************************************************************************)
EXTENDS ArtifactHistory, TLAPS

\* The request that is changing the settings, alone, has written the file.
Saved ==
  /\ ~up => \A a \in Admins : puts[a] = None
  /\ up /\ ~overlap =>
       /\ ~unread /\ (\A a \in Admins : puts[a] = None) => memory = disk
       /\ \A a \in Admins : puts[a] # None =>
            /\ puts[a] = disk
            /\ \A b \in Admins : puts[b] # None => b = a

\* Nobody has captured anything of the session.
Untouched(s) == \A d \in Deletes :
  Of[d] = s => pc[d] \in {"idle", "found", "capture"}

\* What there is of a session that only the DELETE d ends, at each of its
\* steps: the downloads in the directory are those of the capture that waits,
\* and then of the one that the listener goes by; the manifest is whole only
\* when d is over.
Phase(d) == LET s == Of[d] IN
  /\ pc[d] \in {"cancel", "stopped"} =>
       ~Whole(s) /\ (Downloads(s) \in files <=> pending[s] = "captured")
  /\ pc[d] = "writing" =>
       /\ ~Whole(s) /\ took[d] # None
       /\ Downloads(s) \in files <=> took[d] = "captured"
  /\ pc[d] = "over" =>
       /\ Whole(s) /\ Downloads(s) \in files => manifest[s] = "captured"
       /\ s \notin spoilt /\ ~Whole(s) => {Log(s), Downloads(s)} \intersect files = {}

\* A session that is not recorded has nothing, nor has one that nobody ends.
Recorded(s) ==
  /\ state[s] = "new" => ~on[s]
  /\ ~on[s] => {Log(s), Other(s), Downloads(s)} \intersect files = {}
  /\ Other(s) \in files /\ s \notin spoilt => s \in named
  /\ Untouched(s) =>
       /\ {Log(s), Downloads(s)} \intersect files = {}
       /\ pending[s] = None /\ ~Whole(s)
  /\ ~Contested(s) => \A d \in Deletes : Of[d] = s => Phase(d)

Expired(s) == \E d \in Days : Age(s) >= d

Course ==
  janitor # None => (janitor.next = "log" <=> janitor.now = None)

\* What the janitor is about to remove is old, and it removes a manifest only
\* after what that names.
Tidy(s) ==
  janitor # None /\ s \in janitor.todo /\ ~Contested(s) =>
     /\ Whole(s) /\ Expired(s)
     /\ janitor.now = s /\ s \notin spoilt =>
          /\ janitor.next # "log" => Log(s) \notin files
          /\ janitor.next = "manifest" => Downloads(s) \notin files

\* Only the janitor removes a download that is listed.
Kept(s) ==
  ~Contested(s) /\ s \in ListDownloads /\ Downloads(s) \notin files => Expired(s)

Settled(s) == Recorded(s) /\ Tidy(s) /\ Kept(s)

IInv == TypeOK /\ Saved /\ Course /\ \A s \in Sessions : Settled(s)

USE DEF settings, session, artifacts, Goto, Log, Other, Downloads, Fault

(***************************************************************************)
(* Sessions.                                                               *)
(***************************************************************************)
\* A step that changes nothing of a session.
Same(t) ==
  /\ state'[t] = state[t] /\ on'[t] = on[t] /\ (t \in named' <=> t \in named)
  /\ pending'[t] = pending[t] /\ manifest'[t] = manifest[t]
  /\ finished'[t] = finished[t] /\ (t \in spoilt' <=> t \in spoilt)
  /\ Log(t) \in files' <=> Log(t) \in files
  /\ Other(t) \in files' <=> Other(t) \in files
  /\ Downloads(t) \in files' <=> Downloads(t) \in files
  /\ \A d \in Deletes : Of[d] = t => pc'[d] = pc[d] /\ took'[d] = took[d]

LEMMA SameSettled ==
  ASSUME NEW t \in Sessions, Settled(t), Same(t), UNCHANGED <<day, janitor>>
  PROVE  Settled(t)'
<1> USE DEF Same
<1>1. (Contested(t)' <=> Contested(t)) /\ (Untouched(t)' <=> Untouched(t))
  BY DEF Contested, Untouched
<1>2. (Whole(t)' <=> Whole(t)) /\ (Expired(t)' <=> Expired(t))
  BY DEF Whole, Expired, Age
<1>3. \A d \in Deletes : Of[d] = t => (Phase(d)' <=> Phase(d))
  BY <1>2 DEF Phase
<1>4. Recorded(t)'
  BY <1>1, <1>2, <1>3 DEF Settled, Recorded
<1>5. Tidy(t)' /\ Kept(t)'
  BY <1>1, <1>2 DEF Settled, Tidy, Kept, ListDownloads
<1> QED
  BY <1>4, <1>5 DEF Settled

\* A session that a DELETE is ending, alone, has no manifest.
LEMMA NotWhole ==
  ASSUME NEW d \in Deletes, Recorded(Of[d]), ~Contested(Of[d]), pc[d] \in Pcs \ {"idle", "over"}
  PROVE  /\ ~Whole(Of[d])
         /\ pc[d] \in {"found", "capture"} => Untouched(Of[d])
         /\ \A e \in Deletes : Of[e] = Of[d] /\ e # d => pc[e] = "idle"
<1>1. \A e \in Deletes : Of[e] = Of[d] /\ e # d => pc[e] = "idle"
  BY DEF Contested
<1>2. CASE pc[d] \in {"found", "capture"}
  BY <1>1, <1>2 DEF Untouched, Recorded
<1>3. CASE pc[d] \in {"cancel", "stopped", "writing"}
  BY <1>1, <1>3 DEF Recorded, Phase
<1> QED
  BY <1>1, <1>2, <1>3 DEF Pcs

\* A step of a DELETE leaves a session settled that two have found; of one
\* that it ends alone the step itself decides.
LEMMA OwnSettled ==
  ASSUME NEW d \in Deletes, NEW p \in Pcs \ {"idle"}, IInv, Goto(d, p),
         UNCHANGED <<day, janitor>>,
         Recorded(Of[d])',
         ~Contested(Of[d])' => ~Whole(Of[d])
           /\ (Whole(Of[d])' => p = "over"
                 /\ (manifest'[Of[d]] = "captured" => Downloads(Of[d]) \in files'))
  PROVE  Settled(Of[d])'
<1> DEFINE s == Of[d]
<1>1. s \in Sessions /\ Settled(s)
  BY OfAssumption DEF IInv
<1>2. Contested(s) => Contested(s)'
  BY DEF Contested, IInv, TypeOK
<1>3. Tidy(s)'
  BY <1>1, <1>2 DEF Settled, Tidy
<1>4. Kept(s)'
  BY <1>1 DEF Kept, ListDownloads
<1> QED
  BY <1>3, <1>4 DEF Settled

\* In the beginning there is nothing.
LEMMA Initially == Init => IInv
<1> SUFFICES ASSUME Init PROVE IInv
  OBVIOUS
<1> USE NoneAssumption DEF Init
<1>1. Defaults \in Settings
  BY DaysAssumption DEF Defaults, Settings
<1>2. TypeOK
  <2>1. /\ finished \in [Sessions -> Nat] /\ \A s \in Sessions : finished[s] <= day
        /\ day \in 0 .. MaxDay /\ faults \in 0 .. MaxFaults
    BY BoundAssumption
  <2>2. pc \in [Deletes -> Pcs] /\ on \in [Sessions -> BOOLEAN] /\ state \in [Sessions -> States]
    BY DEF Pcs, States
  <2>3. up \in BOOLEAN /\ overlap \in BOOLEAN /\ unread \in BOOLEAN
    OBVIOUS
  <2> QED
    BY <1>1, <2>1, <2>2, <2>3 DEF TypeOK
<1>3. Saved /\ Course
  BY DEF Saved, Course
<1>4. \A s \in Sessions : Settled(s)
  BY DEF Settled, Recorded, Tidy, Kept, Phase, Whole, Statuses, ListDownloads
<1> QED
  BY <1>2, <1>3, <1>4 DEF IInv

(***************************************************************************)
(* The settings.                                                           *)
(***************************************************************************)
\* A change is in the file first; of two at once nothing is said.
LEMMA PutKeeps ==
  ASSUME IInv, NEW a \in Admins, NEW v \in Settings, PutPersist(a, v)
  PROVE  IInv'
<1> USE NoneAssumption DEF PutPersist
<1>1. TypeOK'
  BY DEF IInv, TypeOK
<1>2. Saved'
  BY DEF IInv, TypeOK, Saved
<1>3. Course'
  BY DEF IInv, Course
<1>4. \A t \in Sessions : Settled(t)'
  BY SameSettled DEF IInv, Same
<1> QED
  BY <1>1, <1>2, <1>3, <1>4 DEF IInv

\* Then it is in memory.
LEMMA AssignKeeps ==
  ASSUME IInv, NEW a \in Admins, PutAssign(a)
  PROVE  IInv'
<1> USE NoneAssumption DEF PutAssign
<1>1. TypeOK'
  BY DEF IInv, TypeOK
<1>2. Saved'
  BY DEF IInv, TypeOK, Saved
<1>3. Course'
  BY DEF IInv, Course
<1>4. \A t \in Sessions : Settled(t)'
  BY SameSettled DEF IInv, Same
<1> QED
  BY <1>1, <1>2, <1>3, <1>4 DEF IInv

\* A restart loads the file, or is known not to have.
LEMMA RestartKeeps ==
  ASSUME IInv, Restart
  PROVE  IInv'
<1> USE NoneAssumption DEF Restart, RestartLoads, RestartDefaults
<1>1. TypeOK'
  <2>1. Defaults \in Settings
    BY DaysAssumption DEF Defaults, Settings
  <2>2. memory' = disk \/ memory' = Defaults
    OBVIOUS
  <2>3. memory' \in Settings
    BY <2>1, <2>2 DEF IInv, TypeOK
  <2>4. faults' \in 0 .. MaxFaults
    BY BoundAssumption DEF IInv, TypeOK
  <2> QED
    BY <2>3, <2>4 DEF IInv, TypeOK
<1>2. Saved'
  BY DEF IInv, TypeOK, Saved
<1>3. Course'
  BY DEF IInv, Course
<1>4. \A t \in Sessions : Settled(t)'
  BY SameSettled DEF IInv, Same
<1> QED
  BY <1>1, <1>2, <1>3, <1>4 DEF IInv

(***************************************************************************)
(* A session and its DELETEs.                                              *)
(***************************************************************************)
\* A new session is recorded or not, as the settings say.
LEMMA StartKeeps ==
  ASSUME IInv, NEW s \in Sessions, Start(s)
  PROVE  IInv'
<1> USE NoneAssumption DEF Start
<1>1. TypeOK'
  <2>1. state' \in [Sessions -> States] /\ named' \subseteq Sessions
    BY DEF IInv, TypeOK, States
  <2>2. on' \in [Sessions -> BOOLEAN] /\ faults' \in 0 .. MaxFaults
    BY BoundAssumption DEF IInv, TypeOK, Settings
  <2> QED
    BY <2>1, <2>2 DEF IInv, TypeOK
<1>2. Saved' /\ Course'
  BY DEF IInv, Saved, Course
<1>3. ASSUME NEW t \in Sessions, t # s PROVE Settled(t)'
  <2>1. Same(t)
    BY <1>3 DEF Same, IInv, TypeOK
  <2> QED
    BY <2>1, SameSettled DEF IInv
<1>4. Settled(s)'
  <2>1. Settled(s) /\ state[s] = "new" /\ state'[s] = "running" /\ ~on[s]
    BY DEF IInv, TypeOK, Settled, Recorded
  <2>2. (Contested(s)' <=> Contested(s)) /\ (Untouched(s)' <=> Untouched(s))
    BY DEF Contested, Untouched
  <2>3. Whole(s)' <=> Whole(s)
    BY DEF Whole
  <2>4. \A d \in Deletes : Phase(d)' <=> Phase(d)
    BY DEF Phase, Whole
  <2>5. Recorded(s)'
    BY <2>1, <2>2, <2>3, <2>4 DEF Settled, Recorded
  <2>6. Tidy(s)' /\ Kept(s)'
    BY <2>1, <2>2, <2>3 DEF Settled, Tidy, Kept, ListDownloads, Whole, Expired, Age
  <2> QED
    BY <2>5, <2>6 DEF Settled
<1> QED
  BY <1>1, <1>2, <1>3, <1>4 DEF IInv

\* A session that a DELETE has found is as it was.
LEMMA FindKeeps ==
  ASSUME IInv, NEW d \in Deletes, Find(d)
  PROVE  IInv'
<1> DEFINE s == Of[d]
<1>1. s \in Sessions /\ Recorded(s)
  BY OfAssumption DEF IInv, Settled
<1> USE NoneAssumption DEF Find
<1>2. TypeOK'
  BY DEF IInv, TypeOK, Pcs
<1>3. Saved' /\ Course'
  BY DEF IInv, Saved, Course
<1>4. ASSUME NEW t \in Sessions, t # s PROVE Settled(t)'
  <2>1. Same(t)
    BY <1>1, <1>4 DEF Same, IInv, TypeOK
  <2> QED
    BY <2>1, SameSettled DEF IInv
<1>5. /\ Recorded(s)'
      /\ ~Contested(s)' => ~Whole(s) /\ ~Whole(s)'
  <2>1. pc' = [pc EXCEPT ![d] = "found"] /\ pc[d] = "idle"
    OBVIOUS
  <2>2. (Contested(s) => Contested(s)') /\ (Untouched(s)' <=> Untouched(s))
    BY <2>1 DEF Contested, Untouched, IInv, TypeOK
  <2>3. ~Contested(s)' => Untouched(s)
    BY <2>1 DEF Contested, Untouched, IInv, TypeOK
  <2>4. \A e \in Deletes : Phase(e)' <=> Phase(e)
    BY <2>1 DEF Phase, Whole, IInv, TypeOK
  <2> QED
    BY <1>1, <2>2, <2>3, <2>4 DEF Recorded, Whole
<1>6. Settled(s)'
  BY <1>5, OwnSettled DEF Pcs
<1> QED
  BY <1>2, <1>3, <1>4, <1>6 DEF IInv

\* Nor is anything captured when it is out of the map.
LEMMA RemoveKeeps ==
  ASSUME IInv, NEW d \in Deletes, Remove(d)
  PROVE  IInv'
<1> DEFINE s == Of[d]
<1>1. s \in Sessions /\ Recorded(s)
  BY OfAssumption DEF IInv, Settled
<1> USE NoneAssumption DEF Remove
<1>2. TypeOK'
  BY DEF IInv, TypeOK, Pcs, States
<1>3. Saved' /\ Course'
  BY DEF IInv, Saved, Course
<1>4. ASSUME NEW t \in Sessions, t # s PROVE Settled(t)'
  <2>1. Same(t)
    BY <1>1, <1>4 DEF Same, IInv, TypeOK
  <2> QED
    BY <2>1, SameSettled DEF IInv
<1>5. /\ Recorded(s)'
      /\ ~Contested(s)' => ~Whole(s) /\ ~Whole(s)'
  <2>1. pc' = [pc EXCEPT ![d] = "capture"] /\ pc[d] = "found" /\ state'[s] = "ended"
    BY <1>1 DEF IInv, TypeOK
  <2>2. (Contested(s) <=> Contested(s)') /\ (Untouched(s)' <=> Untouched(s))
    BY <2>1 DEF Contested, Untouched, IInv, TypeOK
  <2>3. ~Contested(s) => ~Whole(s)
    BY <1>1, <2>1, NotWhole DEF Pcs
  <2>4. \A e \in Deletes : Phase(e)' <=> Phase(e)
    BY <2>1 DEF Phase, Whole, IInv, TypeOK
  <2> QED
    BY <1>1, <2>1, <2>2, <2>3, <2>4 DEF Recorded, Whole
<1>6. Settled(s)'
  BY <1>5, OwnSettled DEF Pcs
<1> QED
  BY <1>2, <1>3, <1>4, <1>6 DEF IInv

\* The directory and the capture agree.
LEMMA CaptureKeeps ==
  ASSUME IInv, NEW d \in Deletes, CaptureDownloadsForSession(d)
  PROVE  IInv'
<1> DEFINE s == Of[d]
<1>1. s \in Sessions /\ Recorded(s)
  BY OfAssumption DEF IInv, Settled
<1> USE NoneAssumption
<1>2. /\ pc[d] = "capture" /\ pc' = [pc EXCEPT ![d] = "cancel"]
      /\ \/ UNCHANGED <<files, pending>>
         \/ /\ on[s]
            /\ \E status \in Statuses :
                 Copied(s, status) /\ pending' = [pending EXCEPT ![s] = status]
      /\ faults' \in 0 .. MaxFaults
      /\ UNCHANGED <<up, day, settings, session, took, manifest, finished, janitor, spoilt>>
  BY BoundAssumption DEF CaptureDownloadsForSession, Statuses, IInv, TypeOK
<1>3. /\ files' \subseteq files \union {Downloads(s)}
      /\ files \subseteq files' \union {Downloads(s)}
      /\ \A t \in Sessions \ {s} : pending'[t] = pending[t]
      /\ pending' \in [Sessions -> Statuses \union {None}]
      /\ \/ UNCHANGED <<files, pending>>
         \/ on[s] /\ (Downloads(s) \in files' <=> pending'[s] = "captured")
  <2> DEFINE G == /\ files' \subseteq files \union {Downloads(s)}
                  /\ files \subseteq files' \union {Downloads(s)}
                  /\ \A t \in Sessions \ {s} : pending'[t] = pending[t]
                  /\ pending' \in [Sessions -> Statuses \union {None}]
                  /\ \/ UNCHANGED <<files, pending>>
                     \/ on[s] /\ (Downloads(s) \in files' <=> pending'[s] = "captured")
  <2>1. CASE UNCHANGED <<files, pending>>
    BY <2>1 DEF IInv, TypeOK
  <2>2. ASSUME NEW status \in Statuses, on[s], Copied(s, status),
               pending' = [pending EXCEPT ![s] = status]
        PROVE  G
    <3>1. pending'[s] = status
      BY <1>1, <2>2 DEF IInv, TypeOK
    <3>2. Downloads(s) \in files' <=> status = "captured"
      BY <2>2 DEF Copied
    <3>3. pending' \in [Sessions -> Statuses \union {None}]
      BY <2>2 DEF IInv, TypeOK
    <3>4. \A t \in Sessions \ {s} : pending'[t] = pending[t]
      BY <2>2 DEF IInv, TypeOK
    <3>5. /\ files' \subseteq files \union {Downloads(s)}
          /\ files \subseteq files' \union {Downloads(s)}
      BY <2>2 DEF Copied
    <3> QED
      BY <2>2, <3>1, <3>2, <3>3, <3>4, <3>5
  <2> QED
    BY <1>2, <2>1, <2>2
<1>4. TypeOK'
  <2>1. pc' \in [Deletes -> Pcs]
    BY <1>2 DEF IInv, TypeOK, Pcs
  <2>2. files' \subseteq {"log", "other", "downloads"} \X Sessions
    BY <1>1, <1>3 DEF IInv, TypeOK
  <2> QED
    BY <1>2, <1>3, <2>1, <2>2 DEF IInv, TypeOK
<1>5. Saved' /\ Course'
  BY <1>2 DEF IInv, Saved, Course
<1>6. ASSUME NEW t \in Sessions, t # s PROVE Settled(t)'
  <2>1. Same(t)
    BY <1>2, <1>3, <1>6 DEF Same, IInv, TypeOK
  <2> QED
    BY <1>2, <2>1, SameSettled DEF IInv
<1>7. /\ Recorded(s)'
      /\ ~Contested(s)' => ~Whole(s) /\ ~Whole(s)'
  <2>1. (Contested(s) <=> Contested(s)') /\ ~Untouched(s)' /\ (Whole(s)' <=> Whole(s))
    BY <1>2 DEF Contested, Untouched, Whole, IInv, TypeOK
  <2>2. ASSUME ~Contested(s) PROVE ~Whole(s) /\ \A e \in Deletes : Of[e] = s => Phase(e)'
    <3>1. /\ ~Whole(s) /\ Untouched(s)
          /\ \A e \in Deletes : Of[e] = s /\ e # d => pc[e] = "idle"
      BY <1>1, <1>2, <2>2, NotWhole DEF Pcs
    <3>2. Downloads(s) \notin files /\ pending[s] = None
      BY <1>1, <3>1 DEF Recorded
    <3>3. Downloads(s) \in files' <=> pending'[s] = "captured"
      BY <1>3, <3>2 DEF Statuses
    <3>4. \A e \in Deletes : Of[e] = s => pc'[e] \in {"idle", "cancel"}
      BY <1>2, <3>1 DEF IInv, TypeOK
    <3> QED
      BY <2>1, <3>1, <3>3, <3>4 DEF Phase
  <2>3. ~on'[s] => Downloads(s) \notin files'
    BY <1>1, <1>2, <1>3 DEF Recorded
  <2> QED
    BY <1>1, <1>2, <1>3, <2>1, <2>2, <2>3 DEF Recorded
<1>8. Settled(s)'
  BY <1>2, <1>7, OwnSettled DEF Pcs
<1> QED
  BY <1>4, <1>5, <1>6, <1>8 DEF IInv

\* A log is under the name that the manifest has, or under another one that
\* is the client's or could not be given.
LEMMA CancelKeeps ==
  ASSUME IInv, NEW d \in Deletes, Cancel(d)
  PROVE  IInv'
<1> DEFINE s == Of[d]
<1>1. s \in Sessions /\ Recorded(s)
  BY OfAssumption DEF IInv, Settled
<1> USE NoneAssumption
<1>2. /\ pc[d] = "cancel" /\ pc' = [pc EXCEPT ![d] = "stopped"]
      /\ files' \subseteq files \union {Log(s), Other(s)} /\ files \subseteq files'
      /\ files' # files => on[s]
      /\ spoilt \subseteq spoilt' /\ spoilt' \subseteq spoilt \union {s}
      /\ Other(s) \in files' => Other(s) \in files \/ s \in named \/ s \in spoilt'
      /\ faults' \in 0 .. MaxFaults
      /\ UNCHANGED <<up, day, settings, session, pending, took, manifest, finished, janitor>>
  BY BoundAssumption DEF Cancel, SavedLog, UnmovedLog, IInv, TypeOK
<1>3. TypeOK'
  <2>1. pc' \in [Deletes -> Pcs] /\ spoilt' \subseteq Sessions
    BY <1>1, <1>2 DEF IInv, TypeOK, Pcs
  <2>2. files' \subseteq {"log", "other", "downloads"} \X Sessions
    BY <1>1, <1>2 DEF IInv, TypeOK
  <2> QED
    BY <1>2, <2>1, <2>2 DEF IInv, TypeOK
<1>4. Saved' /\ Course'
  BY <1>2 DEF IInv, Saved, Course
<1>5. ASSUME NEW t \in Sessions, t # s PROVE Settled(t)'
  <2>1. Same(t)
    BY <1>2, <1>5 DEF Same, IInv, TypeOK
  <2> QED
    BY <1>2, <2>1, SameSettled DEF IInv
<1>6. /\ Recorded(s)'
      /\ ~Contested(s)' => ~Whole(s) /\ ~Whole(s)'
  <2>1. (Contested(s) <=> Contested(s)') /\ ~Untouched(s)' /\ (Whole(s)' <=> Whole(s))
    BY <1>2 DEF Contested, Untouched, Whole, IInv, TypeOK
  <2>2. ASSUME ~Contested(s) PROVE ~Whole(s) /\ \A e \in Deletes : Of[e] = s => Phase(e)'
    <3>1. /\ ~Whole(s) /\ Phase(d)
          /\ \A e \in Deletes : Of[e] = s /\ e # d => pc[e] = "idle"
      BY <1>1, <1>2, <2>2, NotWhole DEF Pcs, Recorded
    <3>2. Downloads(s) \in files' <=> Downloads(s) \in files
      BY <1>2
    <3>3. \A e \in Deletes : Of[e] = s => pc'[e] \in {"idle", "stopped"}
      BY <1>2, <3>1 DEF IInv, TypeOK
    <3> QED
      BY <1>2, <2>1, <3>1, <3>2, <3>3 DEF Phase
  <2> QED
    BY <1>1, <1>2, <2>1, <2>2 DEF Recorded
<1>7. Settled(s)'
  BY <1>2, <1>6, OwnSettled DEF Pcs
<1> QED
  BY <1>3, <1>4, <1>5, <1>7 DEF IInv

\* The listener copies only where nothing was captured.
LEMMA StoppedKeeps ==
  ASSUME IInv, NEW d \in Deletes, OnSessionStopped(d)
  PROVE  IInv'
<1> DEFINE s == Of[d]
<1>1. s \in Sessions /\ Recorded(s)
  BY OfAssumption DEF IInv, Settled
<1> USE NoneAssumption
<1> DEFINE Skipped ==
             /\ ~on[s] /\ pc' = [pc EXCEPT ![d] = "over"]
             /\ UNCHANGED <<faults, pending, took, files, manifest, finished, spoilt>>
           Failed ==
             /\ on[s] /\ pc' = [pc EXCEPT ![d] = "over"]
             /\ faults' \in 0 .. MaxFaults /\ spoilt' = spoilt \union {s}
             /\ UNCHANGED <<pending, took, files, manifest, finished>>
           Listed(status) ==
             /\ on[s] /\ pc' = [pc EXCEPT ![d] = "writing"]
             /\ took' = [took EXCEPT ![d] = status]
             /\ \/ pending[s] = status /\ files' = files
                \/ /\ pending[s] = None /\ status = "nothing"
                   /\ files' = files \ {Downloads(s)}
             /\ pending' = [pending EXCEPT ![s] = None]
             /\ manifest' = [manifest EXCEPT ![s] = "torn"]
             /\ finished' = [finished EXCEPT ![s] = day]
             /\ UNCHANGED <<faults, spoilt>>
<1>2. /\ pc[d] = "stopped" /\ UNCHANGED <<up, day, settings, session, janitor>>
      /\ Skipped \/ Failed \/ \E status \in Statuses : Listed(status)
  <2> USE DEF OnSessionStopped
  <2>1. CASE Skip(d) /\ UNCHANGED <<up, day, settings, session, janitor>>
    BY <2>1 DEF Skip
  <2>2. CASE pending[s] # None /\ Record(d, pending[s]) /\ UNCHANGED files
    <3>1. pending[s] \in Statuses
      BY <1>1, <2>2 DEF IInv, TypeOK
    <3>2. Listed(pending[s])
      BY <2>2 DEF Record
    <3> QED
      BY <3>1, <3>2
  <2>3. CASE pending[s] = None /\ Record(d, "nothing") /\ Copied(s, "nothing")
    <3>1. Listed("nothing")
      BY <2>3 DEF Record, Copied
    <3> QED
      BY <3>1 DEF Statuses
  <2>4. CASE /\ on[s] /\ Fault /\ pc' = [pc EXCEPT ![d] = "over"]
             /\ spoilt' = spoilt \union {s}
             /\ UNCHANGED <<pending, took, files, manifest, finished>>
    BY <2>4, BoundAssumption DEF IInv, TypeOK
  <2> QED
    BY <2>1, <2>2, <2>3, <2>4
<1>3. TypeOK'
  <2>1. pc' \in [Deletes -> Pcs] /\ pending' \in [Sessions -> Statuses \union {None}]
        /\ took' \in [Deletes -> Statuses \union {None}]
    BY <1>1, <1>2 DEF IInv, TypeOK, Pcs
  <2>2. files' \subseteq files /\ spoilt' \subseteq Sessions
    BY <1>1, <1>2 DEF IInv, TypeOK
  <2>3. manifest' \in [Sessions -> Statuses \union {"torn", None}]
    BY <1>2 DEF IInv, TypeOK
  <2>4. finished' \in [Sessions -> Nat] /\ \A t \in Sessions : finished'[t] <= day
    BY <1>2 DEF IInv, TypeOK
  <2>5. faults' \in 0 .. MaxFaults
    BY <1>2 DEF IInv, TypeOK
  <2> QED
    BY <1>2, <2>1, <2>2, <2>3, <2>4, <2>5 DEF IInv, TypeOK
<1>4. Saved' /\ Course'
  BY <1>2 DEF IInv, Saved, Course
<1>5. ASSUME NEW t \in Sessions, t # s PROVE Settled(t)'
  <2>1. Same(t)
    BY <1>1, <1>2, <1>5 DEF Same, IInv, TypeOK
  <2> QED
    BY <1>2, <2>1, SameSettled DEF IInv
<1>6. /\ Recorded(s)'
      /\ ~Contested(s)' => ~Whole(s) /\ ~Whole(s)'
  <2>1. (Contested(s) <=> Contested(s)') /\ ~Untouched(s)' /\ (Whole(s)' => Whole(s))
    BY <1>1, <1>2 DEF Contested, Untouched, Whole, Statuses, IInv, TypeOK
  <2>2. ASSUME ~Contested(s) PROVE ~Whole(s) /\ \A e \in Deletes : Of[e] = s => Phase(e)'
    <3>1. /\ ~Whole(s) /\ Phase(d)
          /\ \A e \in Deletes : Of[e] = s /\ e # d => pc[e] = "idle"
      BY <1>1, <1>2, <2>2, NotWhole DEF Pcs, Recorded
    <3>2. Downloads(s) \in files <=> pending[s] = "captured"
      BY <1>2, <3>1 DEF Phase
    <3>3. CASE pc'[d] = "over"
      <4>1. s \notin spoilt' => {Log(s), Downloads(s)} \intersect files' = {}
        BY <1>1, <1>2, <3>3 DEF Recorded, IInv, TypeOK
      <4>2. \A e \in Deletes : Of[e] = s => pc'[e] \in {"idle", "over"}
        BY <1>2, <3>1, <3>3 DEF IInv, TypeOK
      <4> QED
        BY <2>1, <3>1, <4>1, <4>2 DEF Phase
    <3>4. CASE pc'[d] = "writing"
      <4>1. took'[d] # None /\ (Downloads(s) \in files' <=> took'[d] = "captured")
        BY <1>2, <3>2, <3>4 DEF IInv, TypeOK, Statuses
      <4>2. \A e \in Deletes : Of[e] = s => pc'[e] = "idle" \/ (e = d /\ pc'[e] = "writing")
        BY <1>2, <3>1, <3>4 DEF IInv, TypeOK
      <4> QED
        BY <2>1, <3>1, <4>1, <4>2 DEF Phase
    <3> QED
      BY <1>2, <3>1, <3>3, <3>4 DEF IInv, TypeOK
  <2>3. files' \subseteq files /\ spoilt \subseteq spoilt' /\ UNCHANGED session
    BY <1>2
  <2> QED
    BY <1>1, <2>1, <2>2, <2>3 DEF Recorded
<1>7. PICK p \in Pcs \ {"idle"} : pc' = [pc EXCEPT ![d] = p]
  BY <1>2 DEF Pcs
<1>8. Settled(s)'
  BY <1>2, <1>6, <1>7, OwnSettled
<1> QED
  BY <1>3, <1>4, <1>5, <1>8 DEF IInv

\* The manifest says what was captured.
LEMMA ManifestKeeps ==
  ASSUME IInv, NEW d \in Deletes, WriteManifest(d)
  PROVE  IInv'
<1> DEFINE s == Of[d]
<1>1. s \in Sessions /\ Recorded(s)
  BY OfAssumption DEF IInv, Settled
<1> USE NoneAssumption
<1>2. /\ pc[d] = "writing" /\ pc' = [pc EXCEPT ![d] = "over"]
      /\ took' = [took EXCEPT ![d] = None]
      /\ UNCHANGED <<up, day, settings, session, pending, files, finished, janitor>>
      /\ \/ /\ manifest' = [manifest EXCEPT ![s] = took[d]]
            /\ UNCHANGED <<faults, spoilt>>
         \/ /\ \E e \in Deletes \ {d} : Of[e] = s /\ pc[e] = "writing"
            /\ UNCHANGED <<faults, spoilt, manifest>>
         \/ /\ faults' \in 0 .. MaxFaults
            /\ spoilt' = spoilt \union {s} /\ UNCHANGED manifest
  BY BoundAssumption DEF WriteManifest, IInv, TypeOK
<1>3. TypeOK'
  <2>1. pc' \in [Deletes -> Pcs] /\ took' \in [Deletes -> Statuses \union {None}]
    BY <1>2 DEF IInv, TypeOK, Pcs
  <2>2. manifest' \in [Sessions -> Statuses \union {"torn", None}]
    BY <1>1, <1>2 DEF IInv, TypeOK
  <2>3. faults' \in 0 .. MaxFaults /\ spoilt' \subseteq Sessions
    BY <1>1, <1>2 DEF IInv, TypeOK
  <2> QED
    BY <1>2, <2>1, <2>2, <2>3 DEF IInv, TypeOK
<1>4. Saved' /\ Course'
  BY <1>2 DEF IInv, Saved, Course
<1>5. ASSUME NEW t \in Sessions, t # s PROVE Settled(t)'
  <2>1. Same(t)
    BY <1>1, <1>2, <1>5 DEF Same, IInv, TypeOK
  <2> QED
    BY <1>2, <2>1, SameSettled DEF IInv
<1>6. /\ Recorded(s)'
      /\ ~Contested(s)' => ~Whole(s)
           /\ (manifest'[s] = "captured" => Downloads(s) \in files')
  <2>1. (Contested(s) <=> Contested(s)') /\ ~Untouched(s)'
    BY <1>1, <1>2 DEF Contested, Untouched, IInv, TypeOK
  <2>2. ASSUME ~Contested(s)
        PROVE  /\ ~Whole(s)
               /\ manifest'[s] = "captured" => Downloads(s) \in files'
               /\ \A e \in Deletes : Of[e] = s => Phase(e)'
    <3>1. /\ ~Whole(s) /\ Phase(d)
          /\ \A e \in Deletes : Of[e] = s /\ e # d => pc[e] = "idle"
      BY <1>1, <1>2, <2>2, NotWhole DEF Pcs, Recorded
    <3>2. Downloads(s) \in files' <=> took[d] = "captured"
      BY <1>2, <3>1 DEF Phase
    <3>3. \A e \in Deletes : Of[e] = s => pc'[e] \in {"idle", "over"}
      BY <1>2, <3>1 DEF IInv, TypeOK
    <3>4. manifest'[s] = took[d] \/ (s \in spoilt' /\ manifest'[s] = manifest[s])
      BY <1>1, <1>2, <3>1 DEF IInv, TypeOK
    <3>5. Whole(s)' => manifest'[s] = took[d]
      BY <3>1, <3>4 DEF Whole
    <3>6. s \notin spoilt' /\ ~Whole(s)' => took[d] = None
      BY <3>4 DEF Whole, IInv, TypeOK
    <3>7. Downloads(s) \in files' => took[d] = "captured"
      BY <3>2
    <3>8. s \in spoilt' \/ Whole(s)'
      BY <1>2, <3>1, <3>6 DEF Phase
    <3>9. manifest'[s] = "captured" => took[d] = "captured"
      BY <3>1, <3>4 DEF Whole, Statuses
    <3>10. \A e \in Deletes : Of[e] = s => Phase(e)'
      BY <3>3, <3>5, <3>7, <3>8 DEF Phase
    <3> QED
      BY <3>1, <3>2, <3>9, <3>10
  <2>3. spoilt \subseteq spoilt' /\ UNCHANGED <<files, session>>
    BY <1>2
  <2> QED
    BY <1>1, <2>1, <2>2, <2>3 DEF Recorded
<1>7. Settled(s)'
  BY <1>2, <1>6, OwnSettled DEF Pcs
<1> QED
  BY <1>3, <1>4, <1>5, <1>7 DEF IInv

(***************************************************************************)
(* The janitor.                                                            *)
(***************************************************************************)
\* The janitor takes what is old.
LEMMA CleanupKeeps ==
  ASSUME IInv, RunCleanupOnce
  PROVE  IInv'
<1> USE NoneAssumption DEF RunCleanupOnce
<1>1. /\ janitor'.next = "log" /\ janitor'.now = None
      /\ \A s \in janitor'.todo : s \in Sessions /\ Whole(s) /\ Expired(s)
      /\ janitor' \in [todo : SUBSET Sessions, now : Sessions \union {None},
                       next : {"log", "downloads", "manifest"}]
  <2>1. memory.days \in Days
    BY DEF IInv, TypeOK, Settings
  <2> QED
    BY <2>1 DEF Expired
<1>2. TypeOK'
  BY <1>1 DEF IInv, TypeOK
<1>3. Saved' /\ Course'
  BY <1>1 DEF IInv, Saved, Course
<1>4. ASSUME NEW t \in Sessions PROVE Settled(t)'
  <2>1. Settled(t)
    BY DEF IInv
  <2>2. Recorded(t)'
    BY <2>1 DEF Settled, Recorded, Untouched, Contested, Phase, Whole
  <2>3. Kept(t)'
    BY <2>1 DEF Settled, Kept, Contested, ListDownloads, Whole, Expired, Age
  <2>4. Tidy(t)'
    BY <1>1 DEF Tidy, Whole, Expired, Age
  <2> QED
    BY <2>2, <2>3, <2>4 DEF Settled
<1> QED
  BY <1>2, <1>3, <1>4 DEF IInv

\* It removes the manifest last.
LEMMA RemovalKeeps ==
  ASSUME IInv, NEW s \in Sessions, Removal(s)
  PROVE  IInv'
<1> USE NoneAssumption
<1>1. /\ janitor # None /\ s \in janitor.todo /\ janitor.now \in {s, None}
      /\ janitor.next \in {"log", "downloads", "manifest"}
      /\ UNCHANGED <<up, day, settings, session, pc, pending, took, finished>>
      /\ faults' \in 0 .. MaxFaults
      /\ spoilt \subseteq spoilt' /\ spoilt' \subseteq spoilt \union {s}
      /\ \/ /\ files' = files \ {<<janitor.next, s>>}
            /\ manifest' = IF janitor.next = "manifest"
                           THEN [manifest EXCEPT ![s] = None] ELSE manifest
            /\ UNCHANGED spoilt
         \/ /\ UNCHANGED <<files, manifest>>
            /\ janitor.next # "manifest" => s \in spoilt'
  BY BoundAssumption DEF Removal, Turn, Unlink, IInv, TypeOK
<1>2. \/ /\ janitor.next # "manifest"
         /\ janitor' = [janitor EXCEPT !.now = s, !.next = After(janitor.next)]
      \/ /\ janitor.next = "manifest"
         /\ \/ janitor' = None
            \/ janitor' = [todo |-> janitor.todo \ {s}, now |-> None, next |-> "log"]
  BY DEF Removal, Onward
<1>3. janitor \in [todo : SUBSET Sessions, now : Sessions \union {None},
                  next : {"log", "downloads", "manifest"}]
  BY <1>1 DEF IInv, TypeOK
<1>4. /\ janitor.next # "manifest" =>
           /\ janitor'.todo = janitor.todo /\ janitor'.now = s
           /\ janitor'.next = After(janitor.next)
      /\ janitor' \in {None} \union
           [todo : SUBSET Sessions, now : Sessions \union {None},
            next : {"log", "downloads", "manifest"}]
  <2>1. CASE janitor.next # "manifest"
    <3>1. After(janitor.next) \in {"log", "downloads", "manifest"}
      BY DEF After
    <3>2. janitor' = [janitor EXCEPT !.now = s, !.next = After(janitor.next)]
      BY <1>2, <2>1
    <3> QED
      BY <1>3, <3>1, <3>2
  <2>2. CASE janitor.next = "manifest"
    BY <1>2, <1>3, <2>2
  <2> QED
    BY <2>1, <2>2
<1>5. TypeOK'
  <2>1. files' \subseteq files /\ spoilt' \subseteq Sessions
    BY <1>1 DEF IInv, TypeOK
  <2>2. manifest' \in [Sessions -> Statuses \union {"torn", None}]
    BY <1>1 DEF IInv, TypeOK
  <2> QED
    BY <1>1, <1>4, <2>1, <2>2 DEF IInv, TypeOK
<1>6. Saved'
  BY <1>1 DEF IInv, Saved
<1>7. Course'
  BY <1>2, <1>4 DEF Course, After
<1>8. \A t \in Sessions : /\ Contested(t)' <=> Contested(t)
                          /\ Untouched(t)' <=> Untouched(t)
                          /\ Expired(t)' <=> Expired(t)
  BY <1>1 DEF Contested, Untouched, Expired, Age
<1>9. ASSUME NEW t \in Sessions, t # s PROVE Settled(t)'
  <2>1. Settled(t)
    BY DEF IInv
  <2>2. /\ manifest'[t] = manifest[t] /\ (t \in spoilt' <=> t \in spoilt)
        /\ Log(t) \in files' <=> Log(t) \in files
        /\ Other(t) \in files' <=> Other(t) \in files
        /\ Downloads(t) \in files' <=> Downloads(t) \in files
    BY <1>1, <1>9 DEF IInv, TypeOK
  <2>3. Whole(t)' <=> Whole(t)
    BY <2>2 DEF Whole
  <2>4. \A d \in Deletes : Of[d] = t => (Phase(d)' <=> Phase(d))
    BY <1>1, <2>2, <2>3 DEF Phase
  <2>5. Recorded(t)'
    BY <1>1, <1>8, <2>1, <2>2, <2>3, <2>4 DEF Settled, Recorded
  <2>6. Kept(t)'
    BY <1>8, <2>1, <2>2, <2>3 DEF Settled, Kept, ListDownloads
  <2>7. Tidy(t)'
    <3> SUFFICES ASSUME janitor' # None, t \in janitor'.todo, ~Contested(t)'
                 PROVE  Whole(t)' /\ Expired(t)' /\ janitor'.now # t
      BY DEF Tidy
    <3>1. t \in janitor.todo /\ janitor'.now # t
      BY <1>2, <1>4, <1>9
    <3> QED
      BY <1>1, <1>8, <2>1, <2>3, <3>1 DEF Settled, Tidy
  <2> QED
    BY <2>5, <2>6, <2>7 DEF Settled
<1>10. Settled(s)'
  <2>1. Settled(s)
    BY DEF IInv
  <2>2. files' \subseteq files /\ (Whole(s)' => Whole(s) /\ manifest'[s] = manifest[s])
    BY <1>1 DEF IInv, TypeOK, Whole, Statuses
  <2>3. ASSUME ~Contested(s)
        PROVE  /\ Whole(s) /\ Expired(s)
               /\ janitor.next # "log" /\ s \notin spoilt => Log(s) \notin files
               /\ janitor.next = "manifest" /\ s \notin spoilt => Downloads(s) \notin files
    BY <1>1, <2>1, <2>3 DEF Settled, Tidy, Course, IInv
  <2>4. ASSUME ~Contested(s), janitor.next # "manifest" PROVE Whole(s)'
    BY <1>1, <2>3, <2>4 DEF Whole
  <2>5. ASSUME NEW d \in Deletes, Of[d] = s, ~Contested(s) PROVE Phase(d)'
    <3>1. Phase(d) /\ Whole(s)
      BY <2>1, <2>3, <2>5 DEF Settled, Recorded
    <3>2. pc'[d] \notin {"cancel", "stopped", "writing"}
      BY <1>1, <2>5, <3>1 DEF Phase
    <3>3. pc'[d] = "over" /\ Whole(s)' /\ Downloads(s) \in files'
            => manifest'[s] = "captured"
      BY <1>1, <2>2, <2>5, <3>1 DEF Phase
    <3>4. s \notin spoilt' /\ ~Whole(s)' => {Log(s), Downloads(s)} \intersect files' = {}
      BY <1>1, <2>2, <2>3, <2>4, <2>5
    <3> QED
      BY <2>5, <3>2, <3>3, <3>4 DEF Phase
  <2>6. Recorded(s)'
    <3>1. /\ state'[s] = "new" => ~on'[s]
          /\ ~on'[s] => {Log(s), Other(s), Downloads(s)} \intersect files' = {}
          /\ Other(s) \in files' /\ s \notin spoilt' => s \in named'
      BY <1>1, <2>1, <2>2 DEF Settled, Recorded
    <3>2. Untouched(s)' =>
            /\ {Log(s), Downloads(s)} \intersect files' = {}
            /\ pending'[s] = None /\ ~Whole(s)'
      BY <1>1, <1>8, <2>1, <2>2 DEF Settled, Recorded
    <3> QED
      BY <1>8, <2>5, <3>1, <3>2 DEF Recorded
  <2>7. Kept(s)'
    BY <1>8, <2>3 DEF Kept
  <2>8. Tidy(s)'
    <3> SUFFICES ASSUME janitor' # None, s \in janitor'.todo, ~Contested(s)'
                 PROVE  /\ Whole(s)' /\ Expired(s)'
                        /\ s \notin spoilt' =>
                             /\ janitor'.next # "log" => Log(s) \notin files'
                             /\ janitor'.next = "manifest" => Downloads(s) \notin files'
      BY DEF Tidy
    <3>1. janitor.next # "manifest" /\ janitor'.next = After(janitor.next)
      BY <1>2, <1>4
    <3>2. s \notin spoilt' =>
            /\ Log(s) \notin files'
            /\ janitor.next = "downloads" => Downloads(s) \notin files'
      BY <1>1, <1>8, <2>2, <2>3, <3>1
    <3> QED
      BY <1>1, <1>8, <2>3, <2>4, <3>1, <3>2 DEF After
  <2> QED
    BY <2>6, <2>7, <2>8 DEF Settled
<1> QED
  BY <1>5, <1>6, <1>7, <1>9, <1>10 DEF IInv

(***************************************************************************)
(* Time and crash.                                                         *)
(***************************************************************************)
\* Old sessions stay old.
LEMMA DayKeeps ==
  ASSUME IInv, NextDay
  PROVE  IInv'
<1> USE NoneAssumption DEF NextDay
<1>1. TypeOK'
  BY BoundAssumption DEF IInv, TypeOK
<1>2. Saved' /\ Course'
  BY DEF IInv, Saved, Course
<1>3. ASSUME NEW t \in Sessions, Expired(t) PROVE Expired(t)'
  BY <1>3, DaysAssumption DEF IInv, TypeOK, Expired, Age
<1>4. ASSUME NEW t \in Sessions PROVE Settled(t)'
  <2>1. Settled(t)
    BY DEF IInv
  <2>2. Recorded(t)'
    BY <2>1 DEF Settled, Recorded, Untouched, Contested, Phase, Whole
  <2>3. Kept(t)' /\ Tidy(t)'
    BY <1>3, <2>1 DEF Settled, Kept, Tidy, Contested, ListDownloads, Whole
  <2> QED
    BY <2>2, <2>3 DEF Settled
<1> QED
  BY <1>1, <1>2, <1>4 DEF IInv

\* A session that is cut off is spoilt.
LEMMA CrashKeeps ==
  ASSUME IInv, Crash
  PROVE  IInv'
<1> USE NoneAssumption DEF Crash
<1>1. /\ \A d \in Deletes : pc'[d] = IF pc[d] = "idle" THEN "idle" ELSE "over"
      /\ \A s \in Sessions : pending'[s] = None
      /\ spoilt \subseteq spoilt' /\ \A s \in Sessions : Under(s) => s \in spoilt'
      /\ \A s \in Sessions : state'[s] = "new" => state[s] = "new"
  BY DEF Ongoing
<1>2. TypeOK'
  <2>1. pc' \in [Deletes -> Pcs] /\ pending' \in [Sessions -> Statuses \union {None}]
        /\ took' \in [Deletes -> Statuses \union {None}]
    BY DEF IInv, TypeOK, Pcs
  <2>2. faults' \in 0 .. MaxFaults /\ spoilt' \subseteq Sessions
    BY BoundAssumption DEF IInv, TypeOK, Ongoing
  <2>3. puts' \in [Admins -> Settings \union {None}]
    OBVIOUS
  <2>4. state' \in [Sessions -> States]
    BY DEF IInv, TypeOK, States
  <2> QED
    BY <2>1, <2>2, <2>3, <2>4 DEF IInv, TypeOK
<1>3. Saved' /\ Course'
  BY DEF IInv, Saved, Course
<1>4. ASSUME NEW t \in Sessions PROVE Settled(t)'
  <2>1. Settled(t)
    BY DEF IInv
  <2>2. (Contested(t)' <=> Contested(t)) /\ (Untouched(t)' => Untouched(t))
    BY <1>1 DEF Contested, Untouched
  <2>3. Whole(t)' <=> Whole(t)
    BY DEF Whole
  <2>4. ASSUME NEW d \in Deletes, Of[d] = t, ~Contested(t) PROVE Phase(d)'
    <3>1. CASE pc[d] = "idle"
      BY <1>1, <2>4, <3>1 DEF Phase
    <3>2. CASE pc[d] = "over"
      BY <1>1, <2>1, <2>3, <2>4, <3>2 DEF Settled, Recorded, Phase
    <3>3. CASE pc[d] \notin {"idle", "over"}
      <4>1. t \in spoilt' /\ pc'[d] = "over"
        BY <1>1, <2>4, <3>3 DEF Under
      <4>2. ~Whole(t)
        BY <2>1, <2>4, <3>3, NotWhole DEF Settled, IInv, TypeOK
      <4> QED
        BY <2>3, <2>4, <4>1, <4>2 DEF Phase
    <3> QED
      BY <3>1, <3>2, <3>3
  <2>5. Recorded(t)'
    BY <1>1, <2>1, <2>2, <2>3, <2>4 DEF Settled, Recorded
  <2>6. Kept(t)' /\ Tidy(t)'
    BY <2>1, <2>2, <2>3 DEF Settled, Kept, Tidy, ListDownloads, Expired, Age
  <2> QED
    BY <2>5, <2>6 DEF Settled
<1> QED
  BY <1>2, <1>3, <1>4 DEF IInv

(***************************************************************************)
(* The theorems.                                                           *)
(***************************************************************************)
\* The invariant is inductive.
LEMMA Inductive == IInv /\ [Next]_vars => IInv'
<1> SUFFICES ASSUME IInv, [Next]_vars PROVE IInv'
  OBVIOUS
<1>1. ASSUME NEW a \in Admins, Put(a) \/ PutAssign(a) PROVE IInv'
  BY <1>1, PutKeeps, AssignKeeps DEF Put
<1>2. ASSUME NEW s \in Sessions, Start(s) PROVE IInv'
  BY <1>2, StartKeeps
<1>3. ASSUME NEW d \in Deletes, Delete(d) PROVE IInv'
  BY <1>3, FindKeeps, RemoveKeeps, CaptureKeeps, CancelKeeps, StoppedKeeps,
     ManifestKeeps
  DEF Delete
<1>4. CASE JanitorStep
  BY <1>4, CleanupKeeps, RemovalKeeps DEF JanitorStep
<1>5. CASE NextDay \/ Crash \/ Restart
  BY <1>5, DayKeeps, CrashKeeps, RestartKeeps
<1>6. CASE UNCHANGED vars
  <2> USE <1>6 DEF vars
  <2>1. TypeOK' /\ Saved' /\ Course'
    BY DEF IInv, TypeOK, Saved, Course
  <2>2. \A t \in Sessions : Settled(t)'
    BY SameSettled DEF IInv, Same
  <2> QED
    BY <2>1, <2>2 DEF IInv
<1> QED
  BY <1>1, <1>2, <1>3, <1>4, <1>5, <1>6 DEF Next

\* The variables keep their types, for any sessions and any settings.
THEOREM TypeCorrect == Spec => []TypeOK
<1>1. IInv => TypeOK
  BY DEF IInv
<1> QED
  BY Initially, Inductive, <1>1, PTL DEF Spec

\* What is left of a session that is over has a manifest that names it, since
\* the janitor removes that last; except a log that the client has named, what
\* could not be moved, removed or recorded, and what two DELETEs of one
\* session leave (artifact_history.go:376-495; selenwright.go:386-410).
THEOREM NoOrphans == Spec => []NothingOrphaned
<1>1. ASSUME IInv, NEW s \in Sessions, Over(s), s \notin spoilt, ~Contested(s)
      PROVE  /\ {Log(s), Downloads(s)} \intersect files # {} => Whole(s)
             /\ Other(s) \in files => s \in named
  <2>1. Recorded(s)
    BY <1>1 DEF IInv, Settled
  <2>2. CASE Untouched(s)
    BY <1>1, <2>1, <2>2 DEF Recorded
  <2>3. ASSUME NEW d \in Deletes, Of[d] = s, pc[d] \notin {"idle", "found", "capture"}
        PROVE  /\ {Log(s), Downloads(s)} \intersect files # {} => Whole(s)
               /\ Other(s) \in files => s \in named
    <3>1. pc[d] = "over"
      BY <1>1, <2>3 DEF Over, Under
    <3> QED
      BY <1>1, <2>1, <2>3, <3>1 DEF Recorded, Phase
  <2> QED
    BY <2>2, <2>3 DEF Untouched
<1>2. IInv => NothingOrphaned
  BY <1>1 DEF NothingOrphaned
<1> QED
  BY Initially, Inductive, <1>2, PTL DEF Spec

\* The manifest says what was captured while the container lived, and it stays
\* until some retention time is over, unless two DELETEs have ended the session
\* (artifact_history.go:344-374, 411-428, 620-655).
THEOREM CapturesKept == Spec => []CaptureKept
<1>1. ASSUME IInv, NEW s \in Sessions, ~Contested(s), Whole(s), Downloads(s) \in files
      PROVE  manifest[s] = "captured"
  <2>1. Recorded(s)
    BY <1>1 DEF IInv, Settled
  <2>2. PICK d \in Deletes : Of[d] = s /\ pc[d] \notin {"idle", "found", "capture"}
    BY <1>1, <2>1 DEF Recorded, Untouched
  <2>3. Phase(d) /\ pc[d] \in {"cancel", "stopped", "writing", "over"}
    BY <1>1, <2>1, <2>2 DEF Recorded, IInv, TypeOK, Pcs
  <2> QED
    BY <1>1, <2>2, <2>3 DEF Phase
<1>2. IInv => CaptureKept
  BY <1>1 DEF IInv, Settled, Kept, Expired, CaptureKept
<1> QED
  BY Initially, Inductive, <1>2, PTL DEF Spec

\* The settings in force are those that a restart would load, unless two
\* requests have changed them at once, or the process could not load them
\* itself and nobody has set them since (artifact_history.go:268-342).
THEOREM SettingsKept == Spec => []SettingsSurvive
<1>1. IInv => SettingsSurvive
  BY DEF IInv, Saved, SettingsSurvive
<1> QED
  BY Initially, Inductive, <1>1, PTL DEF Spec

=============================================================================
