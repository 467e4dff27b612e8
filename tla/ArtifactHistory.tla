--------------------------- MODULE ArtifactHistory ---------------------------
(***************************************************************************)
(* The artifact history (artifact_history.go): what is kept of a session   *)
(* after it has ended, and for how long.                                   *)
(*                                                                         *)
(* Whoever ends a session, a DELETE as a rule, copies its downloads out of *)
(* the container before it removes that.  The copy waits in                *)
(* pendingCaptures for the listener of SessionStopped, which writes the    *)
(* session's manifest.  The janitor removes what the manifests of old      *)
(* sessions name.  Two DELETEs that have both found a session both end it, *)
(* with a capture and a manifest each.  (Of a Playwright session the       *)
(* clean-up runs once: it is a session with one DELETE.)                   *)
(*                                                                         *)
(* The settings are in memory and in a file; a PUT renames a new file into *)
(* place and then sets the memory.  Writing a manifest is not atomic, and  *)
(* one that is cut short is skipped for ever.                              *)
(*                                                                         *)
(* Days are the unit of time.  A fault is a crash, or an operation on the  *)
(* file system or of Docker that fails; there are at most MaxFaults.       *)
(***************************************************************************)
EXTENDS Naturals, FiniteSets

CONSTANTS
  Sessions,
  Deletes,    \* calls of a session's Cancel
  Of,         \* the session of each
  Admins,     \* requests that change the settings, one at a time each
  Days,       \* retention times to choose from, within 1 .. 365
  Default,    \* defaultArtifactHistoryRetentionDays
  MaxDay, MaxFaults,
  None

ASSUME OfAssumption == Of \in [Deletes -> Sessions]
ASSUME DaysAssumption == Days \subseteq 1 .. 365 /\ Default \in Days
ASSUME BoundAssumption == MaxDay \in Nat /\ MaxFaults \in Nat

Settings == [enabled : BOOLEAN, days : Days]
Statuses == {"captured", "nothing"}  \* what extractCopiedDownloads ends with

ASSUME NoneAssumption == None \notin Sessions \union Settings \union Statuses \union {"torn"}

VARIABLES
  up, day, faults,
  memory,    \* settings
  disk,      \* the settings file
  puts,      \* the settings each request is about to assign, or None
  overlap,   \* two requests have changed the settings at once
  unread,    \* the file could not be loaded, and nobody has set them since
  state,     \* of each session
  on,        \* Session.ArtifactHistoryEnabled
  named,     \* sessions whose client has given a name for the log
  pc,        \* how far each DELETE is
  pending,   \* pendingCaptures, the status of each
  took,      \* the status that each listener goes by
  files,     \* logs and directories of downloads
  manifest,  \* a session's manifest: none, torn or its downloads' status
  finished,  \* FinishedAt
  janitor,   \* the run of the janitor, or None
  spoilt     \* sessions of which a fault has hit an artifact

settings == <<memory, disk, puts, overlap, unread>>
session == <<state, on, named>>
artifacts == <<pc, pending, took, files, manifest, finished, spoilt>>
vars == <<up, day, faults, settings, session, artifacts, janitor>>

States == {"new", "running", "ended"}
Pcs == {"idle", "found", "capture", "cancel", "stopped", "writing", "over"}
Defaults == [enabled |-> FALSE, days |-> Default]

Init ==
  /\ up = TRUE /\ day = 0 /\ faults = 0
  /\ memory = Defaults /\ disk = Defaults
  /\ puts = [a \in Admins |-> None] /\ overlap = FALSE /\ unread = FALSE
  /\ state = [s \in Sessions |-> "new"]
  /\ on = [s \in Sessions |-> FALSE] /\ named = {}
  /\ pc = [d \in Deletes |-> "idle"]
  /\ pending = [s \in Sessions |-> None]
  /\ took = [d \in Deletes |-> None]
  /\ files = {}
  /\ manifest = [s \in Sessions |-> None]
  /\ finished = [s \in Sessions |-> 0]
  /\ janitor = None /\ spoilt = {}

Fault == faults < MaxFaults /\ faults' = faults + 1
Goto(d, p) == pc' = [pc EXCEPT ![d] = p]
Downloads(s) == <<"downloads", s>>

\* The log under the name that the manifest has, and under another name.
Log(s) == <<"log", s>>
Other(s) == <<"other", s>>

(***************************************************************************)
(* Settings.                                                               *)
(***************************************************************************)
\* A PUT that sets the memory although the file could not be written.
PutPersistIgnored(a, v) ==
  /\ up /\ puts[a] = None
  /\ (disk' = v \/ UNCHANGED disk)
  /\ puts' = [puts EXCEPT ![a] = v]
  /\ overlap' = (overlap \/ \E b \in Admins : puts[b] # None)
  /\ UNCHANGED <<up, day, faults, memory, unread, session, artifacts, janitor>>

\* persistSettings of a PUT that is valid: a temporary file, renamed.
PutPersist(a, v) ==
  /\ up /\ puts[a] = None
  /\ disk' = v
  /\ puts' = [puts EXCEPT ![a] = v]
  /\ overlap' = (overlap \/ \E b \in Admins : puts[b] # None)
  /\ UNCHANGED <<up, day, faults, memory, unread, session, artifacts, janitor>>

\* historySettingsHandler, of a request that parses.
Put(a) == \E v \in Settings : PutPersist(a, v)

PutAssign(a) ==
  /\ up /\ puts[a] # None
  /\ memory' = puts[a]
  /\ puts' = [puts EXCEPT ![a] = None] /\ unread' = FALSE
  /\ UNCHANGED <<up, day, faults, disk, overlap, session, artifacts, janitor>>

(***************************************************************************)
(* A session, its capture and its manifest.                                *)
(***************************************************************************)
\* The history is on for a session if the settings say so and its
\* directories can be made.
Start(s) ==
  /\ up /\ state[s] = "new" /\ state' = [state EXCEPT ![s] = "running"]
  /\ \/ on' = [on EXCEPT ![s] = memory.enabled] /\ UNCHANGED faults
     \/ Fault /\ UNCHANGED on
  /\ named' \in {named, named \union {s}}
  /\ UNCHANGED <<up, day, settings, artifacts, janitor>>

\* A DELETE looks its session up, and then, under the session's lock, takes
\* it out of the map, whoever has done that meanwhile.
Find(d) ==
  /\ up /\ pc[d] = "idle" /\ state[Of[d]] = "running" /\ Goto(d, "found")
  /\ UNCHANGED <<up, day, faults, settings, session, pending, took, files>>
  /\ UNCHANGED <<manifest, finished, janitor, spoilt>>

Remove(d) ==
  /\ up /\ pc[d] = "found" /\ Goto(d, "capture")
  /\ state' = [state EXCEPT ![Of[d]] = "ended"]
  /\ UNCHANGED <<up, day, faults, settings, on, named, pending, took, files>>
  /\ UNCHANGED <<manifest, finished, janitor, spoilt>>

\* copyDownloadsFromContainer leaves a directory only if it has copied
\* something; from a container that is gone it copies nothing.
Copied(s, status) ==
  files' = IF status = "captured" THEN files \union {Downloads(s)}
           ELSE files \ {Downloads(s)}

Gone(s) == \E d \in Deletes :
  Of[d] = s /\ pc[d] \in {"stopped", "writing", "over"}

CaptureDownloadsForSession(d) ==
  LET s == Of[d] IN
  /\ up /\ pc[d] = "capture" /\ Goto(d, "cancel")
  /\ \/ ~on[s] /\ UNCHANGED <<faults, files, pending>>
     \/ on[s] /\ Fault /\ UNCHANGED <<files, pending>>  \* not available
     \/ /\ on[s] /\ UNCHANGED faults
        /\ \E status \in IF Gone(s) THEN {"nothing"} ELSE Statuses :
             /\ Copied(s, status)
             /\ pending' = [pending EXCEPT ![s] = status]
  /\ UNCHANGED <<up, day, settings, session, took, manifest, finished>>
  /\ UNCHANGED <<janitor, spoilt>>

\* The log is saved under a temporary name, which the manifest will have if
\* the client has given one: only a name that is made up here reaches the
\* capabilities of the session.
SavedLog(s) == IF s \in named THEN Other(s) ELSE Log(s)
UnmovedLog(s) == IF s \in named THEN Log(s) ELSE Other(s)

\* The log is saved, the container removed and the log moved to its name;
\* SessionStopped is published.  The log of a container that is gone, or
\* that Docker does not give, is not made.
Cancel(d) ==
  LET s == Of[d] IN
  /\ up /\ pc[d] = "cancel" /\ Goto(d, "stopped")
  /\ \/ (~on[s] \/ Gone(s)) /\ UNCHANGED <<faults, files, spoilt>>
     \/ /\ on[s] /\ ~Gone(s) /\ files' = files \union {SavedLog(s)}
        /\ UNCHANGED <<faults, spoilt>>
     \/ on[s] /\ Fault /\ UNCHANGED <<files, spoilt>>
     \/ /\ on[s] /\ ~Gone(s) /\ Fault /\ files' = files \union {UnmovedLog(s)}
        /\ spoilt' = spoilt \union {s}
  /\ UNCHANGED <<up, day, settings, session, pending, took, manifest>>
  /\ UNCHANGED <<finished, janitor>>

\* What the listener does with a session that is recorded, and one that is
\* not.
Record(d, status) ==
  /\ on[Of[d]] /\ Goto(d, "writing")
  /\ took' = [took EXCEPT ![d] = status]
  /\ pending' = [pending EXCEPT ![Of[d]] = None]
  /\ manifest' = [manifest EXCEPT ![Of[d]] = "torn"]
  /\ finished' = [finished EXCEPT ![Of[d]] = day]
  /\ UNCHANGED <<faults, spoilt>>

Skip(d) ==
  /\ ~on[Of[d]] /\ Goto(d, "over")
  /\ UNCHANGED <<faults, pending, took, files, manifest, finished, spoilt>>

\* A listener that copies from the container before it looks for a capture.
OnSessionStoppedCopies(d) ==
  /\ up /\ pc[d] = "stopped"
  /\ \/ Skip(d)
     \/ /\ Copied(Of[d], "nothing")
        /\ Record(d, IF pending[Of[d]] = None THEN "nothing" ELSE pending[Of[d]])
  /\ UNCHANGED <<up, day, settings, session, janitor>>

\* The listener takes the capture, or copies from a container that is gone,
\* and opens the manifest for writing.
OnSessionStopped(d) ==
  LET s == Of[d] IN
  /\ up /\ pc[d] = "stopped"
  /\ \/ Skip(d)
     \/ pending[s] # None /\ Record(d, pending[s]) /\ UNCHANGED files
     \/ pending[s] = None /\ Record(d, "nothing") /\ Copied(s, "nothing")
     \/ /\ on[s] /\ Fault /\ Goto(d, "over")  \* not available
        /\ spoilt' = spoilt \union {s}
        /\ UNCHANGED <<pending, took, files, manifest, finished>>
  /\ UNCHANGED <<up, day, settings, session, janitor>>

\* Two listeners that write one manifest at once may spoil it.
WriteManifest(d) ==
  LET s == Of[d] IN
  /\ up /\ pc[d] = "writing" /\ Goto(d, "over")
  /\ took' = [took EXCEPT ![d] = None]
  /\ \/ /\ manifest' = [manifest EXCEPT ![s] = took[d]]
        /\ UNCHANGED <<faults, spoilt>>
     \/ /\ \E e \in Deletes \ {d} : Of[e] = s /\ pc[e] = "writing"
        /\ UNCHANGED <<faults, spoilt, manifest>>
     \/ Fault /\ spoilt' = spoilt \union {s} /\ UNCHANGED manifest
  /\ UNCHANGED <<up, day, settings, session, pending, files, finished, janitor>>

(***************************************************************************)
(* The janitor.                                                            *)
(***************************************************************************)
Whole(s) == manifest[s] \in Statuses
Age(s) == day - finished[s]
ListDownloads == {s \in Sessions : Whole(s) /\ manifest[s] = "captured"}

\* A janitor that waits until the retention time is exceeded by a day.
RunCleanupLater ==
  /\ up /\ janitor = None
  /\ LET old == {s \in Sessions : Whole(s) /\ Age(s) > memory.days} IN
     old # {} /\ janitor' = [todo |-> old, now |-> None, next |-> "log"]
  /\ UNCHANGED <<up, day, faults, settings, session, artifacts>>

\* RunCleanupOnce reads the settings, loads the manifests and picks the old.
RunCleanupOnce ==
  /\ up /\ janitor = None
  /\ LET old == {s \in Sessions : Whole(s) /\ Age(s) >= memory.days} IN
     old # {} /\ janitor' = [todo |-> old, now |-> None, next |-> "log"]
  /\ UNCHANGED <<up, day, faults, settings, session, artifacts>>

After(what) == IF what = "log" THEN "downloads" ELSE "manifest"

Unlink(s, what) ==
  /\ files' = files \ {<<what, s>>}
  /\ manifest' = IF what = "manifest" THEN [manifest EXCEPT ![s] = None]
                 ELSE manifest

\* The janitor goes on to the next artifact of s, or to the next session.
Onward(s) == janitor' =
  IF janitor.next # "manifest"
  THEN [janitor EXCEPT !.now = s, !.next = After(@)]
  ELSE IF janitor.todo = {s} THEN None
  ELSE [todo |-> janitor.todo \ {s}, now |-> None, next |-> "log"]

Turn(s) == /\ up /\ janitor # None /\ s \in janitor.todo
           /\ janitor.now \in {s, None}

\* The manifest first.
RemovalReversed(s) ==
  /\ Turn(s)
  /\ Unlink(s, CASE janitor.next = "log" -> "manifest"
                [] janitor.next = "manifest" -> "log"
                [] OTHER -> "downloads")
  /\ Onward(s)
  /\ UNCHANGED <<up, day, faults, settings, session, pc, pending, took>>
  /\ UNCHANGED <<finished, spoilt>>

\* removeManifestArtifacts, one removal at a time; an error does not keep it
\* from the next.
Removal(s) ==
  /\ Turn(s)
  /\ \/ Unlink(s, janitor.next) /\ UNCHANGED <<faults, spoilt>>
     \/ /\ Fault /\ UNCHANGED <<files, manifest>>
        /\ spoilt' = IF janitor.next = "manifest" THEN spoilt
                     ELSE spoilt \union {s}
  /\ Onward(s)
  /\ UNCHANGED <<up, day, settings, session, pc, pending, took, finished>>

(***************************************************************************)
(* Time, crash and restart.                                                *)
(***************************************************************************)
NextDay ==
  /\ day < MaxDay /\ day' = day + 1
  /\ UNCHANGED <<up, faults, settings, session, artifacts, janitor>>

Under(s) == \E d \in Deletes : Of[d] = s /\ pc[d] \notin {"idle", "over"}
Ongoing == {s \in Sessions : state[s] = "running" \/ Under(s)}

\* Sessions that had not been recorded never will be.
Crash ==
  /\ up /\ Fault /\ up' = FALSE
  /\ janitor' = None
  /\ puts' = [a \in Admins |-> None]
  /\ state' = [s \in Sessions |-> IF s \in Ongoing THEN "ended" ELSE state[s]]
  /\ pc' = [d \in Deletes |-> IF pc[d] = "idle" THEN "idle" ELSE "over"]
  /\ pending' = [s \in Sessions |-> None]
  /\ took' = [d \in Deletes |-> None]
  /\ spoilt' = spoilt \union Ongoing
  /\ UNCHANGED <<day, memory, disk, overlap, unread, on, named, files>>
  /\ UNCHANGED <<manifest, finished>>

\* A start that loads the file.
RestartLoads ==
  /\ memory' = disk /\ unread' = FALSE /\ UNCHANGED faults

\* A start that cannot read, parse or validate the file says so in the log
\* and goes on with the defaults, and leaves the file as it is.
RestartDefaults ==
  /\ Fault /\ memory' = Defaults /\ unread' = TRUE

\* ensureArtifactHistoryManager and loadSettings.
Restart ==
  /\ ~up /\ up' = TRUE /\ overlap' = FALSE
  /\ RestartLoads \/ RestartDefaults
  /\ UNCHANGED <<day, disk, puts, session, artifacts, janitor>>

Delete(d) == Find(d) \/ Remove(d) \/ CaptureDownloadsForSession(d) \/ Cancel(d)
               \/ OnSessionStopped(d) \/ WriteManifest(d)

JanitorStep == RunCleanupOnce \/ \E s \in Sessions : Removal(s)

Next ==
  \/ \E a \in Admins : Put(a) \/ PutAssign(a)
  \/ \E s \in Sessions : Start(s)
  \/ \E d \in Deletes : Delete(d)
  \/ JanitorStep \/ NextDay \/ Crash \/ Restart

\* The janitor's ticker fires for ever, and somebody restarts the process.
Spec == Init /\ [][Next]_vars /\ WF_vars(JanitorStep) /\ WF_vars(Restart)

------------------------------------------------------------------------------
TypeOK ==
  /\ up \in BOOLEAN /\ day \in 0 .. MaxDay /\ faults \in 0 .. MaxFaults
  /\ memory \in Settings /\ disk \in Settings
  /\ puts \in [Admins -> Settings \union {None}]
  /\ overlap \in BOOLEAN /\ unread \in BOOLEAN
  /\ state \in [Sessions -> States] /\ on \in [Sessions -> BOOLEAN]
  /\ named \subseteq Sessions
  /\ pc \in [Deletes -> Pcs]
  /\ pending \in [Sessions -> Statuses \union {None}]
  /\ took \in [Deletes -> Statuses \union {None}]
  /\ files \subseteq {"log", "other", "downloads"} \X Sessions
  /\ manifest \in [Sessions -> Statuses \union {"torn", None}]
  /\ finished \in [Sessions -> Nat] /\ \A s \in Sessions : finished[s] <= day
  /\ janitor \in {None} \union [todo : SUBSET Sessions, now : Sessions \union {None},
                               next : {"log", "downloads", "manifest"}]
  /\ spoilt \subseteq Sessions

Over(s) == state[s] = "ended" /\ ~Under(s)

\* Two DELETEs have found the session.
Contested(s) == \E d, e \in Deletes :
  d # e /\ Of[d] = s /\ Of[e] = s /\ pc[d] # "idle" /\ pc[e] # "idle"

\* Every log and every download that is left of a recorded session has a
\* manifest that names it, or nothing would ever remove it: also when the
\* process stops in the middle of a removal, since the manifest goes last.
\* Exceptions: a log for which the client gave a name, which no manifest
\* names; an artifact that could not be moved or removed once; one whose
\* manifest could not be written, which for a session that two DELETEs have
\* ended includes two listeners that write it at once
\* (artifact_history.go:376-495; selenwright.go:386-410).
NothingOrphaned == \A s \in Sessions :
  Over(s) /\ s \notin spoilt /\ ~Contested(s) =>
    /\ {Log(s), Downloads(s)} \intersect files # {} => Whole(s)
    /\ Other(s) \in files => s \in named

\* What was copied out before the container was removed is what the manifest
\* and the list of downloads say, although another goroutine writes that
\* later; and it stays until some retention time is over.  Not so if two
\* DELETEs have ended the session: the second finds no container, and
\* removes what the first has copied
\* (artifact_history.go:344-374, 411-428, 620-655; selenwright.go:349-356).
CaptureKept == \A s \in Sessions :
  ~Contested(s) =>
    /\ Downloads(s) \in files /\ Whole(s) => manifest[s] = "captured"
    /\ s \in ListDownloads /\ Downloads(s) \notin files
         => \E d \in Days : Age(s) >= d

\* The settings in force are those that a restart would load, once no request
\* is changing them: unless two have done so at the same time, or the process
\* could not load the file when it started and nobody has changed them since
\* (artifact_history.go:268-342; main.go:107).
SettingsSurvive ==
  up /\ ~overlap /\ ~unread /\ (\A a \in Admins : puts[a] = None)
    => memory = disk

\* A session that is older than the retention time is forgotten, whatever
\* crashes or fails on the way (artifact_history.go:445-471).
OldSessionsForgotten == \A s \in Sessions :
  (Whole(s) /\ \A d \in Days : Age(s) >= d) ~> ~Whole(s)
==============================================================================
