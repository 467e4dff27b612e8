------------------------------- MODULE Starter -------------------------------
(***************************************************************************)
(* Starting and cancelling one session's service (service/): a container,  *)
(* with a video container beside it, or a driver process.                  *)
(*                                                                         *)
(* StartWithCancel acquires its resources one call at a time and returns   *)
(* a Cancel function; on a failure in between it gives back what it has.   *)
(* up[s] is what session s holds of the daemon and of the system, and      *)
(* refused[s] what a call to remove it could not remove.  Containers run   *)
(* with AutoRemove, so one that exits is gone without a call.  A file or   *)
(* a listener that nothing refers to is closed by the garbage collector.   *)
(*                                                                         *)
(* The container log options, one map that every session writes its test   *)
(* name to when it is the first to have one, are data that no step reads.  *)
(***************************************************************************)
EXTENDS Naturals, FiniteSets

CONSTANTS
  Services,  \* one for each session
  PortsPublished,  \* ports are bound on the host: outside a container, or with -ip
  MaxProbes   \* probes or polls that fit in StartupTimeout

ASSUME PublishedAssumption == PortsPublished \in BOOLEAN
ASSUME ProbesAssumption == MaxProbes \in Nat \ {0}

Containers == {"browser", "video"}
Files == {"listener", "logfile"}
Resources == Containers \union Files \union {"process"}

\* The session's capabilities and its catalogue entry, as far as the
\* starters look at them.
Options == [kind : {"docker"}, video : BOOLEAN, health : BOOLEAN]
             \union [kind : {"driver"}, logs : BOOLEAN]

VARIABLES
  opts,     \* the options of each session
  call,     \* the call each session makes next, or how its start ended
  up,       \* what exists because of the session
  refused,  \* what a removal has failed to remove
  probes    \* readiness probes left before the deadline

starterVars == <<opts, call, up, refused, probes>>

Calls == {"find", "configure", "create", "start", "connect", "inspect",
          "createVideo", "startVideo", "wait", "giveUp", "ready", "cancel",
          "collect", "remove", "failed", "stopped", "panicked", "listen",
          "openLog", "exec"}
Ended == {"failed", "stopped"}

StarterInit ==
  /\ opts \in [Services -> Options]
  /\ call = [s \in Services |-> "find"]
  /\ up = [s \in Services |-> {}]
  /\ refused = [s \in Services |-> {}]
  /\ probes = [s \in Services |-> MaxProbes]

GoOn(s, p) == call' = [call EXCEPT ![s] = p]

Acquire(s, r) ==
  /\ up' = [up EXCEPT ![s] = @ \union {r}]
  /\ UNCHANGED refused

\* removeContainer and stopProcess for each of R: what the daemon or the
\* system does not remove stays, and the error is only logged.
Discard(s, R) == \E left \in SUBSET (R \intersect up[s]) :
  /\ up' = [up EXCEPT ![s] = (@ \ R) \union left]
  /\ refused' = [refused EXCEPT ![s] = @ \union left]

Keep(s) == UNCHANGED <<up, refused>>
Same == UNCHANGED <<opts, probes>>

\* DefaultManager.Find: a browser in the catalogue, whose image names a
\* container or a command; containers need a daemon.
Find(s) ==
  /\ call[s] = "find"
  /\ \/ GoOn(s, IF opts[s].kind = "docker" THEN "configure" ELSE "listen")
     \/ GoOn(s, "failed")
  /\ Keep(s) /\ Same

(***************************************************************************)
(* Docker.StartWithCancel.                                                 *)
(***************************************************************************)
\* Ports and limits are parsed before anything is created.
Configure(s) ==
  /\ call[s] = "configure"
  /\ GoOn(s, "create") \/ GoOn(s, "failed")
  /\ Keep(s) /\ Same

Create(s) ==
  /\ call[s] = "create"
  /\ \/ Acquire(s, "browser") /\ GoOn(s, "start")
     \/ Keep(s) /\ GoOn(s, "failed")
  /\ Same

StartContainer(s) ==
  /\ call[s] = "start"
  /\ \/ GoOn(s, "connect") /\ Keep(s)
     \/ Discard(s, {"browser"}) /\ GoOn(s, "failed")
  /\ Same

\* Connecting the secondary networks, in a loop that the first error ends.
Connect(s) ==
  /\ call[s] = "connect"
  /\ \/ "browser" \in up[s] /\ GoOn(s, "inspect") /\ Keep(s)
     \/ Discard(s, {"browser"}) /\ GoOn(s, "failed")
  /\ Same

\* The daemon may list the service port without a binding, and getHostPort
\* takes its first binding when it has to name a port of the host.
HostPorts(s) ==
  \/ GoOn(s, IF opts[s].video THEN "createVideo" ELSE "wait")
  \/ PortsPublished /\ GoOn(s, "panicked")

Inspect(s) ==
  /\ call[s] = "inspect"
  /\ \/ "browser" \in up[s] /\ HostPorts(s) /\ Keep(s)
     \/ Discard(s, {"browser"}) /\ GoOn(s, "failed")
  /\ Same

\* A startVideoContainer that leaves the browser to its caller.
CreateVideoKeepsBrowser(s) ==
  /\ call[s] = "createVideo"
  /\ \/ Acquire(s, "video") /\ GoOn(s, "startVideo")
     \/ Keep(s) /\ GoOn(s, "failed")
  /\ Same

CreateVideo(s) ==
  /\ call[s] = "createVideo"
  /\ \/ Acquire(s, "video") /\ GoOn(s, "startVideo")
     \/ Discard(s, {"browser"}) /\ GoOn(s, "failed")
  /\ Same

StartVideo(s) ==
  /\ call[s] = "startVideo"
  /\ \/ GoOn(s, "wait") /\ Keep(s)
     \/ Discard(s, Containers) /\ GoOn(s, "failed")
  /\ Same

\* The pause after an attempt, or the deadline.
Again(s) == IF probes[s] > 1
  THEN probes' = [probes EXCEPT ![s] = @ - 1] /\ UNCHANGED call
  ELSE GoOn(s, "giveUp") /\ UNCHANGED probes

\* The service answers.  With publishAllPorts getContainerPorts takes the first
\* binding of each exposed port, and one may have none.
Ready(s) ==
  \/ GoOn(s, "ready")
  \/ opts[s].kind = "docker" /\ GoOn(s, "panicked")

\* waitForHealthy: an unhealthy container, or one that cannot be inspected,
\* ends the wait at once.
PollHealth(s) ==
  /\ call[s] = "wait" /\ opts[s].kind = "docker" /\ opts[s].health
  /\ \/ "browser" \in up[s] /\ Ready(s) /\ UNCHANGED probes
     \/ GoOn(s, "giveUp") /\ UNCHANGED probes
     \/ Again(s)
  /\ Keep(s) /\ UNCHANGED opts

\* waitFor: nothing but an answer or the deadline ends the wait.  The port of
\* a driver is free before it listens, so the answer may be another's.
Probe(s) ==
  /\ call[s] = "wait" /\ (opts[s].kind = "docker" => ~opts[s].health)
  /\ \/ /\ opts[s].kind = "docker" => "browser" \in up[s]
        /\ Ready(s) /\ UNCHANGED probes
     \/ Again(s)
  /\ Keep(s) /\ UNCHANGED opts

\* A Cancel without stopVideoContainer.
CancelSkipsVideo(s) ==
  /\ call[s] = "ready"
  /\ GoOn(s, IF opts[s].kind = "docker" THEN "collect" ELSE "cancel")
  /\ Keep(s) /\ Same

Cancel(s) ==
  /\ call[s] = "ready"
  /\ GoOn(s, "cancel") /\ Keep(s) /\ Same

\* A wait for the recording that no SessionDeleteTimeout ends.
StopVideoWaits(s) ==
  /\ opts[s].kind = "docker" /\ "video" \notin up[s]
  /\ \/ call[s] = "giveUp" /\ GoOn(s, "remove")
     \/ call[s] = "cancel" /\ GoOn(s, "collect")
  /\ Keep(s) /\ Same

\* stopVideoContainer: TERM, then wait for the recording to be finished.
\* It returns without removing the container when the kill or the wait fails.
StopVideo(s) ==
  /\ opts[s].kind = "docker"
  /\ \/ call[s] = "giveUp" /\ GoOn(s, "remove")
     \/ call[s] = "cancel" /\ GoOn(s, "collect")
  /\ Discard(s, {"video"}) /\ Same

\* The browser's logs are copied out, if they can be, before it is removed.
Remove(s) ==
  /\ \/ call[s] = "remove" /\ GoOn(s, "failed")
     \/ call[s] = "collect" /\ GoOn(s, "stopped")
  /\ Discard(s, {"browser"}) /\ Same

(***************************************************************************)
(* Driver.StartWithCancel.                                                 *)
(***************************************************************************)
Listen(s) ==
  /\ call[s] = "listen"
  /\ \/ Acquire(s, "listener") /\ GoOn(s, "openLog")
     \/ Keep(s) /\ GoOn(s, "failed")
  /\ Same

\* The listener is closed once the log file is open, and on no other path.
OpenLog(s) ==
  /\ call[s] = "openLog"
  /\ \/ /\ up' = [up EXCEPT ![s] = IF opts[s].logs THEN {"logfile"} ELSE {}]
        /\ UNCHANGED refused
        /\ GoOn(s, "exec")
     \/ opts[s].logs /\ Keep(s) /\ GoOn(s, "failed")
  /\ Same

Exec(s) ==
  /\ call[s] = "exec"
  /\ \/ Acquire(s, "process") /\ GoOn(s, "wait")
     \/ Keep(s) /\ GoOn(s, "failed")
  /\ Same

\* stopProcess interrupts the driver and waits for it; the log file is closed
\* when the signal could be sent.
StopProcess(s) ==
  /\ opts[s].kind = "driver"
  /\ \/ call[s] = "giveUp" /\ GoOn(s, "failed")
     \/ call[s] = "cancel" /\ GoOn(s, "stopped")
  /\ up' = [up EXCEPT ![s] = {}] \/ up' = [up EXCEPT ![s] = @ \ {"process"}]
  /\ UNCHANGED refused /\ Same

(***************************************************************************)
(* The daemon, the system and the garbage collector.                       *)
(***************************************************************************)
\* A container that has been started exits by itself.
Exits(s, c) ==
  /\ c \in up[s] /\ call[s] # "start"
  /\ c = "video" => call[s] # "startVideo"
  /\ up' = [up EXCEPT ![s] = @ \ {c}]
  /\ UNCHANGED <<call, refused>> /\ Same

CloseUnreachable(s, f) ==
  /\ call[s] \in Ended /\ f \in up[s]
  /\ up' = [up EXCEPT ![s] = @ \ {f}]
  /\ UNCHANGED <<call, refused>> /\ Same

DockerStep(s) ==
  \/ Configure(s) \/ Create(s) \/ StartContainer(s) \/ Connect(s)
  \/ Inspect(s) \/ CreateVideo(s) \/ StartVideo(s) \/ PollHealth(s)
  \/ StopVideo(s) \/ Remove(s)

DriverStep(s) == Listen(s) \/ OpenLog(s) \/ Exec(s) \/ StopProcess(s)

Collect(s) == \E f \in Files : CloseUnreachable(s, f)

Step(s) == Find(s) \/ DockerStep(s) \/ DriverStep(s) \/ Probe(s)

StarterNext == \E s \in Services :
  \/ Step(s) \/ Cancel(s) \/ Collect(s)
  \/ \E c \in Containers : Exits(s, c)

\* Calls to the daemon return, a probe ends at its timeout and an interrupted
\* driver exits: then every call of a starter is bounded.  The garbage
\* collector runs.  Nobody has to cancel.
StarterFairness == \A s \in Services :
  WF_starterVars(Step(s)) /\ WF_starterVars(Collect(s))

StarterSpec == StarterInit /\ [][StarterNext]_starterVars /\ StarterFairness

------------------------------------------------------------------------------
StarterTypeOK ==
  /\ opts \in [Services -> Options]
  /\ call \in [Services -> Calls]
  /\ up \in [Services -> SUBSET Resources]
  /\ refused \in [Services -> SUBSET Containers]
  /\ probes \in [Services -> 1 .. MaxProbes]

\* A start that has failed, and a service that has been cancelled, leave no
\* container and no process behind, except a container whose own removal
\* failed: whichever call of the sequence it was that failed, and also when
\* a container exits by itself in the middle (docker.go:164-242, 265-289,
\* 649-666; driver.go:96-100).  A start that panics is not one of these.
NothingLeft == \A s \in Services : call[s] \in Ended =>
  up[s] \ Files \subseteq refused[s]

\* A browser is never removed under a recording that runs, or the video would
\* end in a black screen: by then the video container is gone, unless it could
\* not be stopped, or has never been started (docker.go:225-229, 265-269).
VideoStopsFirst == [][\A s \in Services :
  "browser" \in up[s] \ up'[s] /\ call'[s] \in Ended /\ call[s] # "startVideo"
    => "video" \notin up[s] \ refused[s]]_starterVars

\* Every start ends, in a service or in an error, and after an end nothing of
\* the session remains but what could not be removed: the port listener and
\* the log file that the error paths of driver.go:74-95 leave open too.
EndsClean == \A s \in Services :
  /\ call[s] = "find" ~> call[s] \in Ended \union {"ready", "panicked"}
  /\ call[s] \in Ended ~> (call[s] \in Ended /\ up[s] \subseteq refused[s])
==============================================================================
