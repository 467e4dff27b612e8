----------------------------- MODULE WebDriver -----------------------------
(***************************************************************************)
(* The life of a WebDriver session (selenwright.go: create, proxy and      *)
(* sess.Delete; main.go: the shutdown sequence).                           *)
(*                                                                         *)
(* create runs once per session request: it is admitted to a slot of the   *)
(* queue, starts a container, sends the new session request to the driver  *)
(* (with retries), and registers the session.  proxy handles DELETE: it    *)
(* unregisters the session and releases its slot under the session's lock, *)
(* forwards the DELETE to the driver, and only then cancels the container. *)
(* An idle timer that expires sends such a DELETE to the server itself.    *)
(* Shutdown waits for the running handlers and cancels what is registered. *)
(*                                                                         *)
(* Queue.Drop, Create and Release are single steps here (module Queue      *)
(* takes them apart), and so is the watchdog (module Watchdog).            *)
(***************************************************************************)
EXTENDS Integers, FiniteSets

CONSTANTS
  Sessions,         \* session requests, and the sessions made of them
  Clients,          \* DELETE requests of clients
  About,            \* the session each of them is about
  Limit,            \* -limit
  RetryCount,       \* -retry-count
  LoopbackAllowed,  \* a request without credentials is let in (auth mode none)
  PlaywrightImages  \* the catalogue has images that only speak Playwright

ASSUME SessionsAssumption == IsFiniteSet(Sessions)
ASSUME ClientsAssumption == Sessions \intersect Clients = {}
ASSUME AboutAssumption == About \in [Clients -> Sessions]
ASSUME LimitAssumption == Limit \in Nat /\ RetryCount \in Nat
ASSUME LoopbackAssumption == LoopbackAllowed \in BOOLEAN
ASSUME ImagesAssumption == PlaywrightImages \in BOOLEAN

\* A DELETE comes from a client or from the idle timer of a session.
Deleters == Clients \union Sessions
Target(d) == IF d \in Sessions THEN d ELSE About[d]

VARIABLES
  phase,     \* of the process: "up", "draining", "sweeping", "down", "killed"
  sem,       \* queue: slots taken
  used,      \* queue: the counter of sessions
  pending,   \* queue: the counter of requests being started
  map,       \* app.sessions
  dog,       \* Watchdog of each session
  box,       \* container of each session
  pc,        \* where create is
  tries,     \* create: the loop variable i
  prefix,    \* create: how many "/wd/hub" are in u.Path
  depth,     \* create: how many "/wd/hub" are in r.URL.Path
  home,      \* how many the driver expects
  dpc,       \* where each DELETE is
  released,  \* how often the slot of a session was released
  stops,     \* how often sess.Cancel of a session ran
  locked,    \* sessions whose lock is never released again
  todo       \* shutdown: sessions still to be cancelled

vars == <<phase, sem, used, pending, map, dog, box, pc, tries, prefix, depth,
          home, dpc, released, stops, locked, todo>>
queue == <<sem, used, pending>>
attempt == <<tries, prefix, depth, home>>
deletion == <<dpc, released, stops, locked>>
shutdown == <<phase, todo>>

StartingPcs == {"starting", "attempt", "sent", "replied"}
SlotPcs == StartingPcs \union {"admitted", "count", "arm", "live", "crashed"}
EndPcs == {"idle", "live", "failed", "refused", "crashed", "panicked"}
Pcs == SlotPcs \union EndPcs \union {"queued", "cancel"}

RunningDpcs == {"found", "forward", "cancel"}
BegunDpcs == RunningDpcs \union {"done", "aborted", "panicked"}
Dpcs == BegunDpcs \union {"idle", "expired", "denied"}

\* The session, or the request for it, owns a slot.
Holds(s) == pc[s] \in SlotPcs /\ released[s] = 0
Holders == {s \in Sessions : Holds(s)}

Init ==
  /\ phase = "up" /\ todo = {}
  /\ sem = 0 /\ used = 0 /\ pending = 0
  /\ map = {} /\ locked = {}
  /\ dog = [s \in Sessions |-> "none"]
  /\ box = [s \in Sessions |-> "none"]
  /\ pc = [s \in Sessions |-> "idle"]
  /\ tries = [s \in Sessions |-> 0]
  /\ prefix = [s \in Sessions |-> 0]
  /\ depth = [s \in Sessions |-> 0]
  /\ home = [s \in Sessions |-> 0]
  /\ dpc = [d \in Deleters |-> "idle"]
  /\ released = [s \in Sessions |-> 0]
  /\ stops = [s \in Sessions |-> 0]

Goto(s, label) == pc' = [pc EXCEPT ![s] = label]
DeleteGoto(d, label) == dpc' = [dpc EXCEPT ![d] = label]
Remove(s) == box' = [box EXCEPT ![s] = "removed"]

\* Queue.Drop, after which the handler goes on to a label.  A semaphore
\* released more often than it was acquired panics, and ends the handler.
DropThen(s, label) ==
  /\ pending' = pending - 1
  /\ \/ sem > 0 /\ sem' = sem - 1 /\ Goto(s, label)
     \/ sem = 0 /\ sem' = sem /\ Goto(s, "panicked")
  /\ UNCHANGED used

(***************************************************************************)
(* create, up to the driver.                                               *)
(***************************************************************************)

\* A new session request arrives and enters the queue.
Arrive(s) ==
  /\ phase = "up"
  /\ pc[s] = "idle"
  /\ Goto(s, "queued")
  /\ UNCHANGED <<queue, map, dog, box, attempt, deletion, shutdown>>

\* The queue refuses the request, or its client stops waiting.
Leave(s) ==
  /\ pc[s] = "queued"
  /\ Goto(s, "refused")
  /\ UNCHANGED <<queue, map, dog, box, attempt, deletion, shutdown>>

\* The queue gives the request a slot.
Admit(s) ==
  /\ pc[s] = "queued"
  /\ sem < Limit
  /\ sem' = sem + 1
  /\ pending' = pending + 1
  /\ Goto(s, "admitted")
  /\ UNCHANGED <<used, map, dog, box, attempt, deletion, shutdown>>

\* A bad body, bad capabilities, no such browser: nothing is started.
Reject(s) ==
  /\ pc[s] = "admitted"
  /\ DropThen(s, "refused")
  /\ UNCHANGED <<map, dog, box, attempt, deletion, shutdown>>

\* starter.StartWithCancel is called and makes a container.
Start(s) ==
  /\ pc[s] = "admitted"
  /\ box' = [box EXCEPT ![s] = "running"]
  /\ Goto(s, "starting")
  /\ UNCHANGED <<queue, map, dog, attempt, deletion, shutdown>>

\* StartWithCancel fails and has removed its container.
StartFails(s) ==
  /\ pc[s] = "starting"
  /\ Remove(s)
  /\ DropThen(s, "refused")
  /\ UNCHANGED <<map, dog, attempt, deletion, shutdown>>

\* StartWithCancel returns.  The image's path has a "/wd/hub" or none, and
\* so does the path the driver answers at.
Started(s) ==
  /\ pc[s] = "starting"
  /\ tries' = [tries EXCEPT ![s] = 1]
  /\ \E p, h \in 0 .. 1 :
        /\ prefix' = [prefix EXCEPT ![s] = p]
        /\ home' = [home EXCEPT ![s] = h]
  /\ Goto(s, "attempt")
  /\ UNCHANGED <<queue, map, dog, box, depth, deletion, shutdown>>

\* StartWithCancel returns no URL for an image that only speaks Playwright;
\* the handler panics on it and net/http recovers.
Crash(s) ==
  /\ pc[s] = "starting"
  /\ PlaywrightImages
  /\ Goto(s, "crashed")
  /\ UNCHANGED <<queue, map, dog, box, attempt, deletion, shutdown>>

(***************************************************************************)
(* create, the attempts.  The variables of the loop are dead after it, and *)
(* are reset.                                                              *)
(***************************************************************************)

\* r.URL.Path is joined with u.Path, and the request is sent.
Attempt(s) ==
  /\ pc[s] = "attempt"
  /\ depth' = [depth EXCEPT ![s] = @ + prefix[s]]
  /\ Goto(s, "sent")
  /\ UNCHANGED <<queue, map, dog, box, tries, prefix, home, deletion, shutdown>>

LoopEnds(s) ==
  /\ tries' = [tries EXCEPT ![s] = 0]
  /\ prefix' = [prefix EXCEPT ![s] = 0]
  /\ depth' = [depth EXCEPT ![s] = 0]
  /\ home' = [home EXCEPT ![s] = 0]

\* Mutated form of Fail: the handler returns without Drop.
FailKeepsSlot(s) ==
  /\ LoopEnds(s)
  /\ Goto(s, "cancel")
  /\ UNCHANGED <<queue, map, dog, box, deletion, shutdown>>

\* Mutated form of Fail: the handler returns without cancel.
FailKeepsBox(s) ==
  /\ LoopEnds(s)
  /\ DropThen(s, "failed")
  /\ UNCHANGED <<map, dog, box, deletion, shutdown>>

\* The error paths after the start: Drop first, cancel next.
Fail(s) ==
  /\ LoopEnds(s)
  /\ DropThen(s, "cancel")
  /\ UNCHANGED <<map, dog, box, deletion, shutdown>>

FailCancel(s) ==
  /\ pc[s] = "cancel"
  /\ Remove(s)
  /\ Goto(s, "failed")
  /\ UNCHANGED <<queue, map, dog, attempt, deletion, shutdown>>

\* The driver answers.
Answer(s) ==
  /\ pc[s] = "sent"
  /\ depth[s] = home[s]
  /\ LoopEnds(s)
  /\ Goto(s, "replied")
  /\ UNCHANGED <<queue, map, dog, box, deletion, shutdown>>

\* The driver answers 404: try again under /wd/hub, if the image has no path.
\* Otherwise that is the response, and no session ID is found in it.
NotFound(s) ==
  /\ pc[s] = "sent"
  /\ depth[s] # home[s]
  /\ \/ /\ prefix[s] = 0
        /\ prefix' = [prefix EXCEPT ![s] = 1]
        /\ tries' = [tries EXCEPT ![s] = @ + 1]
        /\ Goto(s, "attempt")
        /\ UNCHANGED <<queue, map, dog, box, depth, home, deletion, shutdown>>
     \/ /\ prefix[s] = 1
        /\ Fail(s)

\* Mutated form of Timeout: attempts are not counted.
TimeoutForever(s) ==
  /\ pc[s] = "sent"
  /\ depth' = [depth EXCEPT ![s] = @ - prefix[s]]
  /\ Goto(s, "attempt")
  /\ UNCHANGED <<queue, map, dog, box, tries, prefix, home, deletion, shutdown>>

\* The attempt times out: try again, unless RetryCount is reached.
Timeout(s) ==
  /\ pc[s] = "sent"
  /\ \/ /\ tries[s] < RetryCount
        /\ tries' = [tries EXCEPT ![s] = @ + 1]
        /\ Goto(s, "attempt")
        /\ UNCHANGED <<queue, map, dog, box, prefix, depth, home, deletion,
                       shutdown>>
     \/ /\ tries[s] >= RetryCount
        /\ Fail(s)

\* The request fails, or the client of create disconnects.
SendFails(s) ==
  /\ pc[s] = "sent"
  /\ Fail(s)

\* The response cannot be read or processed, or has no session ID.
BadReply(s) ==
  /\ pc[s] = "replied"
  /\ Fail(s)

(***************************************************************************)
(* create, the registration.                                               *)
(***************************************************************************)

\* sessions.Put, of a session with a new watchdog.
Put(s) ==
  /\ pc[s] = "replied"
  /\ map' = map \union {s}
  /\ dog' = [dog EXCEPT ![s] = "new"]
  /\ Goto(s, "count")
  /\ UNCHANGED <<queue, box, attempt, deletion, shutdown>>

\* Queue.Create
Count(s) ==
  /\ pc[s] = "count"
  /\ pending' = pending - 1
  /\ used' = used + 1
  /\ Goto(s, "arm")
  /\ UNCHANGED <<sem, map, dog, box, attempt, deletion, shutdown>>

\* Watchdog.Start; it has no effect on a watchdog that was stopped before.
Arm(s) ==
  /\ pc[s] = "arm"
  /\ dog' = IF dog[s] = "new" THEN [dog EXCEPT ![s] = "armed"] ELSE dog
  /\ Goto(s, "live")
  /\ UNCHANGED <<queue, map, box, attempt, deletion, shutdown>>

(***************************************************************************)
(* DELETE.                                                                 *)
(***************************************************************************)

\* A client's DELETE finds the session in the map.
Ask(c) ==
  /\ phase = "up"
  /\ dpc[c] = "idle"
  /\ Target(c) \in map
  /\ DeleteGoto(c, "found")
  /\ UNCHANGED <<queue, map, dog, box, pc, attempt, released, stops, locked,
                 shutdown>>

\* The idle timer expires (module Watchdog).
Expire(s) ==
  /\ dog[s] = "armed"
  /\ dog' = [dog EXCEPT ![s] = "expired"]
  /\ DeleteGoto(s, "expired")
  /\ UNCHANGED <<queue, map, box, pc, attempt, released, stops, locked,
                 shutdown>>

\* Mutated form of Loopback: the request is not sent.
LoopbackForgotten(s) ==
  /\ dpc[s] = "expired"
  /\ DeleteGoto(s, "denied")
  /\ UNCHANGED <<queue, map, dog, box, pc, attempt, released, stops, locked,
                 shutdown>>

\* Its callback sends a DELETE to the server's own address: without
\* credentials, to a listener that shutdown closes.
Loopback(s) ==
  /\ dpc[s] = "expired"
  /\ DeleteGoto(s, IF phase = "up" /\ LoopbackAllowed /\ s \in map
                     THEN "found" ELSE "denied")
  /\ UNCHANGED <<queue, map, dog, box, pc, attempt, released, stops, locked,
                 shutdown>>

\* Under sess.Lock: stop the watchdog, remove the session from the map,
\* release the slot.  Whether the session is still in the map is not looked
\* at again.  A semaphore released more often than it was acquired panics,
\* and the lock is not released.
Unregister(d) ==
  LET s == Target(d) IN
  /\ dpc[d] = "found"
  /\ s \notin locked
  /\ dog' = IF dog[s] \in {"new", "armed"}
              THEN [dog EXCEPT ![s] = "stopped"] ELSE dog
  /\ map' = map \ {s}
  /\ used' = used - 1
  /\ \/ /\ sem > 0
        /\ sem' = sem - 1
        /\ released' = [released EXCEPT ![s] = @ + 1]
        /\ DeleteGoto(d, "forward")
        /\ UNCHANGED locked
     \/ /\ sem = 0
        /\ locked' = locked \union {s}
        /\ DeleteGoto(d, "panicked")
        /\ UNCHANGED <<sem, released>>
  /\ UNCHANGED <<pending, box, pc, attempt, stops, shutdown>>

\* Mutated form of Forward: the handler returns without its clean-up.
ForwardOnly(d) ==
  /\ dpc[d] = "forward"
  /\ DeleteGoto(d, "done")
  /\ UNCHANGED <<queue, map, dog, box, pc, attempt, released, stops, locked,
                 shutdown>>

\* The reverse proxy returns: the driver has answered, or cannot be reached,
\* or the client has gone before it answered.
Forward(d) ==
  /\ dpc[d] = "forward"
  /\ DeleteGoto(d, "cancel")
  /\ UNCHANGED <<queue, map, dog, box, pc, attempt, released, stops, locked,
                 shutdown>>

\* The reverse proxy cannot copy the answer to the end and panics
\* (http.ErrAbortHandler): the rest of the handler does not run.
Abort(d) ==
  /\ dpc[d] = "forward"
  /\ DeleteGoto(d, "aborted")
  /\ UNCHANGED <<queue, map, dog, box, pc, attempt, released, stops, locked,
                 shutdown>>

\* postCleanup: sess.Cancel.
Cancel(d) ==
  /\ dpc[d] = "cancel"
  /\ Remove(Target(d))
  /\ stops' = [stops EXCEPT ![Target(d)] = @ + 1]
  /\ DeleteGoto(d, "done")
  /\ UNCHANGED <<queue, map, dog, pc, attempt, released, locked, shutdown>>

(***************************************************************************)
(* Shutdown.                                                               *)
(***************************************************************************)

HandlersDone ==
  /\ \A s \in Sessions : pc[s] \in EndPcs
  /\ \A d \in Deleters : dpc[d] \notin RunningDpcs

\* SIGINT or SIGTERM: the listener is closed.
Signal ==
  /\ phase = "up"
  /\ phase' = "draining"
  /\ UNCHANGED <<queue, map, dog, box, pc, attempt, deletion, todo>>

\* Mutated form of Drained: the handlers are not waited for.
DrainedEarly ==
  /\ phase = "draining"
  /\ phase' = "sweeping"
  /\ todo' = map
  /\ UNCHANGED <<queue, map, dog, box, pc, attempt, deletion>>

\* server.Shutdown returns, and the sessions are collected.
Drained ==
  /\ phase = "draining"
  /\ HandlersDone
  /\ phase' = "sweeping"
  /\ todo' = map
  /\ UNCHANGED <<queue, map, dog, box, pc, attempt, deletion>>

\* The graceful period is over first: log.Fatalf.
GraceOver ==
  /\ phase = "draining"
  /\ ~HandlersDone
  /\ phase' = "killed"
  /\ UNCHANGED <<queue, map, dog, box, pc, attempt, deletion, todo>>

Sweep(s) ==
  /\ phase = "sweeping"
  /\ s \in todo
  /\ Remove(s)
  /\ stops' = [stops EXCEPT ![s] = @ + 1]
  /\ todo' = todo \ {s}
  /\ UNCHANGED <<queue, map, dog, pc, attempt, dpc, released, locked, phase>>

Exit ==
  /\ phase = "sweeping"
  /\ todo = {}
  /\ phase' = "down"
  /\ UNCHANGED <<queue, map, dog, box, pc, attempt, deletion, todo>>

CreateStep(s) ==
  \/ Leave(s) \/ Admit(s) \/ Reject(s) \/ Start(s) \/ StartFails(s)
  \/ Started(s) \/ Crash(s) \/ Attempt(s) \/ Answer(s) \/ NotFound(s)
  \/ Timeout(s) \/ SendFails(s) \/ BadReply(s) \/ FailCancel(s)
  \/ Put(s) \/ Count(s) \/ Arm(s)

DeleteStep(d) == Unregister(d) \/ Forward(d) \/ Abort(d) \/ Cancel(d)

ShutdownStep ==
  Signal \/ Drained \/ GraceOver \/ Exit \/ \E s \in Sessions : Sweep(s)

Next ==
  /\ phase \notin {"down", "killed"}
  /\ \/ \E s \in Sessions : Arrive(s) \/ CreateStep(s)
     \/ \E c \in Clients : Ask(c)
     \/ \E s \in Sessions : Expire(s) \/ Loopback(s)
     \/ \E d \in Deleters : DeleteStep(d)
     \/ ShutdownStep

(***************************************************************************)
(* Handlers run to their end: every wait of create has a timeout, and the  *)
(* client of a DELETE gets an answer or gives up.  An expired timer runs   *)
(* its callback, and shutdown goes on once it has begun.  Nothing obliges  *)
(* a client to send a request, a queued request to leave, a timer to       *)
(* expire, or the process to be signalled.                                 *)
(***************************************************************************)
Fairness ==
  /\ \A s \in Sessions :
        /\ WF_vars(phase \notin {"down", "killed"} /\ pc[s] # "queued"
                     /\ CreateStep(s))
        /\ WF_vars(phase \notin {"down", "killed"} /\ Loopback(s))
        /\ WF_vars(Sweep(s))
  /\ \A d \in Deleters :
        WF_vars(phase \notin {"down", "killed"} /\ DeleteStep(d))
  /\ WF_vars(Drained)
  /\ WF_vars(Exit)

Spec == Init /\ [][Next]_vars /\ Fairness

(***************************************************************************)
(* Properties.                                                             *)
(***************************************************************************)

\* The attempts of create are bounded by -retry-count (a 404 costs one more),
\* and the slots by -limit; a watchdog exists exactly for the sessions that
\* were registered.
TypeOK ==
  /\ phase \in {"up", "draining", "sweeping", "down", "killed"}
  /\ sem \in 0 .. Limit /\ used \in Int /\ pending \in Nat
  /\ map \subseteq Sessions /\ locked \subseteq Sessions
  /\ todo \subseteq map
  /\ dog \in [Sessions -> {"none", "new", "armed", "stopped", "expired"}]
  /\ box \in [Sessions -> {"none", "running", "removed"}]
  /\ pc \in [Sessions -> Pcs]
  /\ \A s \in Sessions : tries[s] \in 0 .. RetryCount + 1
  /\ dpc \in [Deleters -> Dpcs]

\* Every running container has somebody who will stop it: the create handler
\* that started it, the map (and with it the timer and the sweep), or the
\* DELETE handler that took it out of the map.  The exceptions are the
\* panics of those handlers: on a missing URL, on a semaphore that somebody
\* else's double DELETE has emptied, and in the reverse proxy.
NoStrayContainer ==
  \A s \in Sessions : box[s] = "running" =>
     \/ pc[s] \in StartingPcs \union {"cancel"}
     \/ s \in map
     \/ \E d \in Deleters :
           Target(d) = s /\ dpc[d] \in BegunDpcs \ {"found", "done"}
     \/ pc[s] \in {"crashed", "panicked"}

\* More than one DELETE has found the session before one removed it.
Contested(s) ==
  \E d, e \in Deleters :
     /\ d # e /\ Target(d) = s /\ Target(e) = s
     /\ dpc[d] \in BegunDpcs /\ dpc[e] \in BegunDpcs

\* Over all the paths by which create and DELETE end, no slot leaks and none
\* is given back twice, and the counters add up to the slots in use, as long
\* as no session is deleted twice.
SlotsBalanced ==
  (\A s \in Sessions : ~Contested(s)) =>
     /\ sem = Cardinality(Holders)
     /\ used + pending = sem

\* DELETE, the timer's DELETE and the shutdown sweep exclude each other: after
\* an orderly shutdown no registered session has a running container, and
\* sess.Cancel runs at most once for a session that is not deleted twice.
ShutdownSweeps ==
  /\ phase = "down" => \A s \in map : box[s] = "removed"
  /\ \A s \in Sessions : Contested(s) \/ stops[s] <= 1

Ended == phase \in {"down", "killed"}

\* An admitted request is answered, whatever the driver does.
AdmittedSettles ==
  \A s \in Sessions : pc[s] = "admitted" ~> pc[s] \in EndPcs \/ Ended

\* A DELETE that has unregistered its session stops the container, unless
\* its handler is cut short.
DeleteStops ==
  \A d \in Deleters :
     dpc[d] = "forward" ~> \/ box[Target(d)] = "removed"
                           \/ dpc[d] = "aborted"
                           \/ Ended

\* docs/faq.adoc: a session without requests "is automatically closed": while
\* the server is up an expired session leaves the map.  It does if the
\* timer's DELETE is let in without credentials.
TimedOutSessionCloses ==
  \A s \in Sessions : dog[s] = "expired" ~> s \notin map \/ phase # "up"

=============================================================================
