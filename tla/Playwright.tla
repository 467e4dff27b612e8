----------------------------- MODULE Playwright -----------------------------
(***************************************************************************)
(* The life of a Playwright session (playwright.go), with DELETE of both   *)
(* endpoints, the idle timer and the shutdown sequence of main.go.         *)
(*                                                                         *)
(* playwright runs as long as its session: it starts a container, connects *)
(* to it, upgrades the client's connection and copies frames between the   *)
(* two.  The session ends when either side disconnects, when the idle      *)
(* timer expires, when it is deleted or at shutdown; each of these calls   *)
(* the same clean-up, which runs once, while later callers wait for it.    *)
(* Before the upgrade a deferred list of undo functions takes its place.   *)
(*                                                                         *)
(* Queue and watchdog are single steps, as in module WebDriver.            *)
(***************************************************************************)
EXTENDS Integers, FiniteSets

CONSTANTS
  Requests,     \* upgrade requests, and the sessions made of them
  ExternalIds,  \* session IDs that a router proposes (header
                \* X-Selenwright-External-Session-ID)
  Clients,      \* DELETE requests
  Limit,        \* -limit
  None          \* no request

ASSUME RequestsAssumption == IsFiniteSet(Requests) /\ None \notin Requests
ASSUME IdsAssumption == Requests \intersect ExternalIds = {}
ASSUME LimitAssumption == Limit \in Nat

\* A generated ID is unique, and is represented by its request.
Ids == Requests \union ExternalIds

VARIABLES
  phase,     \* of the process: "up", "draining", "sweeping", "down", "killed"
  sem,       \* queue: slots taken
  used,      \* queue: the counter of sessions
  pending,   \* queue: the counter of requests being started
  map,       \* app.sessions: the request whose session has an ID, or None
  sid,       \* the session ID of each request
  dog,       \* Watchdog of each session
  box,       \* container of each session
  pc,        \* where each playwright handler is
  once,      \* progress of the clean-up of each session
  by,        \* who runs it
  dpc,       \* where each DELETE is
  via,       \* the endpoint it was sent to: "playwright" or "hub"
  dsess,     \* the session it has looked up
  locked,    \* sessions whose lock is never released again
  released,  \* how often the slot of a session was released
  todo       \* shutdown: sessions still to be cancelled

vars == <<phase, sem, used, pending, map, sid, dog, box, pc, once, by, dpc,
          via, dsess, locked, released, todo>>
queue == <<sem, used, pending>>
cleanup == <<once, by>>
deletion == <<dpc, via, dsess, locked>>
ask == <<via, dsess>>
shutdown == <<phase, todo>>

\* The handler is waited for by server.Shutdown only until it has taken the
\* connection over.
TrackedPcs == {"admitted", "starting", "dialled", "named", "undo", "drop"}
HijackedPcs == {"upgraded", "count", "arm", "tunnel", "closing"}
Pcs == TrackedPcs \union HijackedPcs
         \union {"idle", "failed", "panicked", "ended"}
CleanupSteps == {"free", "closed", "stopped", "removed", "done"}
Actors == {"nobody", "handler", "timer", "delete", "sweep"}
RunningDpcs == {"asked", "found", "forward", "cancel"}
Dpcs == RunningDpcs \union {"idle", "done", "aborted", "panicked"}

Ended == phase \in {"down", "killed"}

\* The session, or the request for it, owns a slot.
Holds(h) ==
  pc[h] \notin {"idle", "failed", "panicked"} /\ released[h] = 0
Holders == {h \in Requests : Holds(h)}

Init ==
  /\ phase = "up" /\ todo = {}
  /\ sem = 0 /\ used = 0 /\ pending = 0
  /\ map = [i \in Ids |-> None]
  /\ sid = [h \in Requests |-> h]
  /\ dog = [h \in Requests |-> "none"]
  /\ box = [h \in Requests |-> "none"]
  /\ pc = [h \in Requests |-> "idle"]
  /\ once = [h \in Requests |-> "free"]
  /\ by = [h \in Requests |-> "nobody"]
  /\ dpc = [c \in Clients |-> "idle"]
  /\ via = [c \in Clients |-> "none"]
  /\ dsess = [c \in Clients |-> None]
  /\ locked = {}
  /\ released = [h \in Requests |-> 0]

Goto(h, label) == pc' = [pc EXCEPT ![h] = label]
DeleteGoto(c, label) == dpc' = [dpc EXCEPT ![c] = label]
Remove(h) == box' = [box EXCEPT ![h] = "removed"]
Unmap(h) == map' = [map EXCEPT ![sid[h]] = None]

\* Queue.Drop, after which the handler returns; it panics when the semaphore
\* has been released too often.
DropAndReturn(h) ==
  /\ pending' = pending - 1
  /\ \/ sem > 0 /\ sem' = sem - 1 /\ Goto(h, "failed")
     \/ sem = 0 /\ sem' = sem /\ Goto(h, "panicked")
  /\ UNCHANGED used

(***************************************************************************)
(* playwright, up to the upgrade.                                          *)
(***************************************************************************)

\* A request comes through the queue.
Admit(h) ==
  /\ phase = "up"
  /\ pc[h] = "idle"
  /\ sem < Limit
  /\ sem' = sem + 1
  /\ pending' = pending + 1
  /\ Goto(h, "admitted")
  /\ UNCHANGED <<used, map, sid, dog, box, cleanup, deletion, released,
                 shutdown>>

\* A bad path, no WebSocket, refused capabilities, no such browser.
Reject(h) ==
  /\ pc[h] = "admitted"
  /\ DropAndReturn(h)
  /\ UNCHANGED <<map, sid, dog, box, cleanup, deletion, released, shutdown>>

Start(h) ==
  /\ pc[h] = "admitted"
  /\ box' = [box EXCEPT ![h] = "running"]
  /\ Goto(h, "starting")
  /\ UNCHANGED <<queue, map, sid, dog, cleanup, deletion, released, shutdown>>

\* StartWithCancel fails and has removed its container; only Drop is deferred.
StartFails(h) ==
  /\ pc[h] = "starting"
  /\ Remove(h)
  /\ Goto(h, "drop")
  /\ UNCHANGED <<queue, map, sid, dog, cleanup, deletion, released, shutdown>>

\* StartWithCancel and the connection to the container succeed.
Dial(h) ==
  /\ pc[h] = "starting"
  /\ Goto(h, "dialled")
  /\ UNCHANGED <<queue, map, sid, dog, box, cleanup, deletion, released,
                 shutdown>>

\* An image without a Playwright URL, a failed connection, a refused session
\* ID or a failed upgrade: the deferred functions run, last in first out.
Undo(h) ==
  /\ pc[h] \in {"starting", "dialled", "named"}
  /\ Goto(h, "undo")
  /\ UNCHANGED <<queue, map, sid, dog, box, cleanup, deletion, released,
                 shutdown>>

UndoCancel(h) ==
  /\ pc[h] = "undo"
  /\ Remove(h)
  /\ Goto(h, "drop")
  /\ UNCHANGED <<queue, map, sid, dog, cleanup, deletion, released, shutdown>>

UndoDrop(h) ==
  /\ pc[h] = "drop"
  /\ DropAndReturn(h)
  /\ UNCHANGED <<map, sid, dog, box, cleanup, deletion, released, shutdown>>

\* resolvePlaywrightSessionID: the ID that the router proposes, unless the map
\* holds a session of that ID, or a generated one.
Resolve(h) ==
  /\ pc[h] = "dialled"
  /\ \E i \in ExternalIds \union {h} :
        /\ map[i] = None
        /\ sid' = [sid EXCEPT ![h] = i]
  /\ Goto(h, "named")
  /\ UNCHANGED <<queue, map, dog, box, cleanup, deletion, released, shutdown>>

\* The client's connection is taken over, and the undo list is dropped.
Upgrade(h) ==
  /\ pc[h] = "named"
  /\ Goto(h, "upgraded")
  /\ UNCHANGED <<queue, map, sid, dog, box, cleanup, deletion, released,
                 shutdown>>

(***************************************************************************)
(* playwright, the session.                                                *)
(***************************************************************************)

\* sessions.Put: whatever the map holds under this ID is overwritten.
Put(h) ==
  /\ pc[h] = "upgraded"
  /\ map' = [map EXCEPT ![sid[h]] = h]
  /\ dog' = [dog EXCEPT ![h] = "new"]
  /\ Goto(h, "count")
  /\ UNCHANGED <<queue, sid, box, cleanup, deletion, released, shutdown>>

\* Queue.Create
Count(h) ==
  /\ pc[h] = "count"
  /\ pending' = pending - 1
  /\ used' = used + 1
  /\ Goto(h, "arm")
  /\ UNCHANGED <<sem, map, sid, dog, box, cleanup, deletion, released,
                 shutdown>>

\* Watchdog.Start, which has no effect on a watchdog that was stopped before;
\* the two copying goroutines are started.
Arm(h) ==
  /\ pc[h] = "arm"
  /\ dog' = IF dog[h] = "new" THEN [dog EXCEPT ![h] = "armed"] ELSE dog
  /\ Goto(h, "tunnel")
  /\ UNCHANGED <<queue, map, sid, box, cleanup, deletion, released, shutdown>>

\* The client or the container disconnects: a copying goroutine returns.
Disconnect(h) ==
  /\ pc[h] = "tunnel"
  /\ once[h] = "free"
  /\ Goto(h, "closing")
  /\ UNCHANGED <<queue, map, sid, dog, box, cleanup, deletion, released,
                 shutdown>>

\* The clean-up has closed the connections: the copying goroutines return.
TunnelCloses(h) ==
  /\ pc[h] = "tunnel"
  /\ once[h] # "free"
  /\ Goto(h, "closing")
  /\ UNCHANGED <<queue, map, sid, dog, box, cleanup, deletion, released,
                 shutdown>>

\* The clean-up has been run, by the handler or by somebody it has waited
\* for, and the second copying goroutine has returned.
Return(h) ==
  /\ pc[h] = "closing"
  /\ once[h] = "done"
  /\ Goto(h, "ended")
  /\ UNCHANGED <<queue, map, sid, dog, box, cleanup, deletion, released,
                 shutdown>>

\* The idle timer (module Watchdog).
Expire(h) ==
  /\ dog[h] = "armed"
  /\ dog' = [dog EXCEPT ![h] = "expired"]
  /\ UNCHANGED <<queue, map, sid, box, pc, cleanup, deletion, released,
                 shutdown>>

(***************************************************************************)
(* cleanup.                                                                *)
(***************************************************************************)

\* Mutated form of MayRun: the timer's callback does nothing.
MayRunNotTimer(h, actor) ==
  \/ actor = "handler" /\ pc[h] = "closing"
  \/ actor = "delete" /\ \E c \in Clients : dpc[c] = "cancel" /\ dsess[c] = h
  \/ actor = "sweep" /\ phase = "sweeping" /\ h \in todo

\* Who has called cleanup, and may run it.
MayRun(h, actor) ==
  \/ actor = "handler" /\ pc[h] = "closing"
  \/ actor = "timer" /\ dog[h] = "expired"
  \/ actor = "delete" /\ \E c \in Clients : dpc[c] = "cancel" /\ dsess[c] = h
  \/ /\ actor = "sweep" /\ phase = "sweeping" /\ h \in todo
     /\ \A g \in Requests : by[g] = "sweep" => once[g] = "done"

\* cleanupOnce.Do: the watchdog is stopped, log sink and connections closed.
Begin(h) ==
  /\ once[h] = "free"
  /\ \E a \in Actors :
        /\ MayRun(h, a)
        /\ by' = [by EXCEPT ![h] = a]
  /\ once' = [once EXCEPT ![h] = "closed"]
  /\ dog' = IF dog[h] \in {"new", "armed"}
              THEN [dog EXCEPT ![h] = "stopped"] ELSE dog
  /\ UNCHANGED <<queue, map, sid, box, pc, deletion, released, shutdown>>

\* Downloads are captured, and serviceCancel stops the container.
StopService(h) ==
  /\ once[h] = "closed"
  /\ Remove(h)
  /\ once' = [once EXCEPT ![h] = "stopped"]
  /\ UNCHANGED <<queue, map, sid, dog, pc, by, deletion, released, shutdown>>

\* The log file is finished; sessions.Remove, by ID.
RemoveEntry(h) ==
  /\ once[h] = "stopped"
  /\ Unmap(h)
  /\ once' = [once EXCEPT ![h] = "removed"]
  /\ UNCHANGED <<queue, sid, dog, box, pc, by, deletion, released, shutdown>>

\* Mutated form of Release: the counter is decremented, the slot is kept.
ReleaseCounterOnly(h) ==
  /\ once[h] = "removed"
  /\ once' = [once EXCEPT ![h] = "done"]
  /\ used' = used - 1
  /\ released' = [released EXCEPT ![h] = @ + 1]
  /\ UNCHANGED <<sem, pending, map, sid, dog, box, pc, by, deletion, shutdown>>

\* Queue.Release, and SessionStopped is published.  A panic of the semaphore
\* ends the clean-up; in a goroutine of the HTTP server it is recovered, in
\* the timer's or the main one it ends the process.
Release(h) ==
  /\ once[h] = "removed"
  /\ once' = [once EXCEPT ![h] = "done"]
  /\ used' = used - 1
  /\ \/ /\ sem > 0
        /\ sem' = sem - 1
        /\ released' = [released EXCEPT ![h] = @ + 1]
        /\ UNCHANGED phase
     \/ /\ sem = 0
        /\ phase' = IF by[h] \in {"timer", "sweep"} THEN "killed" ELSE phase
        /\ UNCHANGED <<sem, released>>
  /\ UNCHANGED <<pending, map, sid, dog, box, pc, by, deletion, todo>>

(***************************************************************************)
(* DELETE.                                                                 *)
(***************************************************************************)

LookUp(c, endpoint) ==
  /\ phase = "up"
  /\ dpc[c] = "idle"
  /\ \E i \in Ids :
        /\ map[i] # None
        /\ dsess' = [dsess EXCEPT ![c] = map[i]]
  /\ via' = [via EXCEPT ![c] = endpoint]
  /\ UNCHANGED <<queue, map, sid, dog, box, pc, cleanup, locked, released,
                 shutdown>>

\* DELETE /playwright/session/<id> finds the session.
Ask(c) == LookUp(c, "playwright") /\ DeleteGoto(c, "asked")

\* It reads sess.Cancel under the session's lock, and calls it.
TakeCancel(c) ==
  /\ dpc[c] = "asked"
  /\ dsess[c] \notin locked
  /\ DeleteGoto(c, "cancel")
  /\ UNCHANGED <<queue, map, sid, dog, box, pc, cleanup, ask, locked, released,
                 shutdown>>

\* DELETE /wd/hub/session/<id> finds it too: proxy does not look at the
\* session's protocol.
AskHub(c) == LookUp(c, "hub") /\ DeleteGoto(c, "found")

\* proxy, under sess.Lock (module WebDriver).
Unregister(c) ==
  LET h == dsess[c] IN
  /\ dpc[c] = "found"
  /\ h \notin locked
  /\ dog' = IF dog[h] \in {"new", "armed"}
              THEN [dog EXCEPT ![h] = "stopped"] ELSE dog
  /\ Unmap(h)
  /\ used' = used - 1
  /\ \/ /\ sem > 0
        /\ sem' = sem - 1
        /\ released' = [released EXCEPT ![h] = @ + 1]
        /\ DeleteGoto(c, "forward")
        /\ UNCHANGED locked
     \/ /\ sem = 0
        /\ locked' = locked \union {h}
        /\ DeleteGoto(c, "panicked")
        /\ UNCHANGED <<sem, released>>
  /\ UNCHANGED <<pending, sid, box, pc, cleanup, ask, shutdown>>

\* The reverse proxy returns, or panics.
Forward(c) ==
  /\ dpc[c] = "forward"
  /\ \E label \in {"cancel", "aborted"} : DeleteGoto(c, label)
  /\ UNCHANGED <<queue, map, sid, dog, box, pc, cleanup, ask, locked,
                 released, shutdown>>

\* Mutated form of Deleted: the caller does not wait for a clean-up that
\* somebody else runs.
DeletedAtOnce(c) ==
  /\ dpc[c] = "cancel"
  /\ once[dsess[c]] # "free"
  /\ DeleteGoto(c, "done")
  /\ UNCHANGED <<queue, map, sid, dog, box, pc, cleanup, ask, locked,
                 released, shutdown>>

\* sess.Cancel returns.
Deleted(c) ==
  /\ dpc[c] = "cancel"
  /\ once[dsess[c]] = "done"
  /\ DeleteGoto(c, "done")
  /\ UNCHANGED <<queue, map, sid, dog, box, pc, cleanup, ask, locked,
                 released, shutdown>>

(***************************************************************************)
(* Shutdown (main.go).                                                     *)
(***************************************************************************)
HandlersDone ==
  /\ \A h \in Requests : pc[h] \notin TrackedPcs
  /\ \A c \in Clients : dpc[c] \notin RunningDpcs

Signal ==
  /\ phase = "up"
  /\ phase' = "draining"
  /\ UNCHANGED <<queue, map, sid, dog, box, pc, cleanup, deletion, released,
                 todo>>

\* server.Shutdown returns: it has not waited for hijacked connections.
Drained ==
  /\ phase = "draining"
  /\ HandlersDone
  /\ phase' = "sweeping"
  /\ todo' = {map[i] : i \in Ids} \ {None}
  /\ UNCHANGED <<queue, map, sid, dog, box, pc, cleanup, deletion, released>>

GraceOver ==
  /\ phase = "draining"
  /\ ~HandlersDone
  /\ phase' = "killed"
  /\ UNCHANGED <<queue, map, sid, dog, box, pc, cleanup, deletion, released,
                 todo>>

\* Cancel returns for one session: its clean-up is over.
Swept(h) ==
  /\ phase = "sweeping"
  /\ h \in todo
  /\ once[h] = "done"
  /\ todo' = todo \ {h}
  /\ UNCHANGED <<queue, map, sid, dog, box, pc, cleanup, deletion, released,
                 phase>>

Exit ==
  /\ phase = "sweeping"
  /\ todo = {}
  /\ phase' = "down"
  /\ UNCHANGED <<queue, map, sid, dog, box, pc, cleanup, deletion, released,
                 todo>>

\* What the handler of a request does of its own accord.
HandlerStep(h) ==
  \/ Reject(h) \/ Start(h) \/ StartFails(h) \/ Dial(h) \/ Undo(h)
  \/ UndoCancel(h) \/ UndoDrop(h) \/ Resolve(h) \/ Upgrade(h)
  \/ Put(h) \/ Count(h) \/ Arm(h) \/ TunnelCloses(h) \/ Return(h)

CleanupStep(h) == Begin(h) \/ StopService(h) \/ RemoveEntry(h) \/ Release(h)

DeleteStep(c) == TakeCancel(c) \/ Unregister(c) \/ Forward(c) \/ Deleted(c)

ShutdownStep ==
  Signal \/ Drained \/ GraceOver \/ Exit \/ \E h \in Requests : Swept(h)

Next ==
  /\ ~Ended
  /\ \/ \E h \in Requests : Admit(h) \/ HandlerStep(h) \/ Disconnect(h)
     \/ \E h \in Requests : Expire(h) \/ CleanupStep(h)
     \/ \E c \in Clients : Ask(c) \/ AskHub(c) \/ DeleteStep(c)
     \/ ShutdownStep

\* What goes on without a client, a timer or a signal.
SystemStep ==
  \/ \E h \in Requests : HandlerStep(h) \/ CleanupStep(h) \/ Swept(h)
  \/ \E c \in Clients : DeleteStep(c)
  \/ Drained \/ Exit

(***************************************************************************)
(* Every wait of the handler has a timeout up to the upgrade, and a        *)
(* clean-up that has begun goes on; a client is not obliged to disconnect, *)
(* a timer to expire.  No step can be repeated for ever, so that it is     *)
(* enough to say that the system does not stop while it can take one.      *)
(***************************************************************************)
Fairness == WF_vars(~Ended /\ SystemStep)

Spec == Init /\ [][Next]_vars /\ Fairness

(***************************************************************************)
(* Properties.                                                             *)
(***************************************************************************)

\* The types; no more than the slots taken is released, the clean-ups that
\* shutdown counts never fall below zero, and a clean-up that has begun has an
\* actor.
TypeOK ==
  /\ phase \in {"up", "draining", "sweeping", "down", "killed"}
  /\ sem \in Nat /\ used \in Int /\ pending \in Nat
  /\ map \in [Ids -> Requests \union {None}]
  /\ sid \in [Requests -> Ids]
  /\ dog \in [Requests -> {"none", "new", "armed", "stopped", "expired"}]
  /\ box \in [Requests -> {"none", "running", "removed"}]
  /\ pc \in [Requests -> Pcs]
  /\ once \in [Requests -> CleanupSteps]
  /\ by \in [Requests -> Actors]
  /\ \A h \in Requests : once[h] = "free" <=> by[h] = "nobody"
  /\ dpc \in [Clients -> Dpcs]
  /\ via \in [Clients -> {"none", "playwright", "hub"}]
  /\ dsess \in [Clients -> Requests \union {None}]
  /\ released \in [Requests -> Nat]
  /\ locked \subseteq Requests /\ todo \subseteq Requests

\* The session was deleted at the hub's endpoint, which releases its slot
\* although the clean-up will.
HubDeleted(h) == \E c \in Clients : via[c] = "hub" /\ dsess[c] = h

\* Over all the paths by which a session fails and ends, its slot is given
\* back exactly once.
SlotsBalanced ==
  (\A h \in Requests : ~HubDeleted(h)) =>
     /\ sem = Cardinality(Holders)
     /\ used + pending = sem

\* 204: when DELETE returns the session is gone, whoever ran its clean-up.
DeletedMeansGone ==
  \A c \in Clients : dpc[c] = "done" =>
     /\ box[dsess[c]] = "removed"
     /\ \A i \in Ids : map[i] # dsess[c]

\* A session that has begun to end, by its timer, its connections or its
\* clean-up, ends: the container is stopped, and the handler returns after its
\* copying goroutines.
Ending(h) == dog[h] = "expired" \/ once[h] # "free" \/ pc[h] = "closing"
EndingsFinish ==
  <>[](Ended \/ \A h \in Requests :
          Ending(h) => pc[h] = "ended" /\ box[h] = "removed")

=============================================================================
