-------------------------------- MODULE Queue --------------------------------
(***************************************************************************)
(* The admission queue of protect/queue.go: every request that creates a   *)
(* session goes through Try, Check and Protect, and gives its slot back    *)
(* with Drop (no session came of it) or with Create and, at the end of the *)
(* session, Release.                                                       *)
(*                                                                         *)
(* The slots are a golang.org/x/sync/semaphore, which the module models    *)
(* from its use: a count, a first-come-first-served list of waiters, and   *)
(* the set of waiters whose channel has been closed.  Each of its methods  *)
(* is one step, because it runs under the semaphore's mutex.  The three    *)
(* counters are atomics, updated outside that mutex, in steps of their own.*)
(*                                                                         *)
(* The handlers behind the queue are reduced to what they owe it: Drop     *)
(* once, or Create once and then Release once.                             *)
(***************************************************************************)
EXTENDS Integers, Sequences, FiniteSets

CONSTANTS
  Requests,   \* clients; each sends one session request after the other
  Limit       \* -limit

ASSUME LimitAssumption == Limit \in Nat
ASSUME RequestsAssumption == IsFiniteSet(Requests)

VARIABLES
  disabled,  \* -disable-queue: chosen at the start, never changed
  sem,       \* semaphore: slots taken
  waiters,   \* semaphore: requests waiting in Acquire, oldest first
  granted,   \* semaphore: waiters that have been handed a slot
  queued,    \* Queue.queued
  pending,   \* Queue.pending
  used,      \* Queue.used
  pc,        \* where each request is
  noWait,    \* requests that carry X-Selenwright-No-Wait
  gone       \* requests whose client has disconnected

vars == <<disabled, sem, waiters, granted, queued, pending, used, pc, noWait,
          gone>>
semVars == <<sem, waiters, granted>>
counters == <<queued, pending, used>>
request == <<noWait, gone>>

Pcs == {"idle", "try", "tryProbe", "check", "checkProbe", "enter",
        "acquire", "wait", "got", "aborted", "accept", "running",
        "drop", "count", "session", "release"}

\* The points at which a request holds a slot of the semaphore.
HoldingPcs == {"tryProbe", "checkProbe", "got", "accept", "running", "drop",
               "count", "session", "release"}
Holds(r) == pc[r] \in HoldingPcs \/ (pc[r] = "wait" /\ r \in granted)
Holders == {r \in Requests : Holds(r)}

Goto(r, label) == pc' = [pc EXCEPT ![r] = label]

Init ==
  /\ disabled \in BOOLEAN
  /\ sem = 0 /\ waiters = <<>> /\ granted = {}
  /\ queued = 0 /\ pending = 0 /\ used = 0
  /\ pc = [r \in Requests |-> "idle"]
  /\ noWait = {} /\ gone = {}

(***************************************************************************)
(* The semaphore.                                                          *)
(***************************************************************************)
MayTake == sem < Limit /\ waiters = <<>>

\* notifyWaiters: after the count has become s and the list ws, close the
\* channel of the oldest waiter if there is a slot for it.  One slot at most
\* is free when somebody waits, so one waiter is served.
Notify(s, ws) ==
  IF s < Limit /\ ws # <<>>
  THEN /\ sem' = s + 1
       /\ waiters' = Tail(ws)
       /\ granted' = granted \union {Head(ws)}
  ELSE /\ sem' = s
       /\ waiters' = ws
       /\ UNCHANGED granted

\* The list without its i-th element.
Without(ws, i) ==
  [j \in 1 .. Len(ws) - 1 |-> IF j < i THEN ws[j] ELSE ws[j + 1]]

\* Mutated form of SemRelease: the slot is freed but nobody is told.
SemReleaseSilent ==
  /\ sem' = sem - 1
  /\ UNCHANGED <<waiters, granted>>

SemRelease == Notify(sem - 1, waiters)

(***************************************************************************)
(* Try, Check and Protect.                                                 *)
(***************************************************************************)

\* A request arrives, with or without the no-wait header.
Arrive(r) ==
  /\ pc[r] = "idle"
  /\ noWait' \in {noWait, noWait \union {r}}
  /\ Goto(r, "try")
  /\ UNCHANGED <<semVars, counters, gone>>

\* The client of a request that has not become a session disconnects: the
\* request's context is done.
Disconnect(r) ==
  /\ pc[r] \notin {"idle", "session", "release"}
  /\ r \notin gone
  /\ gone' = gone \union {r}
  /\ UNCHANGED <<semVars, counters, pc, noWait>>

\* The handler returns: the client's next request is a new one.
Finish(r) ==
  /\ Goto(r, "idle")
  /\ noWait' = noWait \ {r}
  /\ gone' = gone \ {r}

\* Try: only a request that refuses to wait probes for a free slot.
Try(r) ==
  /\ pc[r] = "try"
  /\ \/ /\ r \notin noWait
        /\ Goto(r, "check")
        /\ UNCHANGED <<semVars, request>>
     \/ /\ r \in noWait /\ MayTake
        /\ sem' = sem + 1
        /\ Goto(r, "tryProbe")
        /\ UNCHANGED <<waiters, granted, request>>
     \/ /\ r \in noWait /\ ~MayTake
        /\ Finish(r)
        /\ UNCHANGED semVars
  /\ UNCHANGED counters

\* Check: with -disable-queue every request probes for a free slot.
Check(r) ==
  /\ pc[r] = "check"
  /\ \/ /\ ~disabled
        /\ Goto(r, "enter")
        /\ UNCHANGED <<semVars, request>>
     \/ /\ disabled /\ MayTake
        /\ sem' = sem + 1
        /\ Goto(r, "checkProbe")
        /\ UNCHANGED <<waiters, granted, request>>
     \/ /\ disabled /\ ~MayTake
        /\ Finish(r)
        /\ UNCHANGED semVars
  /\ UNCHANGED counters

\* hasFreeSlot gives the probed slot back at once.
ProbeRelease(r) ==
  /\ \/ pc[r] = "tryProbe" /\ Goto(r, "check")
     \/ pc[r] = "checkProbe" /\ Goto(r, "enter")
  /\ SemRelease
  /\ UNCHANGED <<counters, request>>

\* Protect, before Acquire.
Enter(r) ==
  /\ pc[r] = "enter"
  /\ queued' = queued + 1
  /\ Goto(r, "acquire")
  /\ UNCHANGED <<semVars, pending, used, request>>

\* Acquire: refuse a dead context, take a free slot, or join the waiters.
Acquire(r) ==
  /\ pc[r] = "acquire"
  /\ \/ /\ r \in gone
        /\ Goto(r, "aborted")
        /\ UNCHANGED semVars
     \/ /\ r \notin gone /\ MayTake
        /\ sem' = sem + 1
        /\ Goto(r, "got")
        /\ UNCHANGED <<waiters, granted>>
     \/ /\ r \notin gone /\ ~MayTake
        /\ waiters' = Append(waiters, r)
        /\ Goto(r, "wait")
        /\ UNCHANGED <<sem, granted>>
  /\ UNCHANGED <<counters, request>>

\* Acquire returns to a waiter that was handed a slot; if its context is done
\* by then the slot goes back.
Wake(r) ==
  /\ pc[r] = "wait"
  /\ r \in granted
  /\ \/ /\ r \notin gone
        /\ granted' = granted \ {r}
        /\ Goto(r, "got")
        /\ UNCHANGED <<sem, waiters>>
     \/ /\ r \in gone
        /\ IF sem - 1 < Limit /\ waiters # <<>>
           THEN /\ UNCHANGED sem
                /\ waiters' = Tail(waiters)
                /\ granted' = (granted \ {r}) \union {Head(waiters)}
           ELSE /\ sem' = sem - 1
                /\ granted' = granted \ {r}
                /\ UNCHANGED waiters
        /\ Goto(r, "aborted")
  /\ UNCHANGED <<counters, request>>

\* A waiter whose context is done leaves the list; if it was the oldest, the
\* next one may be served.
GiveUp(r) ==
  /\ pc[r] = "wait"
  /\ r \in gone \ granted
  /\ \E i \in DOMAIN waiters :
        /\ waiters[i] = r
        /\ IF i = 1
           THEN Notify(sem, Without(waiters, i))
           ELSE /\ waiters' = Without(waiters, i)
                /\ UNCHANGED <<sem, granted>>
  /\ Goto(r, "aborted")
  /\ UNCHANGED <<counters, request>>

\* Acquire has returned an error: leave.
Leave(r) ==
  /\ pc[r] = "aborted"
  /\ queued' = queued - 1
  /\ Finish(r)
  /\ UNCHANGED <<semVars, pending, used>>

\* Acquire has succeeded: two counters, one after the other.
Got(r) ==
  /\ pc[r] = "got"
  /\ queued' = queued - 1
  /\ Goto(r, "accept")
  /\ UNCHANGED <<semVars, pending, used, request>>

Accept(r) ==
  /\ pc[r] = "accept"
  /\ pending' = pending + 1
  /\ Goto(r, "running")
  /\ UNCHANGED <<semVars, queued, used, request>>

(***************************************************************************)
(* Drop, Create and Release.                                               *)
(***************************************************************************)

\* Mutated form of Drop: an error path returns without dropping the slot.
DropForgotten(r) ==
  /\ pc[r] = "running"
  /\ pending' = pending - 1
  /\ Finish(r)
  /\ UNCHANGED <<semVars, queued, used>>

\* Drop, first half; the handler fails.
Drop(r) ==
  /\ pc[r] = "running"
  /\ pending' = pending - 1
  /\ Goto(r, "drop")
  /\ UNCHANGED <<semVars, queued, used, request>>

\* Drop, second half.
DropSlot(r) ==
  /\ pc[r] = "drop"
  /\ SemRelease
  /\ Finish(r)
  /\ UNCHANGED counters

\* Mutated form of Create: used is incremented while the request is still
\* counted as pending.
CreateBoth(r) ==
  /\ pc[r] = "running"
  /\ used' = used + 1
  /\ Goto(r, "count")
  /\ UNCHANGED <<semVars, queued, pending, request>>

\* Create, first half; the handler has made a session.
Create(r) ==
  /\ pc[r] = "running"
  /\ pending' = pending - 1
  /\ Goto(r, "count")
  /\ UNCHANGED <<semVars, queued, used, request>>

\* Create, second half.
CreateUsed(r) ==
  /\ pc[r] = "count"
  /\ used' = used + 1
  /\ Goto(r, "session")
  /\ UNCHANGED <<semVars, queued, pending, request>>

\* Release, first half; the session ends.
Release(r) ==
  /\ pc[r] = "session"
  /\ used' = used - 1
  /\ Goto(r, "release")
  /\ UNCHANGED <<semVars, queued, pending, request>>

\* Mutated form of ReleaseSlot: the semaphore is released twice.
ReleaseSlotTwice(r) ==
  /\ pc[r] = "release"
  /\ Notify(sem - 2, waiters)
  /\ Finish(r)
  /\ UNCHANGED counters

\* Release, second half.
ReleaseSlot(r) ==
  /\ pc[r] = "release"
  /\ SemRelease
  /\ Finish(r)
  /\ UNCHANGED counters

Step(r) ==
  \/ Try(r) \/ Check(r) \/ ProbeRelease(r)
  \/ Enter(r) \/ Acquire(r) \/ Wake(r) \/ GiveUp(r) \/ Leave(r)
  \/ Got(r) \/ Accept(r)
  \/ Drop(r) \/ DropSlot(r) \/ Create(r) \/ CreateUsed(r)
  \/ Release(r) \/ ReleaseSlot(r)

Next ==
  /\ UNCHANGED disabled
  /\ \E r \in Requests : Arrive(r) \/ Disconnect(r) \/ Step(r)

\* Handlers are run to their end, and every session ends: its client deletes
\* it or its idle timer does (module Watchdog).
Fairness == \A r \in Requests : WF_vars(Step(r) /\ UNCHANGED disabled)

Spec == Init /\ [][Next]_vars /\ Fairness

(***************************************************************************)
(* Properties.                                                             *)
(***************************************************************************)

\* Slots and counters are natural numbers (the semaphore panics when it is
\* released more often than acquired), no request waits twice.
TypeOK ==
  /\ disabled \in BOOLEAN
  /\ sem \in Nat /\ queued \in Nat /\ pending \in Nat /\ used \in Nat
  /\ waiters \in Seq(Requests)
  /\ granted \subseteq Requests
  /\ pc \in [Requests -> Pcs]
  /\ noWait \subseteq Requests /\ gone \subseteq Requests

\* The list of waiters holds each request blocked in Acquire once, unless it
\* has been handed a slot.
WaitersExact ==
  /\ granted \subseteq {r \in Requests : pc[r] = "wait"}
  /\ {waiters[i] : i \in DOMAIN waiters}
       = {r \in Requests : pc[r] = "wait"} \ granted
  /\ \A i, j \in DOMAIN waiters : waiters[i] = waiters[j] => i = j

\* Every slot taken from the semaphore is held by exactly one request, probe
\* or session: none leaks, none is returned twice.
SlotConservation ==
  /\ sem = Cardinality(Holders)
  /\ sem <= Limit

\* The two counters that /status and the metrics report never add up to more
\* than -limit, although they are updated outside the semaphore's mutex
\* (Drop, Create and Release order their steps so).
CountersWithinLimit == used + pending <= sem /\ sem <= Limit

\* Nobody waits while a slot is free: no wake-up is lost when a session ends,
\* a probe is undone or a waiter disconnects.
NoLostWakeup == waiters # <<>> => sem = Limit

\* A request that waits gets a slot or leaves; while sessions end, nobody
\* waits for ever.
WaitersServed == \A r \in Requests : pc[r] = "wait" ~> pc[r] # "wait"

\* The queue implements the slot allocator.
Slots == INSTANCE SlotAllocator WITH Clients <- Requests, holders <- Holders
ImplementsSlots == Slots!Spec
=============================================================================
