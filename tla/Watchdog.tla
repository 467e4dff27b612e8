------------------------------ MODULE Watchdog ------------------------------
(***************************************************************************)
(* The idle timer of one session (session/watchdog.go).                    *)
(*                                                                         *)
(* A goroutine started by Start sleeps until the deadline it last read,    *)
(* and expires the session when the deadline has passed.  Request          *)
(* goroutines move the deadline (Touch) or settle the timer (Stop,         *)
(* Expire).  Everything is atomics: there is no lock, so every load, store *)
(* and compare-and-swap is a step of its own.                              *)
(*                                                                         *)
(* Time is relative.  A deadline is represented by the time left until it, *)
(* 0 once it has passed; Tick makes one unit of time pass for every clock  *)
(* at once, so no bound on the length of a behaviour is needed.            *)
(***************************************************************************)
EXTENDS Naturals

CONSTANTS
  Timeout,   \* the idle timeout, in ticks (a non-positive one behaves as 0)
  Users      \* goroutines that call Touch, Stop and Expire

Runner == "runner"          \* the goroutine of run()
Threads == Users \union {Runner}

ASSUME TimeoutAssumption == Timeout \in Nat
ASSUME UsersAssumption == Runner \notin Users

VARIABLES
  state,     \* Watchdog.state: "active", "stopped" or "expired"
  started,   \* startOnce has run
  left,      \* time left until Watchdog.deadline
  ctxDone,   \* Watchdog.ctx has been cancelled
  fired,     \* number of invocations of onExpire
  pc,        \* what each goroutine executes next
  seen,      \* time left until the deadline that run() loaded
  timer,     \* time left on run()'s timer
  raced      \* history: a Touch stored a deadline after run() loaded one

vars == <<state, started, left, ctxDone, fired, pc, seen, timer, raced>>

States == {"active", "stopped", "expired"}
Clock == 0 .. Timeout
UserPcs == {"idle", "touch", "stop", "cancel", "fire"}
RunnerPcs == {"unborn", "load", "compare", "sleep", "expire",
              "cancel", "fire", "done"}

Init ==
  /\ state = "active"
  /\ started = FALSE
  /\ left = 0
  /\ ctxDone = FALSE
  /\ fired = 0
  /\ pc = [t \in Threads |-> IF t = Runner THEN "unborn" ELSE "idle"]
  /\ seen = 0
  /\ timer = 0
  /\ raced = FALSE

Goto(t, label) == pc' = [pc EXCEPT ![t] = label]

(***************************************************************************)
(* Request goroutines.                                                     *)
(***************************************************************************)

\* The handler that created the session arms the timer; startOnce makes a
\* second call a no-op.
Start ==
  /\ ~started
  /\ started' = TRUE
  /\ left' = Timeout
  /\ Goto(Runner, "load")
  /\ UNCHANGED <<state, ctxDone, fired, seen, timer, raced>>

\* Touch, first half: load the state; a settled watchdog returns false.
TouchLoad(u) ==
  /\ pc[u] = "idle"
  /\ state = "active"
  /\ Goto(u, "touch")
  /\ UNCHANGED <<state, started, left, ctxDone, fired, seen, timer, raced>>

\* Touch, second half: store the new deadline and return true.
TouchStore(u) ==
  /\ pc[u] = "touch"
  /\ left' = Timeout
  /\ raced' = (raced \/ pc[Runner] \in {"compare", "expire"})
  /\ Goto(u, "idle")
  /\ UNCHANGED <<state, started, ctxDone, fired, seen, timer>>

\* Stop: the compare-and-swap decides, then the context is cancelled.
Stop(u) ==
  /\ pc[u] = "idle"
  /\ state = "active"
  /\ state' = "stopped"
  /\ Goto(u, "stop")
  /\ UNCHANGED <<started, left, ctxDone, fired, seen, timer, raced>>

StopCancel(u) ==
  /\ pc[u] = "stop"
  /\ ctxDone' = TRUE
  /\ Goto(u, "idle")
  /\ UNCHANGED <<state, started, left, fired, seen, timer, raced>>

\* Expire: settle the watchdog at once, whatever the deadline.
Expire(u) ==
  /\ pc[u] = "idle"
  /\ state = "active"
  /\ state' = "expired"
  /\ Goto(u, "cancel")
  /\ UNCHANGED <<started, left, ctxDone, fired, seen, timer, raced>>

\* The two calls that follow a successful expiry, in Expire and in run().
CancelCtx(t) ==
  /\ pc[t] = "cancel"
  /\ ctxDone' = TRUE
  /\ Goto(t, "fire")
  /\ UNCHANGED <<state, started, left, fired, seen, timer, raced>>

\* fireOnce.Do(onExpire).
Fire(t) ==
  /\ pc[t] = "fire"
  /\ fired' = IF fired = 0 THEN 1 ELSE fired
  /\ Goto(t, IF t = Runner THEN "done" ELSE "idle")
  /\ UNCHANGED <<state, started, left, ctxDone, seen, timer, raced>>

(***************************************************************************)
(* The goroutine of run().                                                 *)
(***************************************************************************)

\* deadline.Load()
RunLoad ==
  /\ pc[Runner] = "load"
  /\ seen' = left
  /\ raced' = FALSE
  /\ Goto(Runner, "compare")
  /\ UNCHANGED <<state, started, left, ctxDone, fired, timer>>

\* time.Now(), then either the expiry branch or a new timer.
RunCompare ==
  /\ pc[Runner] = "compare"
  /\ \/ /\ seen = 0
        /\ Goto(Runner, "expire")
        /\ UNCHANGED timer
     \/ /\ seen > 0
        /\ timer' = seen
        /\ Goto(Runner, "sleep")
  /\ UNCHANGED <<state, started, left, ctxDone, fired, seen, raced>>

\* Mutated form of RunWake: after its timer the goroutine does not look at
\* the deadline again.
RunWakeStale ==
  /\ pc[Runner] = "sleep"
  /\ timer = 0
  /\ Goto(Runner, "expire")
  /\ UNCHANGED <<state, started, left, ctxDone, fired, seen, timer, raced>>

\* The timer fires: look at the deadline again.
RunWake ==
  /\ pc[Runner] = "sleep"
  /\ timer = 0
  /\ Goto(Runner, "load")
  /\ UNCHANGED <<state, started, left, ctxDone, fired, seen, timer, raced>>

\* The context is done: stop the timer and return.
RunQuit ==
  /\ pc[Runner] = "sleep"
  /\ ctxDone
  /\ Goto(Runner, "done")
  /\ UNCHANGED <<state, started, left, ctxDone, fired, seen, timer, raced>>

\* Mutated form of RunExpire: a plain store instead of compare-and-swap.
RunExpireAnyway ==
  /\ pc[Runner] = "expire"
  /\ state' = "expired"
  /\ Goto(Runner, "cancel")
  /\ UNCHANGED <<started, left, ctxDone, fired, seen, timer, raced>>

\* Mutated form of RunExpire: the goroutine returns without expiring.
RunExpireDrops ==
  /\ pc[Runner] = "expire"
  /\ Goto(Runner, "done")
  /\ UNCHANGED <<state, started, left, ctxDone, fired, seen, timer, raced>>

\* The deadline has passed: expire unless somebody settled the watchdog.
RunExpire ==
  /\ pc[Runner] = "expire"
  /\ \/ /\ state = "active"
        /\ state' = "expired"
        /\ Goto(Runner, "cancel")
     \/ /\ state # "active"
        /\ Goto(Runner, "done")
        /\ UNCHANGED state
  /\ UNCHANGED <<started, left, ctxDone, fired, seen, timer, raced>>

(***************************************************************************)
(* Time.                                                                   *)
(***************************************************************************)
Earlier(n) == IF n = 0 THEN 0 ELSE n - 1

Tick ==
  /\ left' = Earlier(left)
  /\ seen' = Earlier(seen)
  /\ timer' = Earlier(timer)
  /\ UNCHANGED <<state, started, ctxDone, fired, pc, raced>>

UserStep(u) ==
  \/ TouchLoad(u) \/ TouchStore(u)
  \/ Stop(u) \/ StopCancel(u)
  \/ Expire(u) \/ CancelCtx(u) \/ Fire(u)

RunnerStep ==
  \/ RunLoad \/ RunCompare \/ RunWake \/ RunQuit \/ RunExpire
  \/ CancelCtx(Runner) \/ Fire(Runner)

Next == Start \/ Tick \/ RunnerStep \/ \E u \in Users : UserStep(u)

(***************************************************************************)
(* The Go scheduler runs every goroutine that can run, and the clock goes  *)
(* on; nothing obliges a client to touch, stop or expire the session, but  *)
(* a call that has begun is finished.                                      *)
(***************************************************************************)
Fairness ==
  /\ WF_vars(Tick)
  /\ WF_vars(RunnerStep)
  /\ \A u \in Users :
        WF_vars(TouchStore(u) \/ StopCancel(u) \/ CancelCtx(u) \/ Fire(u))

Spec == Init /\ [][Next]_vars /\ Fairness

(***************************************************************************)
(* Properties.                                                             *)
(***************************************************************************)

\* The state and clocks of the watchdog stay in their ranges; the callback
\* counter never passes one (fireOnce).
TypeOK ==
  /\ state \in States
  /\ started \in BOOLEAN
  /\ left \in Clock /\ seen \in Clock /\ timer \in Clock
  /\ ctxDone \in BOOLEAN /\ raced \in BOOLEAN
  /\ fired \in 0 .. 1
  /\ pc \in [Threads -> UserPcs \union RunnerPcs]

\* At most one goroutine is between winning the compare-and-swap to expired
\* and calling onExpire, only in an expired watchdog, and before the callback
\* has run.  This is the inductive core of the refinement below.
OneExpirer ==
  /\ \A t \in Threads :
        pc[t] \in {"cancel", "fire"} => state = "expired" /\ fired = 0
  /\ \A t, v \in Threads :
        pc[t] \in {"cancel", "fire"} /\ pc[v] \in {"cancel", "fire"} => t = v
  /\ fired = 1 => state = "expired"

\* What run() knows while it decides: unless a Touch came in between, the
\* deadline it loaded is the current one, and it only tries to expire a
\* watchdog whose deadline has passed.  The goroutine exists once Start ran.
DecisionFresh ==
  /\ started <=> pc[Runner] # "unborn"
  /\ pc[Runner] = "compare" => raced \/ left = seen
  /\ pc[Runner] = "expire" => raced \/ left = 0

\* The watchdog implements the one-shot contract: one outcome, one callback,
\* never a callback after a successful Stop (watchdog.go Stop/Expire/fire).
OutcomeOf ==
  [active |-> "pending", stopped |-> "cancelled", expired |-> "expired"]
Contract == INSTANCE OneShot WITH outcome <- OutcomeOf[state], calls <- fired
ImplementsOneShot == Contract!Spec

\* run() never expires a session early: when its compare-and-swap succeeds
\* the current deadline has passed, unless a Touch moved it between run()'s
\* load and the compare-and-swap.
ExpiryOnlyWhenIdle ==
  [][RunnerStep /\ state = "active" /\ state' = "expired"
        => left = 0 \/ raced]_vars

\* A watchdog that is started and no longer touched is settled: the session
\* is stopped or expires (run's loop makes progress).
IdleSessionEnds ==
  <>[](started /\ \A u \in Users : pc[u] # "touch") => <>(state # "active")

=============================================================================
