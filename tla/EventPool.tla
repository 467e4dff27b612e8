----------------------------- MODULE EventPool -----------------------------
(***************************************************************************)
(* The pool that runs the listeners of session events (event/event.go),    *)
(* the events that a session's clean-up publishes, and Shutdown.           *)
(*                                                                         *)
(* The clean-up of a session publishes the log file it has made and then   *)
(* that the session has stopped.  publish hands one job for each listener  *)
(* to the workers through the bounded channel poolWork.  The listeners are *)
(* Upload.OnFileCreated, the artifact history and, in a build with the tag *)
(* metadata, MetadataProcessor, which writes a file and publishes that     *)
(* from inside its own job, on a worker.                                   *)
(*                                                                         *)
(* Shutdown closes poolStop and then poolWork.  A publisher that sees      *)
(* poolStop closed runs its job on a goroutine of its own, which nobody    *)
(* waits for.  StartPool has run before the server accepts requests.       *)
(***************************************************************************)
EXTENDS Naturals, Sequences, FiniteSets

CONSTANTS
  Sessions,   \* sessions that end; each also names the goroutine that ends it
  Logged,     \* those of them that have a log file
  Workers,    \* the pool's goroutines, -event-workers
  BufSize,    \* capacity of poolWork
  None        \* no job, no session

ASSUME WorkersAssumption == IsFiniteSet(Workers) /\ Workers # {}
ASSUME LoggedAssumption == Logged \subseteq Sessions
ASSUME BufAssumption == BufSize \in Nat \ {0}

\* The closures that publish makes: a listener's method and its argument.
\* "log" and "meta" are OnFileCreated for the log and for the metadata file,
\* OnFileCreated starts the upload on a goroutine of its own and returns;
\* "history" and "metadata" are the two OnSessionStopped.
Jobs == {"log", "history", "metadata", "meta"} \X Sessions

ASSUME NamesAssumption ==
  /\ Sessions \intersect Workers = {}
  /\ Jobs \intersect (Sessions \union Workers) = {}
  /\ None \notin Jobs

\* What the clean-up of s publishes, listener by listener.
Published(s) ==
  (IF s \in Logged THEN << <<"log", s>> >> ELSE <<>>)
     \o << <<"history", s>>, <<"metadata", s>> >>

\* What a job may publish while it runs: MetadataProcessor nothing, when there
\* is no directory for logs or the file cannot be made.
Derived(j) ==
  {<<>>} \union IF j[1] = "metadata" THEN { << <<"meta", j[2]>> >> } ELSE {}

InSeq(x, q) == \E i \in 1 .. Len(q) : q[i] = x

\* Goroutines; one that publish has spawned is named by its job.
Goroutines == Sessions \union Workers \union Jobs

VARIABLES
  queue,      \* poolWork
  sendq,      \* the goroutines blocked in publish, in order
  stopped,    \* poolStop is closed
  workClosed, \* poolWork is closed
  where,      \* where each goroutine is
  todo,       \* the jobs it has yet to publish
  job,        \* the job it runs
  finished,   \* jobs that have returned
  main,       \* main's progress through the shutdown
  sweeps,     \* the session that main is cancelling
  crashed     \* a send on the closed channel has panicked

pool == <<queue, sendq, stopped, workClosed>>
shutdown == <<main, sweeps, crashed>>
poolVars == <<pool, where, todo, job, finished, shutdown>>

Pcs == {"unborn", "idle", "run", "send", "blocked", "told", "done"}
MainPcs == {"serving", "sweeping", "stopping", "draining", "drained",
            "exited"}

Alive == main # "exited" /\ ~crashed

PoolInit ==
  /\ queue = <<>> /\ sendq = <<>>
  /\ stopped = FALSE /\ workClosed = FALSE
  /\ where = [t \in Goroutines |-> IF t \in Workers THEN "idle" ELSE "unborn"]
  /\ todo = [t \in Goroutines |-> <<>>]
  /\ job = [t \in Goroutines |-> None]
  /\ finished = {}
  /\ main = "serving" /\ sweeps = None /\ crashed = FALSE

(***************************************************************************)
(* publish, in any goroutine.                                              *)
(***************************************************************************)

\* go job(): the goroutine t has dealt with its next job.
Spawn(t) ==
  LET j == Head(todo[t]) IN
    /\ where' = [where EXCEPT ![t] = "run", ![j] = "run"]
    /\ \E d \in Derived(j) : todo' = [todo EXCEPT ![t] = Tail(@), ![j] = d]
    /\ job' = [job EXCEPT ![j] = j]

\* The first select: is the pool stopped?
Check(t) ==
  /\ where[t] = "run"
  /\ todo[t] # <<>>
  /\ IF stopped
       THEN Spawn(t)
       ELSE where' = [where EXCEPT ![t] = "send"] /\ UNCHANGED <<todo, job>>
  /\ UNCHANGED <<pool, finished, shutdown>>

\* The second select, the channel is open and has room.
Send(t) ==
  /\ where[t] = "send"
  /\ ~workClosed
  /\ Len(queue) < BufSize
  /\ queue' = Append(queue, Head(todo[t]))
  /\ todo' = [todo EXCEPT ![t] = Tail(@)]
  /\ where' = [where EXCEPT ![t] = "run"]
  /\ UNCHANGED <<sendq, stopped, workClosed, job, finished, shutdown>>

\* The second select, no case is ready.
Block(t) ==
  /\ where[t] = "send"
  /\ ~stopped
  /\ Len(queue) = BufSize
  /\ sendq' = Append(sendq, t)
  /\ where' = [where EXCEPT ![t] = "blocked"]
  /\ UNCHANGED <<queue, stopped, workClosed, todo, job, finished, shutdown>>

\* Mutated form of SendStopped: the job is dropped.
SendStoppedDrops(t) ==
  /\ where[t] = "told" \/ (where[t] = "send" /\ stopped)
  /\ where' = [where EXCEPT ![t] = "run"]
  /\ todo' = [todo EXCEPT ![t] = Tail(@)]
  /\ UNCHANGED <<pool, job, finished, shutdown>>

\* The second select, poolStop is closed; also when it is closed while the
\* goroutine is blocked.
SendStopped(t) ==
  /\ where[t] = "told" \/ (where[t] = "send" /\ stopped)
  /\ Spawn(t)
  /\ UNCHANGED <<pool, finished, shutdown>>

\* The second select, reached after both channels were closed, may choose the
\* send: select takes any ready case, and a closed channel is ready.  On a
\* worker the panic ends the process; on the goroutine of an HTTP handler
\* net/http recovers it, and what the handler had yet to publish is lost.
\* Both are "crashed" here, and nothing is said of what comes after.
SendPanics(t) ==
  /\ where[t] = "send"
  /\ workClosed
  /\ crashed' = TRUE
  /\ UNCHANGED <<pool, where, todo, job, finished, main, sweeps>>

(***************************************************************************)
(* The goroutines that publish and those that run jobs.                    *)
(***************************************************************************)

\* The clean-up of s comes to its events: its session was deleted, timed out,
\* or lost its connection.  (Main's own call of it is Sweep.)
Begin(s) ==
  /\ where[s] = "unborn"
  /\ where' = [where EXCEPT ![s] = "run"]
  /\ todo' = [todo EXCEPT ![s] = Published(s)]
  /\ UNCHANGED <<pool, job, finished, shutdown>>

\* The clean-up has published everything.
End(s) ==
  /\ where[s] = "run"
  /\ todo[s] = <<>>
  /\ where' = [where EXCEPT ![s] = "done"]
  /\ sweeps' = IF sweeps = s THEN None ELSE sweeps
  /\ UNCHANGED <<pool, todo, job, finished, main, crashed>>

\* Mutated form of Take: the goroutine whose job comes in is not woken.
TakeOnly(w) ==
  /\ where[w] = "idle"
  /\ queue # <<>>
  /\ queue' = Tail(queue)
  /\ where' = [where EXCEPT ![w] = "run"]
  /\ \E d \in Derived(Head(queue)) : todo' = [todo EXCEPT ![w] = d]
  /\ job' = [job EXCEPT ![w] = Head(queue)]
  /\ UNCHANGED <<sendq, stopped, workClosed, finished, shutdown>>

\* A worker receives a job; the first blocked goroutine's job takes its place.
Take(w) ==
  /\ where[w] = "idle"
  /\ queue # <<>>
  /\ IF sendq = <<>>
       THEN /\ queue' = Tail(queue)
            /\ where' = [where EXCEPT ![w] = "run"]
            /\ \E d \in Derived(Head(queue)) : todo' = [todo EXCEPT ![w] = d]
            /\ UNCHANGED sendq
       ELSE LET t == Head(sendq) IN
            /\ queue' = Append(Tail(queue), Head(todo[t]))
            /\ sendq' = Tail(sendq)
            /\ where' = [where EXCEPT ![w] = "run", ![t] = "run"]
            /\ \E d \in Derived(Head(queue)) :
                 todo' = [todo EXCEPT ![w] = d, ![t] = Tail(@)]
  /\ job' = [job EXCEPT ![w] = Head(queue)]
  /\ UNCHANGED <<stopped, workClosed, finished, shutdown>>

\* The job of t returns.
Finish(t) ==
  /\ where[t] = "run"
  /\ job[t] # None
  /\ todo[t] = <<>>
  /\ finished' = finished \union {job[t]}
  /\ where' = [where EXCEPT ![t] = IF t \in Workers THEN "idle" ELSE "done"]
  /\ job' = [job EXCEPT ![t] = None]
  /\ UNCHANGED <<pool, todo, shutdown>>

\* Mutated form of Leave: the worker leaves its loop when the pool is stopped.
LeaveEarly(w) ==
  /\ where[w] = "idle"
  /\ workClosed
  /\ where' = [where EXCEPT ![w] = "done"]
  /\ UNCHANGED <<pool, todo, job, finished, shutdown>>

\* The channel is closed and empty: the worker's loop ends.
Leave(w) ==
  /\ where[w] = "idle"
  /\ workClosed /\ queue = <<>>
  /\ where' = [where EXCEPT ![w] = "done"]
  /\ UNCHANGED <<pool, todo, job, finished, shutdown>>

(***************************************************************************)
(* main.                                                                   *)
(***************************************************************************)

\* The signal has come and the server has shut down.
Signal ==
  /\ main = "serving"
  /\ main' = "sweeping"
  /\ UNCHANGED <<pool, where, todo, job, finished, sweeps, crashed>>

\* main cancels a session that is still registered, and publishes its events.
Sweep(s) ==
  /\ main = "sweeping"
  /\ sweeps = None
  /\ where[s] = "unborn"
  /\ sweeps' = s
  /\ where' = [where EXCEPT ![s] = "run"]
  /\ todo' = [todo EXCEPT ![s] = Published(s)]
  /\ UNCHANGED <<pool, job, finished, main, crashed>>

\* main cancels a Playwright session whose clean-up is under way and has not
\* unregistered it yet, which it does after publishing the log: main waits.
Await(s) ==
  /\ main = "sweeping"
  /\ sweeps = None
  /\ InSeq(<<"log", s>>, todo[s])
  /\ sweeps' = s
  /\ UNCHANGED <<pool, where, todo, job, finished, main, crashed>>

\* Shutdown closes poolStop, which ends every publish that is blocked.
\* (Sessions that main's list does not have may end later.)
StopPool ==
  /\ main = "sweeping" /\ sweeps = None
  /\ stopped' = TRUE
  /\ sendq' = <<>>
  /\ where' = [t \in Goroutines |-> IF where[t] = "blocked" THEN "told" ELSE where[t]]
  /\ main' = "stopping"
  /\ UNCHANGED <<queue, workClosed, todo, job, finished, sweeps, crashed>>

\* Shutdown closes poolWork.
CloseWork ==
  /\ main = "stopping"
  /\ workClosed' = TRUE
  /\ main' = "draining"
  /\ UNCHANGED <<queue, sendq, stopped, where, todo, job, finished, sweeps, crashed>>

\* Shutdown returns nil: every worker has left.
Drained ==
  /\ main = "draining"
  /\ \A w \in Workers : where[w] = "done"
  /\ main' = "drained"
  /\ UNCHANGED <<pool, where, todo, job, finished, sweeps, crashed>>

\* Shutdown returns the context's error, and main returns.
TimedOut ==
  /\ main = "draining"
  /\ main' = "exited"
  /\ UNCHANGED <<pool, where, todo, job, finished, sweeps, crashed>>

\* main returns, and with it every goroutine ends.
Exit ==
  /\ main = "drained"
  /\ main' = "exited"
  /\ UNCHANGED <<pool, where, todo, job, finished, sweeps, crashed>>

(***************************************************************************)

Publish(t) == Check(t) \/ Send(t) \/ Block(t) \/ SendStopped(t) \/ SendPanics(t)
SessionStep(s) == Publish(s) \/ End(s)
WorkerStep(w) == Take(w) \/ Publish(w) \/ Finish(w) \/ Leave(w)
JobStep(j) == Publish(j) \/ Finish(j)
ShutdownStep == StopPool \/ CloseWork \/ Drained \/ TimedOut \/ Exit

\* Steps that are taken whenever nothing else is.
MustRun ==
  /\ Alive
  /\ \/ \E s \in Sessions : SessionStep(s)
     \/ \E w \in Workers : WorkerStep(w)
     \/ \E j \in Jobs : JobStep(j)
     \/ ShutdownStep

\* A session need not end, and no signal need come.
MayHappen ==
  /\ Alive
  /\ Signal \/ \E s \in Sessions : Begin(s) \/ Sweep(s) \/ Await(s)

PoolNext == MustRun \/ MayHappen

\* Every goroutine runs.  A job passes each of its places once, so behaviours
\* are finite, and one condition for all goroutines says the same as one each.
PoolSpec == PoolInit /\ [][PoolNext]_poolVars /\ WF_poolVars(MustRun)

(***************************************************************************)
(* Properties.                                                             *)
(***************************************************************************)

\* The types; the channel is within its capacity, and it is closed only after
\* poolStop.
PoolTypeOK ==
  /\ queue \in Seq(Jobs) /\ Len(queue) <= BufSize
  /\ sendq \in Seq(Goroutines)
  /\ stopped \in BOOLEAN /\ workClosed \in BOOLEAN /\ (workClosed => stopped)
  /\ where \in [Goroutines -> Pcs]
  /\ todo \in [Goroutines -> Seq(Jobs)]
  /\ job \in [Goroutines -> Jobs \union {None}]
  /\ finished \subseteq Jobs
  /\ main \in MainPcs
  /\ sweeps \in Sessions \union {None}
  /\ crashed \in BOOLEAN

\* Where a job of a session that has begun to end is: with the goroutine that
\* is to publish it, in the channel, with the goroutine that runs it, or over.
Places(j) ==
  {<<"publisher", t>> : t \in {u \in Goroutines : InSeq(j, todo[u])}}
  \union {<<"channel", i>> : i \in {k \in 1 .. Len(queue) : queue[k] = j}}
  \union {<<"runner", t>> : t \in {u \in Goroutines : job[u] = j}}
  \union {<<"over", None>> : x \in {j} \intersect finished}

\* Nothing is lost and nothing runs twice: a published job is in one place.
EachJobOnce ==
  \A s \in Sessions : \A j \in Jobs :
     InSeq(j, Published(s)) =>
        Cardinality(Places(j)) = IF where[s] = "unborn" THEN 0 ELSE 1

\* When Shutdown returns nil, everything that the pool had accepted has run;
\* what is left is with goroutines that publish spawned, or is published late.
DrainedMeansRun ==
  main = "drained" =>
     /\ queue = <<>> /\ sendq = <<>>
     /\ \A w \in Workers : job[w] = None

\* Every worker runs MetadataProcessor and waits in publish for room in the
\* channel, which only a worker can make.
Stuck ==
  /\ Len(queue) = BufSize
  /\ \A w \in Workers : where[w] = "blocked" /\ job[w][1] = "metadata"

ToPublish(j) == \E t \in Goroutines : InSeq(j, todo[t])

\* Every job that is to be published is run, the upload of the metadata file
\* too, unless the pool is stuck for ever, which publishing from a worker can
\* do to it, or the process ends (event.go:101-117; metadata.go:57).
EventsHandled ==
  \A j \in Jobs : ToPublish(j) ~> (j \in finished \/ ~Alive \/ []Stuck)

=============================================================================
