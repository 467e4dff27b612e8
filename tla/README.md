# Selenwright in TLA+

Selenwright is a browser hub: it accepts WebDriver and Playwright session
requests, starts one container (or driver process) per session, proxies the
session's traffic to it, and stops it when the session is deleted, times out or
the hub shuts down.  Around that core it authenticates requests, keeps what a
session leaves behind, follows the browser images of its Docker host, and
updates the Compose stack it runs in.  This directory holds TLA+ modules of
these parts, TLC configurations that check them on small instances, and TLAPS
proofs.  Source paths below are relative to `src/`.

## 1. The system

| Component | State | Operations | Modules |
|---|---|---|---|
| Admission queue (`protect/queue.go`) | a weighted semaphore of `-limit` slots; counters `queued`, `pending`, `used` | `Try`, `Check`, `Protect` around a create handler; `Drop`, `Create`, `Release` called by handlers | `Queue`, `SlotAllocator`, `QueueProof` |
| Idle timer (`session/watchdog.go`) | state, deadline, context, two `Once` | `Start`, `Touch`, `Stop`, `Expire`, the goroutine of `run` | `Watchdog`, `OneShot`, `SessionPartsProof` |
| WebDriver sessions (`selenwright.go`) | `app.sessions`; per session its lock, watchdog, `Cancel` | `create`, `proxy` (DELETE and the rest), `sess.Delete` | `WebDriver`, `MCWebDriver`, `WebDriverProof` |
| Playwright sessions (`playwright.go`) | the same map; one hijacked connection per session, a clean-up that runs once | upgrade, tunnel, clean-up, DELETE | `Playwright`, `PlaywrightProof` |
| Starters (`service/`) | a session's containers, process, listener, log file | `StartWithCancel`, `Cancel` | `Starter`, `SessionPartsProof` |
| Log sink (`session/log_sink.go`, `logs_ws.go`) | lines, closed flag, notification channel | `WriteLine`, `ReadFrom`, `Close`, `Content`; the loop of a live reader | `LogSink`, `SessionPartsProof` |
| Event pool (`event/event.go`, `metadata.go`) | channel of jobs, workers, stop channel | `StartPool`, `publish`, `Shutdown` | `EventPool`, `SessionPartsProof` |
| Credentials (`protect/`, `login.go`) | tokens in memory and in a file, a flusher; cookies; accounts | create, revoke, look up, flush; log in, log out, sweep; reload; the middleware | `Credentials`, `MCCredentials`, `CredentialsProof` |
| Artifact history (`artifact_history.go`) | settings in memory and in a file; captures, manifests, artifacts | change of the settings, capture, manifest, janitor | `ArtifactHistory`, `MCArtifactHistory`, `ArtifactHistoryProof` |
| Browser catalogue (`config/`, `discovery/`) | the catalogue; adopted and dismissed images, in memory and in a file | find, reload, adopt, dismiss, rescan | `Catalogue`, `MCCatalogue`, `DiscoveryProof` |
| Stack update (`stack_update.go`, `stack_versions.go`) | override file, updater container, cache of tags | update, recreate, the updater's script | `StackUpdate`, `MCStackUpdate`, `StackUpdateProof` |
| Image registry (`discovery/registry/`, `registry_handlers.go`) | none | list a registry page by page, pull | `Registry`, `DiscoveryProof` |
| Shutdown (`main.go`) | - | signal, `server.Shutdown`, sweep of the sessions, drain of the event pool | part of `WebDriver`, `Playwright`, `EventPool` |

A request passes the authentication middleware, then `Try`, `Check` and
`Protect` of the queue, and runs `create` (or `playwright`), which looks its
browser up in the catalogue, calls a starter and registers a session with a
watchdog in `app.sessions`; from then on `proxy` routes by session ID.  DELETE,
the timer (for WebDriver by an HTTP DELETE that the process sends to itself) and
shutdown end a session; its `Cancel` captures the downloads, stops the container
and publishes events to the event pool, whose listeners upload files and write
the manifest that the janitor later works from.

The hard behaviours: every actor above is a goroutine of its own and they share
the map, the semaphore and the watchdogs; a handler can be cut short by a panic,
a timeout or a client that leaves; session teardown is spread over three steps
(unregister, release the slot, stop the container) with other requests between;
starting a session makes up to four things, one call at a time, each of which
may fail; listeners publish events from the workers that run them; shutdown
waits for ordinary handlers but not for connections that were hijacked; four
stores are kept in memory and in a file, and the process may stop between the
two; a check may be made on a copy that was read before; and a stack update
recreates the very process that asked for it.

What makes the components correct:

* queue: every slot taken is held by somebody, is given back once, and nobody
  waits while one is free;
* timer: one outcome, one callback, never a callback for a session that was
  touched in time or stopped, and an idle session does end;
* sessions: on every path, also the failing ones, the slot is given back once
  and the container stopped, whoever ends the session and however many do;
* starters: what a failed start or a cancelled session made is gone;
* log: readers see every line once and in order, and are woken;
* pool: what it accepts is run once, also across a shutdown;
* credentials: what was withdrawn admits nobody, what was issued is not lost;
* artifact history: nothing is left that nothing lists, and nothing is lost
  before its time, unless the session was ended twice;
* catalogue: an answer to the operator stays true of what sessions are given;
* stack update: the pins on disk are what runs, and an update goes forward.

## 2. Modules and code

### Queue, SlotAllocator

One action per critical section of `golang.org/x/sync/semaphore` (modelled from
its use: count, list of waiters, closed channels) and one per atomic counter.  A
request's `pc` walks through `Try`, `Check`, `Protect`, then the handler, which
is reduced to what it owes the queue: `Drop`, or `Create` and later `Release`.
`disabled` is `-disable-queue`, chosen at the start.  Clients disconnect at any
point.  `SlotAllocator` is the abstract contract: a set of holders, at most
`Limit`, with take, give and hand-over; `Queue` implements it under the mapping
that takes the requests at the labels where they hold a slot.

### Watchdog, OneShot

Each atomic load, store and compare-and-swap of `Touch`, `Stop`, `Expire` and
`run` is an action; time is the number of ticks `left` to the deadline.  `raced`
is a history variable: a `Touch` stored a new deadline between the load and the
swap of `run`.  In that window the code may expire a session that has just been
touched; `ExpiryOnlyWhenIdle` states exactly that exception.  `OneShot` is the
contract for owners: one outcome, one call and only after expiry.

### WebDriver

The state of `create` is its `pc`, the attempts made, and what the attempt has
built (`box`, `dog`); of a DELETE its position between lookup, lock, unregister,
forward and cancel.  The queue, the watchdog and the starter are single steps
here; their own modules show what that relies on.  Each error return of `create`
is a disjunct that drops the slot and cancels the container in the code's order.
A timer's loopback request is a DELETE of its own (`Deleters` = clients and
timers); with `LoopbackAllowed` FALSE it is refused, as authentication does.
Shutdown waits for handlers (`Drained`) or for the graceful period, sweeps the
map, and ends.

### Playwright

`playwright` is one handler from the slot to the return after the tunnel; the
deferred undo list before the upgrade, the shared clean-up after it.  The
clean-up's steps are ordered as in the code, `once` is its progress and `by` its
actor; whoever comes second waits, as `sync.Once` makes it.  The session ID is
generated, or proposed by a router and checked before the upgrade.  DELETE may
come at `/playwright/session/<id>` or at the hub's endpoint, which treats the
session as a WebDriver session.

### Starter

One action per call of Docker or of the system, with both outcomes; what a
session has is a set `up` of resources, and what a removal could not remove goes
to `refused`.  A session's options choose between a container, with or without a
video container and a network, and a driver process, with or without a log file.
Containers are removed by the daemon when they exit by themselves; a listener or
a log file that an error path leaves open is closed by the finalizers of the
runtime (`Collect`).  The wait for the service is a bounded number of probes.
Two helpers take the first of a port's bindings, of which there may be none:
`getHostPort` after the container has started, and `getContainerPorts`, for a
service with `publishAllPorts`, when it answers; `panicked` is where they end.

### Credentials

The token store's operations hold `mu` from the change in memory to the end of
the write of the file: `writer` is that critical section, and what can happen in
between is a failed write or a crash.  `Lookup` copies the candidates and
compares hashes after it has let the lock go (`Read` and `Accept`); `late` is the
history of what had been withdrawn when the request arrived, `unsaved` that of the
tokens of requests answered 500 since the file was last written.  `Validate` of a
cookie takes two lock sections.  `Bearer`, cookie and basic authentication are
tried in the order of the chain.  The seed token of the environment is added at
every start.

### ArtifactHistory

A DELETE finds a session, takes it out of the map, captures the downloads,
cancels and publishes; the listener (`OnSessionStopped`), a goroutine of its own,
then writes the manifest in two steps.  `Deletes` are the calls, `Of` the session
of each, so that two may be at work on one session, the second of which finds no
container (`Gone`).  A log has two names, the manifest's (`Log`) and another
(`Other`): it is saved under a temporary one and moved, and when the client has
given a name the manifest is made with the temporary one.  The settings' PUT has
two steps, file and memory; a start loads the file or, on a fault, goes on with
the defaults (`unread`).  The janitor removes one artifact per step and the
manifest last.  Days pass only up to `MaxDay`; every operation on the file system
may fail, and a crash may come between any two steps, `MaxFaults` times in all.
`spoilt`, `overlap` and `unread` are histories of what the properties except.

A video is moved and recorded as a log is, and has no file of its own here; two
sessions that are given one log name, and so one file, are not modelled; and
`copyDownloadsFromContainer` is one step.

### Catalogue

The store's changes (memory, then file, under its lock) and the assembly (list,
ask the store for each image, replace, under `rescanMu`) are separate steps; the
list is taken in the step that takes `rescanMu`.  An image is a version in its
label and an age, so that two images can compete for one version.  `Find` is an
operator that returns the set of the versions that some order of the map can
lead to; the protocol is that of each version, so that one browser may have
versions of both kinds.  `told` is the last answer about an image that no later
request undoes; overlapping requests for the same image forfeit it (`alone`), and
so does a start that cannot read the file of adoptions and goes on with an empty
store.  A start that can read it and not parse it, or not list the images, stops
the process.

### StackUpdate

A request's steps are the list of the running services, the check of each tag
with Docker Hub (through a cache that may be stale or hold an error), the plan,
and the creation and start of the updater; the updater's are the write of the
override file (not atomic), and the recreation of one service after the other.
Recreating `Self` ends every request and empties the cache (`Stop`).  `alone` is
history: no other request has been under way since this one listed what runs.
A reference is a tag and whether it is `plain`: parsing drops a registry and a
digest, so the pin of any other service (`Pinned`) is not what it runs.  Tag 0
stands for one that is no version, such as `latest-release` in the documented
compose file, for which every version is a candidate.  A service whose tag the
list has lost and whose inspection fails is in the plan of nobody (`unknown` of
`List`).  `settled` is history: the services that the update that has just ended
alone was asked for or had found under a plain reference.

### Registry

The catalogue and the tags of each repository are lists of one kind, and `walk`
is the progress of the request in each.  A page is what the registry sends, and
`Link` where it says the next one is: after a name (a registry, whose header may
be one that `resolveLinkNext` does not understand: `unread`) or by number
(Docker Hub).  `sure` is history: what a walk cannot miss.  A list that is cut at
the last page that is read keeps `next`, so that the property can except it.
The pull ends with an error of its own, or with the end of a body that nobody
reads (`ImagePull`).

### LogSink

A channel is a number; `shut` is the set of closed ones.  `ReadFrom` returns
lines, state and channel under the mutex and is one step.  `lines` is only
appended to, so a reader's batch is the interval from `at` to `index`.

### EventPool

Goroutines are the sessions' clean-ups (which publish), the workers, and those
that `publish` spawns with `go job()`, named by their job.  The two selects of
`publish` are separate steps.  `sendq` is the channel's list of blocked senders:
a worker that receives moves the first one's job into the channel, as the
runtime does.  `close(poolStop)` wakes all of them with the stop case.  A send
on the closed channel panics (`crashed`).  The published events are the log file
and the end of the session; `MetadataProcessor` publishes one more file from
inside its job, or nothing, if there is no directory or the file cannot be made
(`Derived`).  A session's video, published like its log, is left out.

## 3. Runs

| Run | Bounds | States | What it shows |
|---|---|---|---|
| `watchdog` | timeout of 2 ticks, 2 goroutines | 956 | the one-shot contract, no early expiry, idle sessions end |
| `queue` | 3 requests, 1 slot | 131,438 | slots conserved, counters below the limit, everybody is served, refinement of the allocator |
| `webdriver` | 2 sessions, 2 DELETEs of the same one, 2 slots, `-retry-count` 2 | 51,063 | slots balanced and containers owned on all error paths, sessions stopped once, shutdown sweeps, creates answered, DELETE stops, timers close |
| `playwright` | 2 requests, 1 proposed ID, 1 DELETE, 2 slots | 334,618 | slots balanced whoever cleans up, DELETE returns to a session that is gone, every ending finishes |
| `log_sink` | 2 writers, 2 readers, 3 lines | 25,661 | a reader that ends has shown everything, readers return |
| `event_pool` | 2 sessions (one with a log), 1 worker, channel of 1 | 101,722 | every job once, a clean drain leaves nothing, every event is handled unless the pool is stuck for ever |
| `starter` | 2 sessions of any kind, ports published, 2 probes | 116,281 | nothing is left of a failed or cancelled start, the video ends first, every start ends |
| `credentials` | 2 tokens of 2 users, one of them seeded, 1 cookie, 1 request | 495,618 | what was withdrawn stays out, what was issued survives, memory and file differ only by what was answered 500, expired cookies go |
| `artifact_history` | 2 sessions with 1 DELETE each and 1 settings request, or 1 session with 2 DELETEs and 2 requests; retention of 1 day, 1 day, 2 faults | 804,962 | nothing orphaned, old sessions forgotten, captures kept, settings survive |
| `catalogue` | 2 callers, 3 images of 2 versions (the newer build comes later), 3 requests, 1 change, 1 fault | 346,962 | answers stay true, requests return |
| `stack_update` | 2 services (one the server), one at no version and one at a version of another registry, 2 callers, 2 versions, 2 requests, 1 fault | 349,258 | pins match what runs, no downgrade, an update lands |
| `registry` | 2 names, 1 per page, at most 3 pages, 1 goroutine, 3 changes | 298,344 | a list is whole or an error, every request ends |

Why these bounds are enough for the cases that matter: three requests and one
slot give a holder, a first and a second waiter, so that leaving the list from
its head and from its middle both occur; two goroutines on a watchdog give every
pair of racing calls beside `run`; two sessions and two DELETEs give both a
contested session and a bystander whose slot can be taken by mistake; two
attempts give a retry; two Playwright requests and one proposed ID collide;
three lines let a reader fall behind by more than one batch; a channel of one
fills, so publishers block.  Sessions share nothing in `Starter`, where one is
the general case and the second shows it.  Two tokens of two owners make a bulk
revocation leave one alone, and the seed makes a restart with an empty file
differ from one with a token in it.  One day of retention in one day separates a
session that is young from one that is old.  What the settings and two DELETEs of
one session do needs no second session, and what the janitor does to two sessions
no second DELETE: `Few` of `MCArtifactHistory` keeps a second session apart from a
second DELETE and a second settings request.  It bounds what begins, and makes no
fair step impossible.  One worker and two sessions let every worker of the pool
wait for room in its own channel; that nothing is lost and a drain is whole with
any number of workers is proved.

Three images of two versions give two builds that compete, two versions of one
Playwright release and a default that moves; three requests give two that overlap
and one after them.  Two services are the server and another, and either may be
the one of the documented stack while the other comes from another registry; the
tags are none that is a version, a version and one published meanwhile.  With one name to a page each deletion shifts a
page; three pages of two names leave a page for a link in a circle.

The bounds of our own are `MaxLines`, `MaxProbes`, `MaxDay`, `MaxFaults`,
`MaxTag`, `MaxRequests`, `MaxChanges`, `MaxMoves`, and the single life of each session in
`WebDriver`, `Playwright`, `EventPool`, `Starter` and `ArtifactHistory` (a
request of `Queue`, and those of `Credentials`, come for ever; every token and
cookie is made once).  `MaxPages` stands for `maxCatalogPages`, `maxTagPages` and
`hubMaxPages`, `Concurrency` for `tagFetchConcurrency`.

Each property of a run is paired with a mutated form of an action (kept in
the module above the action, and used by no specification) that breaks it.

### Disagreements with the documentation

These are in the models as the code has them, or were seen while modelling:

* `docs/logs.adoc:47` says that with the history on "log files are automatically
  cleaned up by the retention janitor".  A log for which the client has given a `logName` is saved under that name, but the session's capabilities
  keep the temporary one (`selenwright.go:391`, `:571-580`), the manifest is made
  with it (`artifact_history.go:399`), and the log is never removed.
* The comment at `artifact_history.go:344` says that a capture is
  made while the container is alive.  The second of two DELETEs captures after
  the first has removed it, and `copyDownloadsFromContainer` (`:640`) begins by
  removing the directory that the first has filled.
* The comment at `discovery/adopted.go:44` says that the file is
  loaded if it exists.  Any error of `ReadFile` counts as a missing file
  (`:56`); the store starts empty, and the next adoption writes over the file.
* The comment at `stack_update.go:673` says that the override file
  "always represents the full pinning state".  A service whose inspection fails
  (`:439`) is parsed as `library/sha256` and loses its pin.
* `RevokeByOwner` (`protect/token.go:311`) drops the tokens in memory before it
  writes the file.  When the write fails the answer is 500; repeated, the request
  finds nothing in memory and is answered 200 without a write.  The file still
  has the tokens, and the next start accepts them again
  (`docs/authentication.adoc:147`: "Revocation is immediate").
  `AnswersMatchFile` says that only a request that was answered 500 leads there.
* `registryPullHandler` reads the body of `ImagePull` to `io.Discard`
  (`registry_handlers.go:176`) and answers `ok` when it ends.  The daemon reports
  what fails after it has begun to answer in that body
  (`registry_handlers.go:103`: "Per-ref errors are recorded and reported").
* With authentication on, the timer's loopback DELETE (`selenwright.go:79`) has
  no credentials and is refused; the session stays until shutdown, although
  `docs/faq.adoc:31` says that it is closed.  (`LoopbackAllowed` = FALSE.)
* `proxy` does not look the session up again under its lock; two DELETEs both
  release the slot and both cancel (`selenwright.go:620`; the test at
  `lifecycle_test.go:25` expects one).
* The cancel after `ServeHTTP` is not deferred (`selenwright.go:658`), so a proxy
  that aborts the handler leaves the container running, out of shutdown's reach
  (`docs/faq.adoc:35`).
* A WebDriver request for a Playwright image panics on a nil URL
  (`selenwright.go:224`) and keeps its slot and container.
* Two upgrades with the same proposed ID both pass the check
  (`playwright.go:480`, against the comment above it), and the first session is
  no longer found by its ID.
* `OnFileCreated` starts a goroutine per upload (`upload/uploader.go:43`), so
  `-event-workers` does not bound uploads (`docs/metrics.adoc:45`) and the drain
  does not wait for them.
* The help texts of two queue gauges (`internal/metrics/metrics.go:69`, `:72`)
  describe each other's value.
* Of two stack updates that overlap, the second plans from what runs while the
  first is at work, and removes the first's updater or pins its services at the
  old tag, against the comment at `stack_update.go:673`.
* Dismissing the last adopted image without a `browsers.json` leaves the old
  catalogue in force, though `discovery/catalog.go:21` says that it becomes empty.
* `ScanImages` keeps the newest build of a version before the adopted ones are
  picked: a newer build that nobody has adopted hides the adopted one, against
  `discovery/catalog.go:17-20`.

### Exceptions that the properties make

These behaviours of the code are in the models, and a property that would
exclude them does not hold; the passing properties say so in their premises.

Sessions and queue:

* A session deleted twice (`Contested` in `WebDriver`) gives its slot back twice.
  The extra release can be another session's: that session's own release finds
  the semaphore empty and panics with the session's lock held.  The slot is then
  free while its container runs.
* A Playwright session deleted at the hub's endpoint (`HubDeleted`) has its slot
  released by the DELETE and by its clean-up.
* A DELETE, and the error paths of `create`, release the slot before the
  container is stopped: containers can outnumber `-limit` for a while.
* A session can be deleted between `Put` and `Create`; `used` is -1 meanwhile
  (so `used` is an integer).
* Every retry of `create` prepends the image's path once more (`depth`).
* With `-disable-queue` a request that passed `Check` may still wait in
  `Protect`, because the probed slot was given back in between.
* `server.Shutdown` does not wait for hijacked connections.  A Playwright handler
  between upgrade and `Put` is not in the map when main sweeps it, and its
  container outlives the process.

Event pool:

* A publisher between the two selects of `publish` when `Shutdown` closes both
  channels may panic (`SendPanics`).
* If every worker runs `MetadataProcessor` and the channel is full, the workers
  wait for each other, and so does the sweep of a shutdown, which publishes
  before it stops the pool (`Stuck`).  `event_pool` reaches this with one
  worker, a channel of one and two sessions.

Starter:

* A removal that the daemon refuses is logged and not repeated (`refused`).
  `stopVideoContainer` returns without removing what it could not stop or wait
  for.
* `getHostPort`, and `getContainerPorts` with `publishAllPorts`
  (`service/docker.go:586`), panic for a port that the daemon has not bound; the
  start leaks what it has made (`panicked`).
* The error paths of a driver leave its listener or log file open until the
  runtime's finalizers run.

Credentials:

* An account that is removed from the htpasswd file keeps its cookies and tokens.
* A seed that was revoked is issued again when the store is empty at a restart.
* A revocation that failed is answered 500, and 404 when it is repeated, or 200
  if it is that of an owner; a creation that failed leaves a token in memory that
  nobody was told (`unsaved`).
* `LastUsedAt` may go backwards (times are not in the model).

Artifact history:

* Two PUTs of the settings at once may leave the file with one and memory with
  the other (`overlap`).
* A manifest cut short by a crash is skipped for ever, with its artifacts; an
  artifact whose removal failed once loses its manifest anyway and is lost to the
  janitor (`spoilt`).
* Settings that cannot be read, parsed or validated at the start give way to the
  defaults, and the file stays as it is (`unread`).
* Of a session that two DELETEs have ended the capture may be lost, and its
  manifest be written by two listeners at once (`Contested`).
* A log for which the client has given a name is in no manifest (`named`).

Catalogue:

* An answer is given although the scan that should make it true has failed; a
  save that failed leaves the change in memory.
* Of two requests for the same image that overlap, neither answer need hold
  (`alone`).
* What was answered before a start that cannot read the file of adoptions does
  not hold after it (`told`).
* Among versions that are not Playwright's, a prefix that several versions match is
  given one of them by the order of the map.

Stack update:

* `/stack/recreate` knows the compose file only and drops the pins.
* An updater that is removed while it writes leaves half an override file
  (`Broken`), and two requests at once may downgrade a service.
* A service whose inspection fails is not pinned, and one with a registry or a
  digest in its reference is pinned without: the next `docker compose up` may
  change what it runs.  `PinsMatchRunning` is about the others (`settled`).
* A service whose tag is no version, as `latest-release` in
  `docs/docker-compose.adoc:19`, may be updated to any version, also to an image
  older than its own; `NoDowngrade` compares versions.
* Once the updater has recreated the server, the label with the compose files
  names two, joined by a comma, and `-f` takes that for one
  (`stack_update.go:111`, `:343`, `:646`).  What Compose makes of it is its own
  matter: the updater may then fail, any number of times (`Fail`).
* An error of Docker Hub, also one that a cancelled request caused, is in the
  cache until it expires.

Registry:

* A list that is cut at the page limit, or by a `Link` header that is not
  understood, is answered as if it were whole.
* On Docker Hub a name is passed over if an earlier one is deleted between two
  pages.

## 4. Fairness

Weak fairness only.  Go's scheduler runs every goroutine that can run, so
handlers, clean-ups, timers, workers and main take a step they can take for
ever; a driver's answer is waited for with a timeout, Docker's calls are assumed
to return, a driver that was interrupted to exit, and the registry's client has
a timeout; published jobs return.  Tickers fire: the watchdog's, the sweep of
cookies, the flusher, the janitor.  The daemon runs the updater that it was given,
and somebody restarts a process that has stopped (`ArtifactHistory`), as the
Compose file does.  Nothing obliges a client to send, delete or disconnect, a
session to be idle, an administrator to act, a day to pass or an operator to
signal.  In the queue every session ends, which is what `Watchdog` shows of
sessions that nobody uses.  `rescanMu` is not a fair lock: that no request of
`Catalogue` is overtaken for ever is because there are finitely many.  In
`Playwright`, `EventPool` and `Registry` each step happens a bounded number of
times; behaviours are finite, and one condition on "the system can take a step"
says the same as one for each goroutine, at a fraction of the cost to TLC.
Deadlock checking is off where a behaviour ends (clients may stop sending, the
process exits); that nobody is stuck is what the leads-to properties show.

## 5. Proofs

Eight modules of proofs hold for every value of the constants, under the named
assumptions of the modules (limits are natural numbers, sets are finite or
disjoint from one another, `None` is not a value).

* **QueueProof.**  A step moves one request between labels.  `SlotInv` (semaphore
  count = holders, list of waiters exact, nobody waits while a slot is free) is
  kept by the seven things a step can do to the slots (keep, take, give back,
  join, wake, wake and pass on, give up), each a lemma that also gives the step
  of `SlotAllocator` it is.  `CountersExact` (each counter is the number of
  requests at certain labels) follows from the two labels of a step and is needed
  because a counter's decrement is only safe if somebody is counted.
  `CountersWithinLimit` then is a fact about disjoint subsets of the holders.
  `Refinement` is `Spec => ImplementsSlots` in full.
* **WebDriverProof.**  `IInv` says who owns a session: its create handler up to
  `Put` (`Owners`), then the map, then the one DELETE that took it out; a DELETE
  that has found a session and not yet its lock owns nothing.  A DELETE that
  finds its session gone is therefore the second of two (`SoleDelete`), and only
  then can the slots be out of balance.  All steps of `create` before `Put` have
  one form (`CreateMove`): they keep the slots, take one or give one back.
  `Sweeping` and `StoppedBy` say that nobody else cancels while main sweeps.
  Cardinalities follow from adding or removing one holder.
* **PlaywrightProof.**  Whoever may run a clean-up has found the session in the
  map, in main's list or by its timer, and then its handler is past `Put`
  (`AfterPut`): before that only the undo list of the handler gives anything
  back.  `Balanced` holds when no session was deleted at the hub's endpoint: the
  slots taken are those of the holders, and exactly the clean-ups that are over
  have released one; `pending` is the number of handlers that start.  A DELETE
  that has returned has been through the `Once`, so the clean-up is over, the
  container gone and the session out of the map.
* **SessionPartsProof**, of what goes on beside a session.
  - Timer: `TimerInv` = types, `OneExpirer` (one goroutine at most is between the
    winning swap and the callback) and `DecisionFresh` (what `run` remembers of
    the deadline is current, or a `Touch` raced).  `OneExpirer` alone is not
    enough for `NoEarlyExpiry`: the swap is decided on a remembered deadline.
    `TimerRefines`: the safety part of `OneShot`.
  - Log: `SinkInv` = types, `ChannelOpen` (every channel but the current one is
    closed, that one with the sink), `NoLostWakeup`, `ShownInOrder`, and
    `EndSeen`: a reader that was told of the end was told all lines, which gives
    `DoneMeansAll`.  `FileComplete` (the saved log has every line) is proved
    only.
  - Pool: `PoolInv` follows a published job from its publisher to the channel,
    the goroutine that runs it and the jobs that are over (`InOnePlace`), and
    its senders through the two selects (`Waiting`, `Stopping`).  A worker leaves
    only when the channel is closed and empty, which makes a drain whole.
  - Starter: services share nothing; `Sound` says of each call what a service
    may have there, which is what each error path has to give back.
* **ArtifactHistoryProof.**  `Recorded` ties a session's artifacts to its step:
  the downloads in the directory are those of the capture that waits, for a
  session of which one DELETE at most is under way; `Phase` says what such a
  DELETE has of the session's files at each of its steps.  `Tidy`
  gives the janitor's order, manifest last.  `Saved`: one request at most is
  between file and memory, and the file has what it is about to assign.
* **DiscoveryProof.**
  - Catalogue: an answer about an image is true from when it is given because
    memory and file agree with it (`Kept`) and no request under way is about the
    image (`Undisturbed`); before that the request itself carries it, if it is
    alone.  `Assembling` is what the lock gives: the images that a request has
    picked so far agree with what was told and with what it will tell, although
    they were read from the store one at a time.  A restart needs the file's half
    of `Kept`, or forgets what was told.
  - Registry: what cannot be missed has been read or is among what the next link
    leaves (`Covered`).  `LinkLeaves` is the arithmetic of pages: the last name
    of a page is after every name before it that was left, and the number of
    Docker Hub's next page counts what was before the first name left and the
    page.  A name that comes only adds to the rank of others; one that goes is
    why `sure` shrinks on Docker Hub.
* **StackUpdateProof.**  A plan is true as long as nobody else changes what runs;
  `Alone` says that nobody can, `Checked` that what was asked for is newer, and
  `PlanHolds` carries the plan to the updater, from which the services leave one
  by one; `PlanType` is what a plan pins, and where that is what runs.
* **CredentialsProof.**  `Writing` says what the operation that holds `mu` has
  done to the memory; once it is saved the file is the memory.  `Gone`: a revoked
  token is in neither.  `Differ` is `AnswersMatchFile` with an operation under
  way, whose tokens are excused until it writes (`Unwritten`).  `StillOut` carries
  the withdrawal from the arrival of a request to its end: a withdrawn token is
  never read, and a withdrawn cookie is read only if it has lapsed, which
  `Accept` looks at.

A theorem states each invariant and each action property that a run checks.  A
module of proofs can cover several components because no two of these use a name
twice; that is why `LogSink`, `EventPool`, `Starter` and `Registry` have prefixes
on `Init`, `Next`, `Spec` and `TypeOK`.

Only model-checked: liveness, which is out of the prover's reach, as are ENABLED
and induction over data.  So the refinement of `OneShot` is proved for its safety
part, and checked in full.  That a finite set of numbers has a least and a
greatest member (`LeastExists`, `MaxIsGreatest`) is drawn from the library's
theorem that strict inclusion is well-founded on finite sets, since induction
itself cannot be used.

## 6. Not modelled, and the plan

Left out for good: the bytes of proxied requests, frames, VNC and DevTools
streams, container logs, formatting, logging, metrics; the S3 transfer; the
sanitizing of capabilities and of paths, groups, origins, the trusted proxy and
the access lists of sessions (pure functions of one request, which unit tests
reach); listings and status pages that only read.

Left out of a component that is otherwise modelled:

* `service/docker.go`: the construction of the configuration; `getLogConfig`
  writes into the map of the configuration that all sessions share
  (`service/docker.go:418`), a data race, and the first session's tag and labels
  stay for all.
* `service/driver.go`: another process may take the port between the close of
  the listener and the start of the driver.
* `artifact_history.go`: videos, names of logs that two sessions share, and the
  listings.
* `discovery/`: the labels' syntax, and the default of `browsers.json`.
* `stack_update.go`: the status page, `/stack/pull`, pre-releases, the window of
  50 candidates, and an image that changes behind its tag.
* The proxied requests of `selenwright.go` other than DELETE: their effect on the
  timer is `Touch` in `Watchdog`.

What is left, in this order:

1. `Hub`: `WebDriver` and `Playwright` over the queue module itself, for the
   slots of both kinds of session together.
2. Shutdown as one module, from the signal to the drain of the pool and the
   flush of the token store.
