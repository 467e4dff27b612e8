----------------------------- MODULE StackUpdate -----------------------------
(***************************************************************************)
(* The update of the Docker Compose stack that the server itself runs in   *)
(* (stack_update.go, stack_versions.go).                                   *)
(*                                                                         *)
(* A request lists the running services, checks the tags it asks for with  *)
(* Docker Hub, pins the services it does not ask for at the tag they run   *)
(* at, and starts a container, the updater, that writes these pins to      *)
(* docker-compose.override.yml and lets Compose recreate what was asked    *)
(* for.  That may be the server: every request then dies with it, and the  *)
(* updater goes on.  POST /stack/recreate starts an updater that knows the *)
(* compose file only.  Nothing keeps two requests apart but the updater's  *)
(* name, and a request removes an updater that it finds.                   *)
(*                                                                         *)
(* A version is a number, and 0 stands for a tag that is none, such as     *)
(* latest.  MaxTag, MaxRequests and MaxFaults bound the model.             *)
(***************************************************************************)
EXTENDS Naturals

CONSTANTS
  Services, Self,  \* the version-aware services; the server is one
  Callers,
  MaxTag, MaxRequests, MaxFaults,
  None, Broken,  \* Broken: an error in the cache, a file half written
  Images  \* the references that a compose file may name

ASSUME SelfAssumption == Self \in Services
ASSUME BoundAssumption == MaxTag \in Nat /\ MaxRequests \in Nat /\ MaxFaults \in Nat
ASSUME NoneAssumption == None \notin {"list", "check", "pulled", "create", "start"}

Tags == 0 .. MaxTag
Wishes == [Services -> Tags]

\* An image's reference: a plain one names a tag, and no registry nor digest.
Ref == [tag : Tags, plain : BOOLEAN]

ASSUME ImagesAssumption == Images \subseteq Ref /\ None \notin Ref

VARIABLES
  base,         \* the references in the compose file
  running,      \* the reference that each service runs at
  override,     \* docker-compose.override.yml: None, Broken or pins
  updater,      \* the container, or None
  reqs,
  cache,        \* hubTagCache.entries: None, Broken or the highest tag
  published,    \* the highest tag on Docker Hub
  settled,      \* what the update that has just ended alone knew by its tag
  interrupted,  \* an updater has been removed, or has failed, before its end
  requests, faults

stack == <<base, running, override, settled, interrupted>>
hub == <<cache, published>>
vars == <<stack, updater, reqs, hub, requests, faults>>

Fault == faults < MaxFaults /\ faults' = faults + 1
Idle == [ask |-> [s \in Services |-> 0], at |-> None,
         refs |-> [s \in Services |-> None], left |-> {}, alone |-> TRUE]
Goto(c, at) == reqs' = [reqs EXCEPT ![c].at = at]
Answer(c) == reqs' = [reqs EXCEPT ![c] = Idle]

\* The services that a request wants to be at another tag: in ask, 0 is no
\* wish.  A request without one is POST /stack/recreate.
Asked(r) == {s \in Services : r.ask[s] # 0}

Init ==
  /\ base \in [Services -> Images] /\ running = base
  /\ override = None /\ updater = None
  /\ reqs = [c \in Callers |-> Idle]
  /\ cache = [s \in Services |-> None] /\ published = 1
  /\ settled = {} /\ interrupted = FALSE
  /\ requests = 0 /\ faults = 0

(***************************************************************************)
(* A request.                                                              *)
(***************************************************************************)
Begin(c, ask) ==
  /\ reqs[c] = Idle /\ requests < MaxRequests
  /\ requests' = requests + 1
  /\ reqs' = [reqs EXCEPT ![c].ask = ask, ![c].at = "list"]
  /\ UNCHANGED <<stack, updater, hub, faults>>

\* The reference that a plan gives a tag; what was parsed keeps no registry
\* and no digest.
Pinned(tag) == [tag |-> tag, plain |-> TRUE]

\* A plan that the running services do not extend.
PinAsked(r) ==
  [s \in Services |-> IF s \in Asked(r) THEN Pinned(r.ask[s]) ELSE None]

ExtendPlanWithCurrentPins(r) ==
  [s \in Services |-> IF s \in Asked(r) THEN Pinned(r.ask[s])
                     ELSE IF r.refs[s] = None THEN None
                     ELSE Pinned(r.refs[s].tag)]

\* The services that a plan pins at just what they will run at.
Known(r) ==
  {s \in Services : s \in Asked(r) \/ (r.refs[s] # None /\ r.refs[s].plain)}

UnderWay(d) == reqs[d].at \notin {None, "list"}

\* getProjectContainers, and an inspection where the list has lost the tag.  If
\* it fails, the image's ID is parsed, which names no service of this stack.
\* Of two plans at once neither knows what the other does.
List(c, unknown) ==
  /\ reqs[c].at = "list"
  /\ IF unknown = {} THEN UNCHANGED faults ELSE Fault
  /\ LET alone == updater = None /\ ~\E d \in Callers \ {c} : UnderWay(d)
     IN reqs' = [d \in Callers |->
          IF d = c THEN [reqs[c] EXCEPT
            !.at = "check", !.alone = alone, !.left = Asked(reqs[c]),
            !.refs = [s \in Services |->
                        IF s \in unknown THEN None ELSE running[s]]]
          ELSE [reqs[d] EXCEPT !.alone = @ /\ ~UnderWay(d)]]
  /\ updater' = IF updater = None THEN None ELSE [updater EXCEPT !.alone = FALSE]
  /\ UNCHANGED <<stack, hub, requests>>

\* fetchHubTags.  An error is cached too.
FetchHubTags(c, s) ==
  /\ reqs[c].at = "check" /\ s \in reqs[c].left /\ reqs[c].refs[s] # None
  /\ cache[s] = None
  /\ \/ cache' = [cache EXCEPT ![s] = published] /\ UNCHANGED faults
     \/ cache' = [cache EXCEPT ![s] = Broken] /\ Fault
  /\ UNCHANGED <<stack, updater, reqs, published, requests>>

\* Every published version, older ones too.
AnyTag(current, highest) == 1 .. highest

\* pickCandidateVersions: every version, if the current tag is none.
PickCandidateVersions(current, highest) == current + 1 .. highest

\* The tag is a candidate, or the request is refused.
Check(c, s) ==
  /\ reqs[c].at = "check" /\ s \in reqs[c].left
  /\ \/ reqs[c].refs[s] = None /\ Answer(c)
     \/ /\ reqs[c].refs[s] # None /\ cache[s] # None
        /\ IF cache[s] # Broken /\ reqs[c].ask[s] \in
                PickCandidateVersions(reqs[c].refs[s].tag, cache[s])
           THEN reqs' = [reqs EXCEPT ![c].left = @ \ {s}]
           ELSE Answer(c)
  /\ UNCHANGED <<stack, updater, hub, requests, faults>>

\* The images, of the updater too, are pulled before anything is touched.
Pull(c) ==
  /\ reqs[c].at = "check" /\ reqs[c].left = {}
  /\ \/ Goto(c, "pulled") /\ UNCHANGED faults
     \/ Answer(c) /\ Fault
  /\ UNCHANGED <<stack, updater, hub, requests>>

\* The removal of an updater by its name; its error is ignored.
RemoveUpdater(c) ==
  /\ reqs[c].at = "pulled" /\ Goto(c, "create")
  /\ \/ /\ updater' = None /\ UNCHANGED faults
        /\ interrupted' = (interrupted \/ updater # None)
     \/ updater # None /\ Fault /\ UNCHANGED <<updater, interrupted>>
  /\ UNCHANGED <<base, running, override, settled, hub, requests>>

\* The name may be taken.
CreateUpdater(c) ==
  /\ reqs[c].at = "create"
  /\ \/ /\ updater = None /\ Goto(c, "start")
        /\ updater' = [owner |-> c, at |-> "created", alone |-> reqs[c].alone,
             pins |-> IF Asked(reqs[c]) = {} THEN base
                     ELSE ExtendPlanWithCurrentPins(reqs[c]),
             known |-> IF Asked(reqs[c]) = {} THEN {} ELSE Known(reqs[c]),
             todo |-> Asked(reqs[c])]
     \/ updater # None /\ Answer(c) /\ UNCHANGED updater
  /\ UNCHANGED <<stack, hub, requests, faults>>

\* Another request may have removed the container.
StartUpdater(c) ==
  /\ reqs[c].at = "start" /\ Answer(c)
  /\ \/ /\ updater # None /\ updater.owner = c /\ updater.at = "created"
        /\ updater' = IF updater.todo = {}
             THEN [updater EXCEPT !.at = "up",
                     !.todo = {s \in Services : running[s] # base[s]}]
             ELSE [updater EXCEPT !.at = "write"]
        /\ UNCHANGED faults
     \/ updater = None /\ UNCHANGED <<updater, faults>>
     \/ updater # None /\ updater.owner # c /\ UNCHANGED <<updater, faults>>
     \/ Fault /\ UNCHANGED updater
  /\ UNCHANGED <<stack, hub, requests>>

(***************************************************************************)
(* The updater.                                                            *)
(***************************************************************************)
At(at) == updater # None /\ updater.at = at

\* The shell opens the file, which empties it, and then writes it.
Write ==
  /\ At("write")
  /\ override' = Broken /\ settled' = {}
  /\ updater' = [updater EXCEPT !.at = "written"]
  /\ UNCHANGED <<base, running, interrupted, reqs, hub, requests, faults>>

Written ==
  /\ At("written")
  /\ override' = updater.pins
  /\ updater' = [updater EXCEPT !.at = "up"]
  /\ UNCHANGED <<base, running, settled, interrupted, reqs, hub, requests, faults>>

\* The server stops, with its requests and its cache.
Stop ==
  /\ reqs' = [c \in Callers |-> Idle]
  /\ cache' = [s \in Services |-> None]

\* An updater that is part of the server.
RecreateWithin(s) ==
  /\ At("up") /\ s \in updater.todo
  /\ running' = [running EXCEPT ![s] = updater.pins[s]]
  /\ updater' = IF s = Self THEN None ELSE [updater EXCEPT !.todo = @ \ {s}]
  /\ IF s = Self THEN Stop ELSE UNCHANGED <<reqs, cache>>
  /\ settled' = {}
  /\ UNCHANGED <<base, override, interrupted, published, requests, faults>>

\* Compose recreates one service.
Recreate(s) ==
  /\ At("up") /\ s \in updater.todo
  /\ running' = [running EXCEPT ![s] = updater.pins[s]]
  /\ updater' = [updater EXCEPT !.todo = @ \ {s}]
  /\ IF s = Self THEN Stop ELSE UNCHANGED <<reqs, cache>>
  /\ settled' = {}
  /\ UNCHANGED <<base, override, interrupted, published, requests, faults>>

Finish ==
  /\ At("up") /\ updater.todo = {}
  /\ updater' = None
  /\ settled' = IF updater.alone THEN settled \union updater.known ELSE settled
  /\ UNCHANGED <<base, running, override, interrupted, reqs, hub, requests, faults>>

\* Compose gives up: an image is gone, or the daemon refuses; or it does not
\* take the two files that the label of a server from an update names as one.
Fail ==
  /\ At("up") /\ (Fault \/ (running[Self] # base[Self] /\ UNCHANGED faults))
  /\ updater' = None /\ interrupted' = TRUE
  /\ UNCHANGED <<base, running, override, settled, reqs, hub, requests>>

(***************************************************************************)
(* Docker Hub, the age of the cache, and a stop of the server.             *)
(***************************************************************************)
Publish ==
  /\ published < MaxTag /\ published' = published + 1
  /\ UNCHANGED <<stack, updater, reqs, cache, requests, faults>>

Expire ==
  /\ \E s \in Services : cache[s] # None /\ cache' = [cache EXCEPT ![s] = None]
  /\ UNCHANGED <<stack, updater, reqs, published, requests, faults>>

Crash ==
  /\ Fault /\ (\E c \in Callers : reqs[c] # Idle)
  /\ Stop
  /\ UNCHANGED <<stack, updater, published, requests>>

RequestStep(c) ==
  \/ \E unknown \in SUBSET Services : List(c, unknown)
  \/ Pull(c) \/ RemoveUpdater(c) \/ CreateUpdater(c) \/ StartUpdater(c)
  \/ \E s \in Services : FetchHubTags(c, s) \/ Check(c, s)

UpdaterStep == Write \/ Written \/ Finish \/ \E s \in Services : Recreate(s)

Next ==
  \/ \E c \in Callers : RequestStep(c) \/ (\E ask \in Wishes : Begin(c, ask))
  \/ UpdaterStep \/ Fail
  \/ Publish \/ Expire \/ Crash

\* The daemon runs the updater.
Spec == Init /\ [][Next]_vars /\ WF_vars(UpdaterStep)

------------------------------------------------------------------------------
Pins == [Services -> Ref \union {None}]

TypeOK ==
  /\ base \in [Services -> Ref] /\ running \in [Services -> Ref]
  /\ override \in Pins \union {None, Broken}
  /\ updater \in {None} \union
       [owner : Callers, at : {"created", "write", "written", "up"}, alone : BOOLEAN,
        pins : Pins, known : SUBSET Services, todo : SUBSET Services]
  /\ updater # None => \A s \in updater.todo : updater.pins[s] \in Ref
  /\ reqs \in [Callers ->
       [ask : Wishes, at : {None, "list", "check", "pulled", "create", "start"},
        refs : Pins, left : SUBSET Services, alone : BOOLEAN]]
  /\ \A c \in Callers : reqs[c].left \subseteq Asked(reqs[c])
  /\ published \in Nat
  /\ cache \in [Services -> Nat \union {None, Broken}]
  /\ settled \in SUBSET Services /\ interrupted \in BOOLEAN

\* The override file pins a service at what it runs at, so that the next
\* `docker compose up` changes nothing, after any sequence of updates of some
\* services and of others: once an updater has ended that no other request
\* interfered with, and for the services that it was asked for or that it found
\* running under a plain reference (stack_update.go:510-519, 673-697).
PinsMatchRunning == \A s \in settled : override[s] = running[s]

\* No service goes back from a version to an older one or to none, unless the
\* stack is recreated from its compose file or two requests were under way at
\* once.  A service whose tag is no version may be given any
\* (stack_update.go:485-497, stack_versions.go:238-280).
NoDowngrade == [][\A s \in Services :
  running'[s].tag < running[s].tag => updater.pins = base \/ ~updater.alone]_vars

\* An updater that runs brings each service it was given to its image, also
\* when the server is the first to be recreated; or it has been removed by a
\* later request, or has failed (stack_update.go:639-663).
UpdateLands == \A s \in Services, i \in Images \union {Pinned(t) : t \in Tags} :
  At("up") /\ s \in updater.todo /\ updater.pins[s] = i
    ~> running[s] = i \/ interrupted
==============================================================================
