------------------------------ MODULE Catalogue ------------------------------
(***************************************************************************)
(* The catalogue of browsers (config/config.go) and how it follows the     *)
(* images of the Docker host that the operator has adopted (discovery/,    *)
(* discovery_handlers.go, the handler of SIGHUP in main.go).               *)
(*                                                                         *)
(* A request moves an image to the adopted or the dismissed, in memory and *)
(* in adopted.json under the store's lock, and then assembles the whole    *)
(* catalogue again under rescanMu: it lists the images, asks the store for *)
(* each of them and replaces the catalogue, or falls back to browsers.json *)
(* if none is adopted.  Images come and go meanwhile.                      *)
(*                                                                         *)
(* There is one browser.  An image is the version in its label and when it *)
(* was built.  MaxRequests, MaxChanges (of images) and MaxFaults bound the *)
(* model; a fault is an operation that fails, or a crash.                  *)
(***************************************************************************)
EXTENDS Naturals, FiniteSetsExt

CONSTANTS
  Callers,
  Images, Flagged,  \* the images, and those with the label default=true
  Present,          \* those that are on the host at first
  Playwright,       \* those whose protocol is Playwright
  MaxRequests, MaxChanges, MaxFaults,
  None

ASSUME ImagesAssumption ==
  /\ Images \subseteq Nat \X Nat /\ Images # {} /\ IsFiniteSet(Images)
  /\ Flagged \subseteq Images /\ Present \subseteq Images
  /\ Playwright \subseteq Images
ASSUME BoundAssumption ==
  MaxRequests \in Nat /\ MaxChanges \in Nat /\ MaxFaults \in Nat
ASSUME NoneAssumption ==
  /\ None \notin Callers /\ None \notin Images /\ None \notin Nat
  /\ None \notin {"adopt", "dismiss", "rescan", "store", "lock", "read"}

Version(i) == i[1]
Created(i) == i[2]
Versions == {Version(i) : i \in Images}
MajorMinor(v) == v \div 10

\* What a client may ask for: a version, the start of one, or no matter which.
Requested == Versions \union {MajorMinor(v) : v \in Versions} \union {None}

VARIABLES
  up, conf,   \* the process runs; browsers.json is there
  present,    \* the images on the host
  store,      \* AdoptedStore.data
  file,       \* adopted.json
  catalogue,  \* Config.Browsers
  rescanMu, reqs,
  told,       \* the last answer about an image, unless a later request or a
              \* start without the file undoes it
  scan,       \* the images listed when the catalogue was last replaced
  requests, changes, faults

history == <<told, scan>>
counters == <<requests, changes, faults>>
vars == <<up, conf, present, store, file, catalogue, rescanMu, reqs, history,
          counters>>

Fault == faults < MaxFaults /\ faults' = faults + 1

(***************************************************************************)
(* The catalogue and what a session is given from it.                      *)
(***************************************************************************)
Empty == [of |-> [v \in {} |-> None], default |-> None]

\* The versions that may be the default: one whose label says so (the last in
\* the order of the list), or else the highest.
Defaults(picked) ==
  LET flagged == {Version(i) : i \in picked \intersect Flagged} IN
  IF flagged # {} THEN flagged ELSE {Max({Version(i) : i \in picked})}

Built(picked, default) ==
  [of |-> [v \in {Version(i) : i \in picked} |->
             CHOOSE i \in picked : Version(i) = v],
   default |-> default]

\* browsers.json has every version, and images of its own.
Json == [of |-> [v \in Versions |-> None], default |-> Max(Versions)]

Offered == DOMAIN catalogue.of

IsPlaywright(v) == catalogue.of[v] \in Playwright

\* Of the versions of other protocols, those that begin with w; and of
\* Playwright those with the same major and minor.
Prefixed(w) == {v \in Offered : ~IsPlaywright(v) /\ MajorMinor(v) = w}
SameMinor(w) == {v \in Offered : IsPlaywright(v) /\
                   MajorMinor(v) = IF w \in Versions THEN MajorMinor(w) ELSE w}

\* The versions that Find may answer with: the one asked for, or else any that
\* begins so, in the order of a Go map, or else Playwright's if there is one.
Find(v) ==
  LET w == IF v = None THEN catalogue.default ELSE v IN
  IF Offered = {} THEN {}
  ELSE IF w \in Offered THEN {w}
  ELSE IF Prefixed(w) # {} THEN Prefixed(w)
  ELSE IF Cardinality(SameMinor(w)) = 1 THEN SameMinor(w) ELSE {}

(***************************************************************************)
(* The images and the store.                                               *)
(***************************************************************************)
\* ScanImages: of the images of a version, the one that was built last.
ScanImages == {i \in present : \A j \in present :
                 Version(j) = Version(i) => Created(j) <= Created(i)}

\* What the page of discovered browsers shows.
FilterUnadopted == ScanImages \ (store.adopted \union store.dismissed)

Moved(op, i) ==
  IF op = "adopt"
  THEN [adopted |-> store.adopted \union {i}, dismissed |-> store.dismissed \ {i}]
  ELSE [adopted |-> store.adopted \ {i}, dismissed |-> store.dismissed \union {i}]

Idle == [op |-> None, image |-> None, at |-> None, left |-> {}, picked |-> {},
         seen |-> {}, alone |-> TRUE]

Nothing == [adopted |-> {}, dismissed |-> {}]

Init ==
  /\ up = TRUE /\ conf \in BOOLEAN
  /\ present = Present
  /\ store = Nothing /\ file = store
  /\ catalogue = IF conf THEN Json ELSE Empty
  /\ rescanMu = None /\ reqs = [c \in Callers |-> Idle]
  /\ told = [i \in Images |-> None] /\ scan = {}
  /\ requests = 0 /\ changes = 0 /\ faults = 0

(***************************************************************************)
(* A request: adopt, dismiss, rescan, or SIGHUP.                           *)
(***************************************************************************)
Same(c, d, i) == c # d /\ reqs[d].image = i /\ i # None

\* Of two requests at once for an image either may be the last to take effect.
Begin(c, req) ==
  /\ up /\ reqs[c] = Idle /\ requests < MaxRequests
  /\ requests' = requests + 1
  /\ reqs' = [d \in Callers |->
       IF d = c THEN [req EXCEPT !.alone = ~\E e \in Callers : Same(c, e, req.image)]
       ELSE IF Same(c, d, req.image) THEN [reqs[d] EXCEPT !.alone = FALSE]
       ELSE reqs[d]]
  /\ UNCHANGED <<up, conf, present, store, file, catalogue, rescanMu, scan>>
  /\ UNCHANGED <<changes, faults>>

\* adoptBrowser and dismissBrowser, for an image that their scan finds.
Ask(c, op, i) ==
  /\ i \in ScanImages
  /\ Begin(c, [Idle EXCEPT !.op = op, !.image = i, !.at = "store"])
  /\ told' = [told EXCEPT ![i] = None]

AskRescan(c) ==
  Begin(c, [Idle EXCEPT !.op = "rescan", !.at = "lock"]) /\ UNCHANGED told

\* Adopt and Dismiss.  What could not be saved stays in memory, and the
\* catalogue as it is.
Store(c) ==
  /\ up /\ reqs[c].at = "store"
  /\ store' = Moved(reqs[c].op, reqs[c].image)
  /\ \/ /\ file' = store' /\ reqs' = [reqs EXCEPT ![c].at = "lock"]
        /\ UNCHANGED faults
     \/ Fault /\ reqs' = [reqs EXCEPT ![c] = Idle] /\ UNCHANGED file
  /\ UNCHANGED <<up, conf, present, catalogue, rescanMu, history, requests>>
  /\ UNCHANGED changes

Listed(c) == reqs' = [reqs EXCEPT
  ![c].at = "read", ![c].left = ScanImages, ![c].seen = ScanImages]

\* Two requests that assemble the catalogue at once.
LockNothing(c) ==
  /\ up /\ reqs[c].at = "lock"
  /\ Listed(c) /\ rescanMu' = c
  /\ UNCHANGED <<up, conf, present, store, file, catalogue, history, counters>>

\* A rescan that fails and returns without an Unlock.
LockForEver(c) ==
  /\ up /\ reqs[c].at = "lock" /\ rescanMu = None
  /\ rescanMu' = c
  /\ \/ Listed(c) /\ UNCHANGED faults
     \/ Fault /\ reqs' = [reqs EXCEPT ![c] = Idle]
  /\ UNCHANGED <<up, conf, present, store, file, catalogue, history>>
  /\ UNCHANGED <<requests, changes>>

\* AssembleCatalog takes the lock, which nobody can tell from what comes next,
\* and lists the images.  If that fails, a request to adopt is answered all
\* the same.
Lock(c) ==
  /\ up /\ reqs[c].at = "lock" /\ rescanMu = None
  /\ \/ Listed(c) /\ rescanMu' = c /\ UNCHANGED faults
     \/ Fault /\ reqs' = [reqs EXCEPT ![c] = Idle] /\ UNCHANGED rescanMu
  /\ UNCHANGED <<up, conf, present, store, file, catalogue, history>>
  /\ UNCHANGED <<requests, changes>>

\* buildBrowsersFromAdopted asks the store for one image after the other.
Read(c) ==
  /\ up /\ reqs[c].at = "read"
  /\ \E i \in reqs[c].left :
       reqs' = [reqs EXCEPT ![c].left = @ \ {i},
                  ![c].picked = IF i \in store.adopted THEN @ \union {i} ELSE @]
  /\ UNCHANGED <<up, conf, present, store, file, catalogue, rescanMu, history>>
  /\ UNCHANGED counters

Told(c) ==
  IF reqs[c].image = None \/ ~reqs[c].alone THEN told
  ELSE [told EXCEPT ![reqs[c].image] = reqs[c].op]

Replace(c, next) ==
  /\ catalogue' = next /\ scan' = reqs[c].seen /\ told' = Told(c)

\* The end of AssembleCatalog.  Without an adopted image and without a file
\* the catalogue stays what it was.
Assemble(c) ==
  /\ up /\ reqs[c].at = "read" /\ reqs[c].left = {}
  /\ \/ /\ reqs[c].picked # {} /\ UNCHANGED faults
        /\ \E d \in Defaults(reqs[c].picked) : Replace(c, Built(reqs[c].picked, d))
     \/ reqs[c].picked = {} /\ conf /\ Replace(c, Json) /\ UNCHANGED faults
     \/ reqs[c].picked = {} /\ conf /\ Fault /\ UNCHANGED <<catalogue, history>>
     \/ reqs[c].picked = {} /\ ~conf /\ UNCHANGED <<catalogue, history, faults>>
  /\ rescanMu' = None /\ reqs' = [reqs EXCEPT ![c] = Idle]
  /\ UNCHANGED <<up, conf, present, store, file, requests, changes>>

(***************************************************************************)
(* The host, crash and restart.                                            *)
(***************************************************************************)
Change ==
  /\ changes < MaxChanges /\ changes' = changes + 1
  /\ \E i \in Images : present' = IF i \in present THEN present \ {i}
                                  ELSE present \union {i}
  /\ UNCHANGED <<up, conf, store, file, catalogue, rescanMu, reqs, history>>
  /\ UNCHANGED <<requests, faults>>

Crash ==
  /\ up /\ Fault /\ up' = FALSE
  /\ rescanMu' = None /\ reqs' = [c \in Callers |-> Idle]
  /\ UNCHANGED <<conf, present, store, file, catalogue, history, requests>>
  /\ UNCHANGED changes

\* The process starts with a store, and the first AssembleCatalog; if that
\* fails it stops again.
Start(kept) ==
  /\ store' = kept /\ scan' = ScanImages
  /\ LET picked == ScanImages \intersect kept.adopted IN
     \/ /\ picked # {}
        /\ \E d \in Defaults(picked) : catalogue' = Built(picked, d)
     \/ picked = {} /\ catalogue' = IF conf THEN Json ELSE Empty

\* NewAdoptedStore stops the process when it cannot parse the file; one that
\* cannot be read counts as none, and stays until the next save.
Restart ==
  /\ ~up /\ up' = TRUE
  /\ \/ Start(file) /\ UNCHANGED <<told, faults>>
     \/ Start(Nothing) /\ Fault /\ told' = [i \in Images |-> None]
  /\ UNCHANGED <<conf, present, file, rescanMu, reqs, requests, changes>>

Step(c) == Store(c) \/ Lock(c) \/ Read(c) \/ Assemble(c)

Next ==
  \/ \E c \in Callers :
       \/ \E op \in {"adopt", "dismiss"}, i \in Images : Ask(c, op, i)
       \/ AskRescan(c)
       \/ Step(c)
  \/ Change \/ Crash \/ Restart

\* A request that has begun goes on.  There are finitely many requests: none
\* is overtaken for ever at rescanMu.
Spec == Init /\ [][Next]_vars /\ \A c \in Callers : WF_vars(Step(c))

------------------------------------------------------------------------------
TypeOK ==
  /\ up \in BOOLEAN /\ conf \in BOOLEAN /\ present \subseteq Images
  /\ \A s \in {store, file} : s.adopted \union s.dismissed \subseteq Images
                              /\ s.adopted \intersect s.dismissed = {}
  /\ Offered \subseteq Versions
  /\ catalogue.default \in IF Offered = {} THEN {None} ELSE Offered
  /\ rescanMu \in Callers \union {None}
  /\ \A c \in Callers : reqs[c].picked \subseteq reqs[c].seen
  /\ told \in [Images -> {"adopt", "dismiss", None}] /\ scan \subseteq Images

\* An image that somebody was told is adopted is the one that a session of its
\* version is given, if it was listed when the catalogue was last replaced;
\* one that was dismissed is given to nobody; and neither is shown as new.  However
\* many requests assemble the catalogue at the same time, and also after a crash
\* (discovery_handlers.go:99-113, discovery/catalog.go:24-83).  Not so when
\* listing the images fails, or when no adopted image is left and there is no
\* file to fall back to: then the answer is given and the catalogue is not
\* replaced.  A start that cannot read adopted.json forgets what was answered
\* before it; what is answered after that is kept (discovery/adopted.go:56).
AnswersStayTrue == up => \A i \in Images :
  /\ told[i] = "adopt" /\ i \in scan =>
       Find(Version(i)) = {Version(i)} /\ catalogue.of[Version(i)] = i
  /\ told[i] = "dismiss" =>
       \A v \in Requested : \A w \in Find(v) : catalogue.of[w] # i
  /\ told[i] # None => i \notin FilterUnadopted

\* Every request is answered, although another may fail while it holds
\* rescanMu (discovery_handlers.go:106-113, 187-194).
RequestsReturn == \A c \in Callers : reqs[c] # Idle ~> reqs[c] = Idle
==============================================================================
