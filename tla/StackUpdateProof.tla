--------------------------- MODULE StackUpdateProof ---------------------------
(***************************************************************************)
(* Proofs about the update of the stack: for any services, any number of   *)
(* requests and any tags, the override file of an update that nothing      *)
(* interfered with pins what it knew to run, and such an update downgrades *)
(* nothing.                                                                *)
(*                                                                         *)
(* The plan of a request is true only as long as nobody else changes what  *)
(* runs.  Alone says that nobody can; PlanHolds carries the plan over to   *)
(* the updater, from which the services leave one by one as Compose        *)
(* recreates them.                                                         *)
(***************************************************************************)
EXTENDS StackUpdate, TLAPS

Planning(c) == reqs[c].at \in {"check", "pulled", "create"}

\* What a request that plans alone knows to run does run, and nobody can
\* change it.
Alone ==
  \A c \in Callers : Planning(c) /\ reqs[c].alone =>
     /\ updater = None
     /\ \A s \in Services : reqs[c].refs[s] \in {None, running[s]}
     /\ \A d \in Callers \ {c} : ~UnderWay(d)

\* What a request has checked is newer than what it found running.
Checked ==
  \A c \in Callers :
     /\ reqs[c].at \in {"pulled", "create"} => reqs[c].left = {}
     /\ Planning(c) => \A s \in Asked(reqs[c]) \ reqs[c].left :
          reqs[c].refs[s] # None /\ reqs[c].ask[s] > reqs[c].refs[s].tag

\* The updater raises the services it has still to do to newer tags, and the
\* others that it knows run as they are pinned; only a recreation goes back to
\* the compose file, and it finds out what differs when it starts.
PlanHolds ==
  updater # None =>
     /\ updater.at = "created" /\ updater.todo = {} =>
          updater.pins = base /\ updater.known = {}
     /\ updater.at = "up" /\ updater.known # {} => override = updater.pins
     /\ updater.alone =>
          /\ \A s \in updater.todo :
               updater.pins = base \/ updater.pins[s].tag > running[s].tag
          /\ \A s \in updater.known \ updater.todo : updater.pins[s] = running[s]

\* The file is not relied on while it is written.
Settled ==
  /\ \A s \in settled : override[s] = running[s]
  /\ updater # None /\ updater.at = "written" => settled = {}

IInv == TypeOK /\ Alone /\ Checked /\ PlanHolds /\ Settled

Request ==
  [ask : Wishes, at : {None, "list", "check", "pulled", "create", "start"},
   refs : Pins, left : SUBSET Services, alone : BOOLEAN]
Updater ==
  [owner : Callers, at : {"created", "write", "written", "up"}, alone : BOOLEAN,
   pins : Pins, known : SUBSET Services, todo : SUBSET Services]

\* Idle is a request of its type.
LEMMA IdleType == Idle \in Request
  BY BoundAssumption DEF Wishes, Pins, Tags, Idle, Request

\* Nothing is under way at the start.
LEMMA Initially == Init => IInv
<1> SUFFICES ASSUME Init PROVE IInv
  OBVIOUS
<1>1. TypeOK
  BY IdleType, ImagesAssumption DEF Init, TypeOK, Request, Asked, Idle
<1>2. Alone /\ Checked /\ PlanHolds /\ Settled
  BY NoneAssumption DEF Init, Alone, Checked, PlanHolds, Settled, Planning, Idle
<1> QED
  BY <1>1, <1>2 DEF IInv

\* A request that answers leaves the others where they are.
LEMMA AnswerKeeps ==
  ASSUME IInv, NEW c \in Callers, Answer(c),
         UNCHANGED <<updater, stack, hub>>
  PROVE  IInv'
<1> USE DEF Answer, stack, hub
<1>1. TypeOK'
  BY IdleType DEF IInv, TypeOK, Request, Asked, Idle
<1>2. Alone'
  BY NoneAssumption DEF IInv, TypeOK, Alone, Planning, Idle, UnderWay
<1>3. Checked'
  BY NoneAssumption DEF IInv, TypeOK, Checked, Planning, Idle, Asked
<1>4. PlanHolds' /\ Settled'
  BY DEF IInv, PlanHolds, Settled
<1> QED
  BY <1>1, <1>2, <1>3, <1>4 DEF IInv

\* A new request does not plan yet.
LEMMA BeginKeeps ==
  ASSUME IInv, NEW c \in Callers, NEW ask \in Wishes, Begin(c, ask)
  PROVE  IInv'
<1> USE DEF Begin, stack, hub
<1>1. TypeOK'
  <2>1. reqs' = [reqs EXCEPT ![c] = [Idle EXCEPT !.ask = ask, !.at = "list"]]
    BY DEF IInv, TypeOK
  <2>2. [Idle EXCEPT !.ask = ask, !.at = "list"] \in Request
    BY IdleType DEF Idle, Request
  <2>3. reqs' \in [Callers -> Request]
    BY <2>1, <2>2 DEF IInv, TypeOK, Request
  <2>4. \A d \in Callers : reqs'[d].left \subseteq Asked(reqs'[d])
    BY <2>1 DEF IInv, TypeOK, Asked, Idle
  <2> QED
    BY <2>3, <2>4 DEF IInv, TypeOK, Request
<1>2. Alone'
  BY NoneAssumption DEF IInv, TypeOK, Alone, Planning, UnderWay, Idle
<1>3. Checked'
  BY NoneAssumption DEF IInv, TypeOK, Checked, Planning, Asked, Idle
<1>4. PlanHolds' /\ Settled'
  BY DEF IInv, PlanHolds, Settled
<1> QED
  BY <1>1, <1>2, <1>3, <1>4 DEF IInv

\* A plan is made alone only when nobody else plans or is carried out.
LEMMA ListKeeps ==
  ASSUME IInv, NEW c \in Callers, NEW unknown \in SUBSET Services, List(c, unknown)
  PROVE  IInv'
<1> USE DEF List, stack, hub
<1> DEFINE refs == [s \in Services |-> IF s \in unknown THEN None ELSE running[s]]
<1>0. refs \in Pins
  BY DEF IInv, TypeOK, Pins
<1>1. reqs' \in [Callers -> Request]
  <2> DEFINE alone == updater = None /\ ~\E d \in Callers \ {c} : UnderWay(d)
  <2>1. reqs'[c] \in Request
    <3>1. alone \in BOOLEAN
      BY Zenon
    <3>2. reqs'[c] = [reqs[c] EXCEPT !.at = "check", !.alone = alone,
                                     !.left = Asked(reqs[c]), !.refs = refs]
      OBVIOUS
    <3>3. /\ reqs[c] \in Request
          /\ Asked(reqs[c]) \in SUBSET Services
      BY DEF IInv, TypeOK, Request, Asked
    <3> HIDE DEF alone, List, refs
    <3>4. reqs'[c] = [ask |-> reqs[c].ask, at |-> "check", refs |-> refs,
                      left |-> Asked(reqs[c]), alone |-> alone]
      BY <3>2, <3>3 DEF Request
    <3> QED
      BY <1>0, <3>1, <3>3, <3>4 DEF Request
  <2>2. ASSUME NEW d \in Callers \ {c}
        PROVE  reqs'[d] \in Request
    <3> DEFINE still == reqs[d].alone /\ ~UnderWay(d)
    <3>1. still \in BOOLEAN
      BY Zenon
    <3>2. reqs'[d] = [reqs[d] EXCEPT !.alone = still]
      OBVIOUS
    <3> HIDE DEF still, List
    <3> QED
      BY <3>1, <3>2 DEF IInv, TypeOK, Request
  <2>3. \A d \in Callers : reqs'[d] \in Request
    BY <2>1, <2>2
  <2>4. reqs' = [d \in Callers |-> reqs'[d]]
    OBVIOUS
  <2> QED
    BY <2>3, <2>4
<1>2. /\ reqs'[c].at = "check" /\ reqs'[c].ask = reqs[c].ask
      /\ reqs'[c].refs = refs /\ reqs'[c].left = Asked(reqs[c])
      /\ reqs'[c].alone =>
           updater = None /\ \A d \in Callers \ {c} : ~UnderWay(d)
  BY DEF IInv, TypeOK
<1>3. ASSUME NEW d \in Callers \ {c}
      PROVE  /\ reqs'[d].at = reqs[d].at /\ reqs'[d].ask = reqs[d].ask
             /\ reqs'[d].refs = reqs[d].refs /\ reqs'[d].left = reqs[d].left
             /\ reqs'[d].alone => ~UnderWay(d)
  BY DEF IInv, TypeOK
<1>4. updater = None => updater' = None
  OBVIOUS
<1>5. TypeOK'
  <2>1. reqs'[c].left \subseteq Asked(reqs'[c])
    BY <1>2 DEF Asked
  <2>2. ASSUME NEW d \in Callers \ {c}
        PROVE  reqs'[d].left \subseteq Asked(reqs'[d])
    <3>1. reqs[d].left \subseteq Asked(reqs[d])
      BY DEF IInv, TypeOK
    <3> QED
      BY <1>3, <3>1 DEF Asked
  <2>3. \A d \in Callers : reqs'[d].left \subseteq Asked(reqs'[d])
    BY <2>1, <2>2
  <2>4. /\ updater' \in {None} \union Updater
        /\ updater' # None => \A s \in updater'.todo : updater'.pins[s] \in Ref
    BY DEF IInv, TypeOK, Updater
  <2> QED
    BY <1>1, <2>3, <2>4 DEF IInv, TypeOK, Request, Updater
<1> USE NoneAssumption
<1>6. Alone'
  <2>1. \A d \in Callers \ {c} : Planning(d)' => ~reqs'[d].alone
    BY <1>3 DEF Planning, UnderWay
  <2>2. reqs'[c].alone => \A d \in Callers \ {c} : ~UnderWay(d)'
    BY <1>2, <1>3 DEF UnderWay
  <2>3. \A s \in Services : reqs'[c].refs[s] \in {None, running'[s]}
    <3>1. running' = running /\ reqs'[c].refs = refs
      BY <1>2
    <3> HIDE DEF List
    <3> QED
      BY <3>1
  <2>4. reqs'[c].alone => updater' = None
    BY <1>2, <1>4
  <2> HIDE DEF List, refs
  <2> QED
    BY <2>1, <2>2, <2>3, <2>4 DEF Alone
<1>7. Checked'
  <2> DEFINE Newer(d) ==
        /\ reqs[d].at \in {"pulled", "create"} => reqs[d].left = {}
        /\ Planning(d) => \A s \in Asked(reqs[d]) \ reqs[d].left :
          reqs[d].refs[s] # None /\ reqs[d].ask[s] > reqs[d].refs[s].tag
  <2>1. ASSUME NEW d \in Callers \ {c}
        PROVE  Newer(d)'
    <3>1. Newer(d)
      BY DEF IInv, Checked
    <3> QED
      BY <1>3, <3>1 DEF Planning, Asked
  <2>2. Newer(c)'
    BY <1>2 DEF Asked
  <2>3. \A d \in Callers : Newer(d)'
    BY <2>1, <2>2
  <2> QED
    BY <2>3 DEF Checked
<1>8. PlanHolds' /\ Settled'
  BY DEF IInv, TypeOK, PlanHolds, Settled
<1> QED
  BY <1>5, <1>6, <1>7, <1>8 DEF IInv

\* Fetching tags changes the cache only.
LEMMA FetchKeeps ==
  ASSUME IInv, NEW c \in Callers, NEW s \in Services, FetchHubTags(c, s)
  PROVE  IInv'
<1>1. TypeOK'
  BY IdleType DEF IInv, TypeOK, FetchHubTags, stack, Fault
<1>2. Alone'
  BY NoneAssumption DEF IInv, TypeOK, Alone, Planning, UnderWay, FetchHubTags, stack, Fault
<1>3. Checked'
  BY NoneAssumption DEF IInv, TypeOK, Checked, Planning, Asked, FetchHubTags, stack, Fault
<1>4. PlanHolds'
  BY DEF IInv, TypeOK, PlanHolds, FetchHubTags, stack, Fault
<1>5. Settled'
  BY DEF IInv, TypeOK, Settled, FetchHubTags, stack, Fault
<1> QED
  BY <1>1, <1>2, <1>3, <1>4, <1>5 DEF IInv

\* A tag that passes is newer than what runs.
LEMMA CheckKeeps ==
  ASSUME IInv, NEW c \in Callers, NEW s \in Services, Check(c, s)
  PROVE  IInv'
<1>1. CASE Answer(c)
  BY <1>1, AnswerKeeps DEF Check
<1>2. CASE /\ reqs[c].refs[s] # None /\ cache[s] # None /\ cache[s] # Broken
           /\ reqs[c].ask[s] \in
                PickCandidateVersions(reqs[c].refs[s].tag, cache[s])
           /\ reqs' = [reqs EXCEPT ![c].left = @ \ {s}]
  <2> USE <1>2 DEF Check, stack, hub
  <2>1. reqs[c].refs[s] # None /\ reqs[c].ask[s] > reqs[c].refs[s].tag
    <3>1. /\ reqs[c].refs[s] \in Ref /\ cache[s] \in Nat
          /\ reqs[c].ask[s] \in Nat
      BY DEF IInv, TypeOK, Pins, Wishes, Tags
    <3>2. reqs[c].refs[s].tag \in Nat
      BY <3>1 DEF Ref, Tags
    <3> QED
      BY <3>1, <3>2 DEF PickCandidateVersions
  <2>2. TypeOK'
    <3>1. reqs' \in [Callers -> Request]
      BY DEF IInv, TypeOK, Request
    <3>2. \A d \in Callers : reqs'[d].left \subseteq Asked(reqs'[d])
      BY DEF IInv, TypeOK, Asked
    <3> QED
      BY <3>1, <3>2 DEF IInv, TypeOK, Request
  <2>3. Alone'
    BY DEF IInv, TypeOK, Alone, Planning, UnderWay
  <2>4. Checked'
    <3>1. ASSUME NEW d \in Callers
          PROVE  /\ reqs'[d].at = reqs[d].at /\ reqs'[d].ask = reqs[d].ask
                 /\ reqs'[d].refs = reqs[d].refs
                 /\ d # c => reqs'[d].left = reqs[d].left
                 /\ d = c => reqs'[d].left = reqs[d].left \ {s}
      BY DEF IInv, TypeOK
    <3> QED
      BY <2>1, <3>1 DEF IInv, Checked, Planning, Asked
  <2>5. PlanHolds' /\ Settled'
    BY DEF IInv, PlanHolds, Settled
  <2> QED
    BY <2>2, <2>3, <2>4, <2>5 DEF IInv
<1> QED
  BY <1>1, <1>2 DEF Check

\* Pulling changes nothing but the request.
LEMMA PullKeeps ==
  ASSUME IInv, NEW c \in Callers, Pull(c)
  PROVE  IInv'
<1>1. CASE Answer(c)
  BY <1>1, AnswerKeeps DEF Pull
<1>2. CASE Goto(c, "pulled")
  <2> USE <1>2 DEF Pull, Goto, stack, hub
  <2>1. ASSUME NEW d \in Callers
        PROVE  /\ reqs'[d].at = IF d = c THEN "pulled" ELSE reqs[d].at
               /\ reqs'[d].ask = reqs[d].ask /\ reqs'[d].refs = reqs[d].refs
               /\ reqs'[d].left = reqs[d].left /\ reqs'[d].alone = reqs[d].alone
    BY DEF IInv, TypeOK
  <2>2. TypeOK'
    <3>1. reqs' \in [Callers -> Request]
      BY DEF IInv, TypeOK, Request
    <3>2. \A d \in Callers : reqs'[d].left \subseteq Asked(reqs'[d])
      BY <2>1 DEF IInv, TypeOK, Asked
    <3> QED
      BY <3>1, <3>2 DEF IInv, TypeOK, Request
  <2>3. Alone'
    BY <2>1, NoneAssumption DEF IInv, Alone, Planning, UnderWay
  <2>4. Checked'
    BY <2>1 DEF IInv, Checked, Planning, Asked
  <2>5. PlanHolds' /\ Settled'
    BY DEF IInv, PlanHolds, Settled
  <2> QED
    BY <2>2, <2>3, <2>4, <2>5 DEF IInv
<1> QED
  BY <1>1, <1>2 DEF Pull

\* Who removes an updater did not plan alone, or there was none.
LEMMA RemoveUpdaterKeeps ==
  ASSUME IInv, NEW c \in Callers, RemoveUpdater(c)
  PROVE  IInv'
<1>1. TypeOK'
  BY IdleType DEF IInv, TypeOK, RemoveUpdater, Goto, hub, Request, Asked
<1>2. Alone'
  BY NoneAssumption DEF IInv, TypeOK, Alone, Planning, UnderWay, RemoveUpdater, Goto, hub, Request, Asked
<1>3. Checked'
  BY NoneAssumption DEF IInv, TypeOK, Checked, Planning, Asked, RemoveUpdater, Goto, hub, Request, Asked
<1>4. PlanHolds'
  BY DEF IInv, TypeOK, PlanHolds, RemoveUpdater, Goto, hub, Request, Asked
<1>5. Settled'
  BY DEF IInv, TypeOK, Settled, RemoveUpdater, Goto, hub, Request, Asked
<1> QED
  BY <1>1, <1>2, <1>3, <1>4, <1>5 DEF IInv

\* The reference of a plan names a tag only, and is the running one if that
\* does, too.
LEMMA PinnedType ==
  /\ \A t \in Tags : Pinned(t) \in Ref /\ Pinned(t).tag = t
  /\ \A i \in Ref : i.tag \in Tags /\ (i.plain => Pinned(i.tag) = i)
  BY DEF Pinned, Ref

\* What a plan pins, and where.
LEMMA PlanType ==
  ASSUME NEW r \in Request
  PROVE  /\ ExtendPlanWithCurrentPins(r) \in Pins
         /\ \A s \in Asked(r) :
              ExtendPlanWithCurrentPins(r)[s] = Pinned(r.ask[s]) /\ r.ask[s] \in Tags
         /\ \A s \in Known(r) \ Asked(r) :
              r.refs[s] # None /\ ExtendPlanWithCurrentPins(r)[s] = r.refs[s]
<1>1. r.ask \in Wishes /\ r.refs \in Pins
  BY DEF Request
<1>2. ASSUME NEW s \in Services
      PROVE  /\ ExtendPlanWithCurrentPins(r)[s] =
                  IF s \in Asked(r) THEN Pinned(r.ask[s])
                  ELSE IF r.refs[s] = None THEN None ELSE Pinned(r.refs[s].tag)
             /\ r.ask[s] \in Tags /\ r.refs[s] \in Ref \union {None}
  BY <1>1 DEF ExtendPlanWithCurrentPins, Wishes, Pins
<1>3. ASSUME NEW s \in Services
      PROVE  ExtendPlanWithCurrentPins(r)[s] \in Ref \union {None}
  BY <1>2, PinnedType
<1>4. ExtendPlanWithCurrentPins(r) \in Pins
  BY <1>3 DEF ExtendPlanWithCurrentPins, Pins
<1>5. ASSUME NEW s \in Asked(r)
      PROVE  ExtendPlanWithCurrentPins(r)[s] = Pinned(r.ask[s]) /\ r.ask[s] \in Tags
  BY <1>2 DEF Asked
<1>6. ASSUME NEW s \in Known(r) \ Asked(r)
      PROVE  r.refs[s] # None /\ ExtendPlanWithCurrentPins(r)[s] = r.refs[s]
  BY <1>2, PinnedType DEF Known
<1> QED
  BY <1>4, <1>5, <1>6

\* The updater's plan is the request's, extended by what runs.
LEMMA CreateUpdaterKeeps ==
  ASSUME IInv, NEW c \in Callers, CreateUpdater(c)
  PROVE  IInv'
<1>1. CASE updater # None
  BY <1>1, AnswerKeeps DEF CreateUpdater
<1>2. CASE updater = None
  <2> DEFINE r == reqs[c]
             plan == IF Asked(r) = {} THEN base ELSE ExtendPlanWithCurrentPins(r)
             known == IF Asked(r) = {} THEN {} ELSE Known(r)
  <2> USE <1>2 DEF CreateUpdater, Goto, stack, hub
  <2>1. /\ updater' = [owner |-> c, at |-> "created", alone |-> r.alone,
                       pins |-> plan, known |-> known, todo |-> Asked(r)]
        /\ reqs' = [reqs EXCEPT ![c].at = "start"]
        /\ UNCHANGED <<base, running, override, settled>>
        /\ reqs[c].at = "create"
    OBVIOUS
  <2>2. /\ r \in Request /\ base \in [Services -> Ref] /\ running \in [Services -> Ref]
        /\ Asked(r) \in SUBSET Services /\ Known(r) \in SUBSET Services
    BY DEF IInv, TypeOK, Request, Asked, Known
  <2>3. plan \in Pins /\ known \in SUBSET Services
    BY <2>2, PlanType DEF Pins
  <2>4. ASSUME NEW s \in Asked(r)
        PROVE  /\ plan[s] = Pinned(r.ask[s]) /\ plan[s] \in Ref
               /\ plan[s].tag = r.ask[s] /\ r.ask[s] \in Tags
    BY <2>2, PlanType, PinnedType
  <2>5. ASSUME NEW s \in known \ Asked(r)
        PROVE  r.refs[s] # None /\ plan[s] = r.refs[s] /\ s \in Services
    BY <2>2, PlanType
  <2>6. Asked(r) = {} => plan = base /\ known = {}
    OBVIOUS
  <2> HIDE DEF plan, known
  <2>7. ASSUME NEW d \in Callers
        PROVE  /\ reqs'[d].at = IF d = c THEN "start" ELSE reqs[d].at
               /\ reqs'[d].ask = reqs[d].ask /\ reqs'[d].refs = reqs[d].refs
               /\ reqs'[d].left = reqs[d].left /\ reqs'[d].alone = reqs[d].alone
    BY DEF IInv, TypeOK
  <2>8. TypeOK'
    <3>1. reqs' \in [Callers -> Request]
      BY DEF IInv, TypeOK, Request
    <3>2. \A d \in Callers : reqs'[d].left \subseteq Asked(reqs'[d])
      BY <2>7 DEF IInv, TypeOK, Asked
    <3>3. updater' \in Updater
      BY <2>1, <2>2, <2>3 DEF Request, Updater
    <3>4. \A s \in updater'.todo : updater'.pins[s] \in Ref
      BY <2>1, <2>4
    <3> QED
      BY <3>1, <3>2, <3>3, <3>4 DEF IInv, TypeOK, Request, Updater
  <2>9. Alone'
    <3>1. \A d \in Callers \ {c} : Planning(d) => ~reqs[d].alone
      BY NoneAssumption DEF IInv, Alone, UnderWay
    <3> QED
      BY <2>7, <3>1 DEF Alone, Planning
  <2>10. Checked'
    BY <2>7 DEF IInv, Checked, Planning, Asked
  <2>11. PlanHolds'
    <3>1. \A s \in Asked(r) : r.refs[s] # None /\ r.ask[s] > r.refs[s].tag
      BY <2>1 DEF IInv, Checked, Planning
    <3>2. r.alone => \A s \in Services : r.refs[s] \in {None, running[s]}
      BY <2>1 DEF IInv, Alone, Planning
    <3>3. r.alone => \A s \in Asked(r) : plan[s].tag > running[s].tag
      BY <2>2, <2>4, <3>1, <3>2
    <3>4. r.alone => \A s \in known \ Asked(r) : plan[s] = running[s]
      BY <2>5, <3>2
    <3> HIDE DEF r
    <3> QED
      BY <2>1, <2>6, <3>3, <3>4 DEF PlanHolds
  <2>12. Settled'
    BY <2>1 DEF IInv, Settled
  <2> QED
    BY <2>8, <2>9, <2>10, <2>11, <2>12 DEF IInv
<1> QED
  BY <1>1, <1>2

\* A request has started its updater and answers.
UpdaterRuns(c) ==
  /\ updater # None /\ updater' \in Updater /\ updater'.at \in {"write", "up"}
  /\ \A s \in updater'.todo : updater'.pins[s] \in Ref
  /\ Answer(c)
  /\ UNCHANGED <<stack, hub>>

\* All but the plan holds because the request has left.
LEMMA UpdaterRunsKeeps ==
  ASSUME IInv, NEW c \in Callers, UpdaterRuns(c), PlanHolds'
  PROVE  IInv'
<1> USE DEF UpdaterRuns, Answer, stack, hub
<1>1. TypeOK'
  BY IdleType DEF IInv, TypeOK, Request, Updater, Asked, Idle
<1>2. Alone'
  BY NoneAssumption DEF IInv, TypeOK, Alone, Planning, Idle, UnderWay
<1>3. Checked'
  BY NoneAssumption DEF IInv, TypeOK, Checked, Planning, Idle, Asked
<1>4. Settled'
  BY DEF IInv, Settled
<1> QED
  BY <1>1, <1>2, <1>3, <1>4 DEF IInv

\* The updater of a recreation finds out what differs from the compose file.
LEMMA StartUpdaterKeeps ==
  ASSUME IInv, NEW c \in Callers, StartUpdater(c)
  PROVE  IInv'
<1>1. CASE updater' = updater
  BY <1>1, AnswerKeeps DEF StartUpdater, stack, hub
<1>2. CASE /\ updater # None /\ updater.at = "created" /\ updater.todo = {}
           /\ updater' = [updater EXCEPT !.at = "up",
                            !.todo = {s \in Services : running[s] # base[s]}]
  <2>1. updater \in Updater
    BY <1>2 DEF IInv, TypeOK, Updater
  <2>2. /\ updater' \in Updater /\ updater'.at = "up"
        /\ updater'.pins = updater.pins /\ updater'.alone = updater.alone
        /\ updater'.known = updater.known
        /\ updater'.todo = {s \in Services : running[s] # base[s]}
    BY <1>2, <2>1 DEF Updater
  <2>4. updater.pins = base /\ updater.known = {}
    BY <1>2 DEF IInv, PlanHolds
  <2>3. UpdaterRuns(c)
    BY <1>2, <2>2, <2>4 DEF IInv, TypeOK, StartUpdater, UpdaterRuns
  <2>5. PlanHolds'
    BY <2>2, <2>3, <2>4 DEF PlanHolds, UpdaterRuns, stack
  <2> QED
    BY <2>3, <2>5, UpdaterRunsKeeps
<1>3. CASE /\ updater # None /\ updater.at = "created" /\ updater.todo # {}
           /\ updater' = [updater EXCEPT !.at = "write"]
  <2>1. updater \in Updater
    BY <1>3 DEF IInv, TypeOK, Updater
  <2>2. /\ updater' \in Updater /\ updater'.at = "write"
        /\ updater'.pins = updater.pins /\ updater'.alone = updater.alone
        /\ updater'.known = updater.known /\ updater'.todo = updater.todo
    BY <1>3, <2>1 DEF Updater
  <2>3. UpdaterRuns(c)
    BY <1>3, <2>2 DEF IInv, TypeOK, StartUpdater, UpdaterRuns
  <2>4. PlanHolds'
    BY <1>3, <2>2, <2>3 DEF IInv, PlanHolds, UpdaterRuns, stack
  <2> QED
    BY <2>3, <2>4, UpdaterRunsKeeps
<1> QED
  BY <1>1, <1>2, <1>3 DEF StartUpdater

\* The file is opened.
LEMMA WriteKeeps ==
  ASSUME IInv, Write \/ Written
  PROVE  IInv'
<1>1. TypeOK'
  BY IdleType DEF IInv, TypeOK, Write, Written, At, hub
<1>2. Alone'
  BY NoneAssumption DEF IInv, TypeOK, Alone, Planning, UnderWay, Write, Written, At, hub
<1>3. Checked'
  BY NoneAssumption DEF IInv, TypeOK, Checked, Planning, Asked, Write, Written, At, hub
<1>4. PlanHolds'
  BY DEF IInv, TypeOK, PlanHolds, Write, Written, At, hub
<1>5. Settled'
  BY DEF IInv, TypeOK, Settled, Write, Written, At, hub
<1> QED
  BY <1>1, <1>2, <1>3, <1>4, <1>5 DEF IInv

\* A recreated service leaves what is to be done, running as pinned.
LEMMA RecreateKeeps ==
  ASSUME IInv, NEW s \in Services, Recreate(s)
  PROVE  IInv'
<1> USE DEF Recreate, At
<1>1. updater \in Updater
  BY DEF IInv, TypeOK, Updater
<1>2. /\ updater' \in Updater /\ updater'.at = "up"
      /\ updater'.pins = updater.pins /\ updater'.alone = updater.alone
      /\ updater'.known = updater.known /\ updater'.todo = updater.todo \ {s}
  BY <1>1 DEF Updater
<1>3. /\ running' \in [Services -> Ref] /\ running'[s] = updater.pins[s]
      /\ \A r \in Services \ {s} : running'[r] = running[r]
  <2>1. updater.pins[s] \in Ref
    BY DEF IInv, TypeOK
  <2> QED
    BY <2>1 DEF IInv, TypeOK
<1>4. \A c \in Callers : reqs'[c] \in {reqs[c], Idle}
  BY DEF Stop
<1>5. TypeOK'
  <2>1. reqs' \in [Callers -> Request]
    BY IdleType DEF IInv, TypeOK, Stop, Request
  <2>2. \A c \in Callers : reqs'[c].left \subseteq Asked(reqs'[c])
    BY <1>4 DEF IInv, TypeOK, Asked, Idle
  <2>3. cache' \in [Services -> Nat \union {None, Broken}]
    BY DEF IInv, TypeOK, Stop
  <2> QED
    BY <1>2, <1>3, <2>1, <2>2, <2>3 DEF IInv, TypeOK, Request, Updater
<1>6. Alone'
  BY <1>4, NoneAssumption DEF IInv, Alone, Planning, Idle
<1>7. Checked'
  BY <1>4, NoneAssumption DEF IInv, Checked, Planning, Asked, Idle
<1>8. PlanHolds'
  BY <1>2, <1>3 DEF IInv, PlanHolds
<1>9. Settled'
  BY <1>2 DEF Settled
<1> QED
  BY <1>5, <1>6, <1>7, <1>8, <1>9 DEF IInv

\* When nothing is left to do, what is known runs as it is pinned.
LEMMA FinishKeeps ==
  ASSUME IInv, Finish
  PROVE  IInv'
<1>1. TypeOK'
  BY IdleType DEF IInv, TypeOK, Finish, At, hub, Pins
<1>2. Alone'
  BY NoneAssumption DEF IInv, TypeOK, Alone, Planning, UnderWay, Finish, At, hub, Pins
<1>3. Checked'
  BY NoneAssumption DEF IInv, TypeOK, Checked, Planning, Asked, Finish, At, hub, Pins
<1>4. PlanHolds'
  BY DEF IInv, TypeOK, PlanHolds, Finish, At, hub, Pins
<1>5. Settled'
  <2>1. updater.alone => \A s \in updater.known :
          updater.pins[s] = running[s] /\ override = updater.pins
    BY DEF IInv, PlanHolds, Finish, At
  <2> QED
    BY <2>1 DEF IInv, Settled, Finish, At
<1> QED
  BY <1>1, <1>2, <1>3, <1>4, <1>5 DEF IInv

\* A failed updater leaves the file.
LEMMA FailKeeps ==
  ASSUME IInv, Fail
  PROVE  IInv'
<1>1. TypeOK'
  BY IdleType DEF IInv, TypeOK, Fail, At, hub, Fault
<1>2. Alone'
  BY NoneAssumption DEF IInv, TypeOK, Alone, Planning, UnderWay, Fail, At, hub, Fault
<1>3. Checked'
  BY NoneAssumption DEF IInv, TypeOK, Checked, Planning, Asked, Fail, At, hub, Fault
<1>4. PlanHolds'
  BY DEF IInv, TypeOK, PlanHolds, Fail, At, hub, Fault
<1>5. Settled'
  BY DEF IInv, TypeOK, Settled, Fail, At, hub, Fault
<1> QED
  BY <1>1, <1>2, <1>3, <1>4, <1>5 DEF IInv

\* Tags and their cache are not part of the argument.
LEMMA HubKeeps ==
  ASSUME IInv, Publish \/ Expire
  PROVE  IInv'
<1>1. TypeOK'
  BY IdleType DEF IInv, TypeOK, Publish, Expire, stack
<1>2. Alone'
  BY NoneAssumption DEF IInv, TypeOK, Alone, Planning, UnderWay, Publish, Expire, stack
<1>3. Checked'
  BY NoneAssumption DEF IInv, TypeOK, Checked, Planning, Asked, Publish, Expire, stack
<1>4. PlanHolds'
  BY DEF IInv, TypeOK, PlanHolds, Publish, Expire, stack
<1>5. Settled'
  BY DEF IInv, TypeOK, Settled, Publish, Expire, stack
<1> QED
  BY <1>1, <1>2, <1>3, <1>4, <1>5 DEF IInv

\* After a stop of the server nothing plans.
LEMMA CrashKeeps ==
  ASSUME IInv, Crash
  PROVE  IInv'
<1>1. TypeOK'
  BY IdleType DEF IInv, TypeOK, Crash, Stop, stack, Fault, Request, Asked, Idle
<1>2. Alone'
  BY NoneAssumption DEF IInv, TypeOK, Alone, Planning, UnderWay, Crash, Stop, stack, Fault, Request, Asked, Idle
<1>3. Checked'
  BY NoneAssumption DEF IInv, TypeOK, Checked, Planning, Asked, Crash, Stop, stack, Fault, Request, Asked, Idle
<1>4. PlanHolds'
  BY DEF IInv, TypeOK, PlanHolds, Crash, Stop, stack, Fault, Request, Asked, Idle
<1>5. Settled'
  BY DEF IInv, TypeOK, Settled, Crash, Stop, stack, Fault, Request, Asked, Idle
<1> QED
  BY <1>1, <1>2, <1>3, <1>4, <1>5 DEF IInv

\* A step that changes nothing.
LEMMA StutterKeeps ==
  ASSUME IInv, UNCHANGED vars
  PROVE  IInv'
<1> USE DEF vars, stack, hub
<1>1. TypeOK'
  BY DEF IInv, TypeOK, Asked
<1>2. Alone' /\ Checked'
  BY DEF IInv, Alone, Checked, Planning, UnderWay, Asked
<1>3. PlanHolds' /\ Settled'
  BY DEF IInv, PlanHolds, Settled
<1> QED
  BY <1>1, <1>2, <1>3 DEF IInv

\* The invariant is inductive.
LEMMA Inductive == IInv /\ [Next]_vars => IInv'
<1> SUFFICES ASSUME IInv, [Next]_vars PROVE IInv'
  OBVIOUS
<1>1. ASSUME NEW c \in Callers, RequestStep(c) PROVE IInv'
  BY <1>1, ListKeeps, FetchKeeps, CheckKeeps, PullKeeps, RemoveUpdaterKeeps,
     CreateUpdaterKeeps, StartUpdaterKeeps DEF RequestStep
<1>2. ASSUME NEW c \in Callers, NEW ask \in Wishes, Begin(c, ask) PROVE IInv'
  BY <1>2, BeginKeeps
<1>3. CASE UpdaterStep
  BY <1>3, WriteKeeps, FinishKeeps, RecreateKeeps DEF UpdaterStep
<1>4. CASE Fail
  BY <1>4, FailKeeps
<1>5. CASE Publish \/ Expire
  BY <1>5, HubKeeps
<1>6. CASE Crash
  BY <1>6, CrashKeeps
<1>7. CASE UNCHANGED vars
  BY <1>7, StutterKeeps
<1> QED
  BY <1>1, <1>2, <1>3, <1>4, <1>5, <1>6, <1>7 DEF Next

\* The variables keep their types, for any services, callers and tags: every
\* service that an updater recreates is pinned (stack_update.go:673-697).
THEOREM TypeCorrect == Spec => []TypeOK
<1>1. IInv => TypeOK
  BY DEF IInv
<1> QED
  BY Initially, Inductive, <1>1, PTL DEF Spec

\* The override file of an update that nothing interfered with pins what it was
\* asked for, and what it found running under a plain reference, at what runs
\* (stack_update.go:510-519).
THEOREM PinsTrue == Spec => []PinsMatchRunning
<1>1. IInv => PinsMatchRunning
  BY DEF IInv, Settled, PinsMatchRunning
<1> QED
  BY Initially, Inductive, <1>1, PTL DEF Spec

\* Only a recreation of a service lets it run at another tag, and the updater
\* of a plan made alone has only newer tags to do (stack_update.go:485-497).
LEMMA StepUp ==
  ASSUME IInv, [Next]_vars, NEW s \in Services, running'[s].tag < running[s].tag
  PROVE  updater.pins = base \/ ~updater.alone
<1>1. ASSUME NEW r \in Services, Recreate(r)
      PROVE  updater.pins = base \/ ~updater.alone
  <2>1. r = s
    <3>1. running[s].tag \in Nat
      BY DEF IInv, TypeOK, Ref, Tags
    <3>2. r # s => running'[s] = running[s]
      BY <1>1 DEF IInv, TypeOK, Recreate
    <3> QED
      BY <3>1, <3>2
  <2>2. s \in updater.todo /\ updater # None /\ running'[s] = updater.pins[s]
    BY <1>1, <2>1 DEF IInv, TypeOK, Recreate, At
  <2>3. updater.pins[s].tag \in Nat /\ running[s].tag \in Nat
    BY <2>2 DEF IInv, TypeOK, Ref, Tags
  <2> QED
    BY <2>2, <2>3 DEF IInv, PlanHolds
<1>2. CASE UNCHANGED running
  BY <1>2 DEF IInv, TypeOK, Ref, Tags
<1>3. (\E r \in Services : Recreate(r)) \/ UNCHANGED running
  BY DEF Next, RequestStep, UpdaterStep, Begin, List, FetchHubTags, Check, Pull,
     RemoveUpdater, CreateUpdater, StartUpdater, Write, Written, Finish, Fail,
     Publish, Expire, Crash, stack, vars
<1> QED
  BY <1>1, <1>2, <1>3

\* No service goes back from a version to an older one or to none, unless it
\* is recreated from the compose file or two requests were under way at once.
THEOREM NeverBack == Spec => NoDowngrade
<1>1. IInv /\ [Next]_vars =>
        [\A s \in Services : running'[s].tag < running[s].tag =>
           updater.pins = base \/ ~updater.alone]_vars
  BY StepUp
<1> QED
  BY Initially, Inductive, <1>1, PTL DEF Spec, NoDowngrade

=============================================================================
