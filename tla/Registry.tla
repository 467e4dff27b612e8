------------------------------ MODULE Registry ------------------------------
(***************************************************************************)
(* Images from a registry (discovery/registry/client.go,                   *)
(* registry_handlers.go): a request lists the repositories of a registry,  *)
(* or of a namespace of Docker Hub, with the tags of each, and another     *)
(* pulls some of them to the Docker host.                                  *)
(*                                                                         *)
(* A list comes in pages, each with a link to the next.  A registry's link *)
(* says after which name to go on, Docker Hub's has a number; the list may *)
(* change from one page to the next, and a link may lead nowhere new.  The *)
(* tags of the repositories are listed by Concurrency goroutines at a time.*)
(*                                                                         *)
(* The one list of repositories is Catalog; that of the tags of r is r.    *)
(* MaxMoves bounds what happens at the registry meanwhile.               *)
(***************************************************************************)
EXTENDS Naturals, FiniteSetsExt

CONSTANTS
  Names,        \* of repositories and of tags, in their order
  PageSize, MaxPages,
  Concurrency,  \* tagFetchConcurrency
  MaxMoves, NoLink

ASSUME NamesAssumption == Names \subseteq Nat \ {0} /\ IsFiniteSet(Names)
ASSUME NoLinkAssumption == NoLink \notin Nat
ASSUME SizeAssumption ==
  {PageSize, MaxPages, Concurrency} \subseteq Nat \ {0} /\ MaxMoves \in Nat

Catalog == 0
Lists == Names \union {Catalog}

VARIABLES
  has,     \* what the registry has in each list
  source,  \* what it is, "oci" or "hub"
  phase,   \* of the request that lists and the one that pulls
  walk,    \* how far the request is in each list
  sure,    \* what it cannot miss: has been there since its walk began
  gone,    \* the client has left
  refs,    \* what there is still to pull
  moves

registryVars == <<has, source, phase, walk, sure, gone, refs, moves>>

Fresh == [at |-> "idle", page |-> 0, next |-> 0, got |-> {}]

RegistryInit ==
  /\ has = [k \in Lists |-> Names]
  /\ source \in {"oci", "hub"}
  /\ phase = "idle" /\ gone = FALSE
  /\ walk = [k \in Lists |-> Fresh]
  /\ sure = [k \in Lists |-> {}]
  /\ refs = {}
  /\ moves = 0

(***************************************************************************)
(* The pages of a list.                                                    *)
(***************************************************************************)
Rank(n, S) == Cardinality({m \in S : m < n})

\* What is not before the place that the link says.
Left(k) == {n \in has[k] : IF source = "oci" THEN n > walk[k].next
                           ELSE Rank(n, has[k]) >= PageSize * walk[k].next}

Page(k) == {n \in Left(k) : Rank(n, Left(k)) < PageSize}

Link(k) == IF Left(k) = Page(k) THEN NoLink
           ELSE IF source = "oci" THEN Max(Page(k)) ELSE walk[k].next + 1

WalkBegins(k) ==
  /\ walk' = [walk EXCEPT ![k].at = "walking"]
  /\ sure' = [sure EXCEPT ![k] = has[k]]

\* A walk that follows every link (and counts pages to one only).
FetchForEver(k) ==
  /\ walk[k].at = "walking" /\ ~gone
  /\ k # Catalog => k \in has[Catalog]
  /\ \E link \in {Link(k), walk[k].next} :
       walk' = [walk EXCEPT ![k] =
         [at |-> IF link = NoLink THEN "ok" ELSE "walking",
          page |-> 1 - @.page, next |-> link, got |-> @.got \union Page(k)]]
  /\ UNCHANGED <<has, source, phase, sure, gone, refs, moves>>

\* A page arrives.  It links to the next, or to itself once more; at the
\* MaxPages-th the walk ends all the same, and also at one of a registry whose
\* Link header linkRel does not match.  (Its variables are reset, but next is
\* NoLink only if there were no more pages.)
Fetch(k) ==
  /\ walk[k].at = "walking" /\ ~gone
  /\ k # Catalog => k \in has[Catalog]
  /\ \E link \in {Link(k), walk[k].next}, unread \in BOOLEAN :
       LET last == link = NoLink \/ unread \/ walk[k].page + 1 = MaxPages IN
       /\ unread => source = "oci"
       /\ walk' = [walk EXCEPT ![k] =
            [at |-> IF last THEN "ok" ELSE "walking",
             page |-> IF last THEN 0 ELSE @.page + 1,
             next |-> IF last /\ link # NoLink THEN 0 ELSE link,
             got |-> @.got \union Page(k)]]
  /\ UNCHANGED <<has, source, phase, sure, gone, refs, moves>>

\* A page that fails ends the walk as the last one does.
FetchBreaks(k) ==
  /\ walk[k].at = "walking"
  /\ walk' = [walk EXCEPT ![k] = [@ EXCEPT !.at = "ok", !.page = 0, !.next = NoLink]]
  /\ UNCHANGED <<has, source, phase, sure, gone, refs, moves>>

\* No page arrives, or none that can be read: what was read is dropped.
FetchFails(k) ==
  /\ walk[k].at = "walking"
  /\ walk' = [walk EXCEPT ![k] = [Fresh EXCEPT !.at = "error"]]
  /\ UNCHANGED <<has, source, phase, sure, gone, refs, moves>>

(***************************************************************************)
(* registryListHandler: List and ListDockerHub.                            *)
(***************************************************************************)
List ==
  /\ phase = "idle" /\ phase' = "catalog"
  /\ WalkBegins(Catalog)
  /\ UNCHANGED <<has, source, gone, refs, moves>>

Found == walk[Catalog].got

\* Without a catalogue the answer is 502.
CatalogListed ==
  /\ phase = "catalog"
  /\ \/ walk[Catalog].at = "ok" /\ phase' = "tags"
     \/ walk[Catalog].at = "error" /\ phase' = "failed"
  /\ UNCHANGED <<has, source, walk, sure, gone, refs, moves>>

\* g.Go: a goroutine for the next repository, if the limit leaves room.
Go(r) ==
  /\ phase = "tags"
  /\ r \in Found /\ walk[r].at = "idle"
  /\ \A n \in Found : n < r => walk[n].at # "idle"
  /\ Cardinality({n \in Found : walk[n].at = "walking"}) < Concurrency
  /\ WalkBegins(r)
  /\ UNCHANGED <<has, source, phase, gone, refs, moves>>

\* g.Wait returns, and the listing is the answer.
Wait ==
  /\ phase = "tags"
  /\ \A r \in Found : walk[r].at \in {"ok", "error"}
  /\ phase' = "listed"
  /\ UNCHANGED <<has, source, walk, sure, gone, refs, moves>>

(***************************************************************************)
(* registryPullHandler, for some of what was listed.                       *)
(***************************************************************************)
Tagged == UNION {{r} \X walk[r].got : r \in Found}

Pull ==
  /\ phase = "listed" /\ ~gone
  /\ \E S \in SUBSET Tagged : S # {} /\ Cardinality(S) <= 2 /\ refs' = S
  /\ phase' = "pulling"
  /\ UNCHANGED <<has, source, walk, sure, gone, moves>>

\* ImagePull of one of them.  It ends with an error of its own (of the name,
\* the daemon, the registry, the time that is up or the client that has left)
\* or with the end of its body, into which the handler does not look: the next
\* follows in either case.
ImagePull(x) ==
  /\ phase = "pulling" /\ x \in refs
  /\ refs' = refs \ {x}
  /\ UNCHANGED <<has, source, phase, walk, sure, gone, moves>>

PullsDone ==
  /\ phase = "pulling" /\ refs = {}
  /\ phase' = "pulled"
  /\ UNCHANGED <<has, source, walk, sure, gone, refs, moves>>

(***************************************************************************)
(* The client and the registry.                                            *)
(***************************************************************************)
Leave ==
  /\ phase \in {"catalog", "tags", "pulling"} /\ ~gone
  /\ gone' = TRUE
  /\ UNCHANGED <<has, source, phase, walk, sure, refs, moves>>

\* What happens at the registry matters while it is listed.
Meanwhile ==
  /\ phase \in {"catalog", "tags"}
  /\ moves < MaxMoves /\ moves' = moves + 1

Push(k, n) ==
  /\ n \notin has[k] /\ Meanwhile
  /\ has' = [has EXCEPT ![k] = @ \union {n}]
  /\ UNCHANGED <<source, phase, walk, sure, gone, refs>>

\* On Docker Hub a name that goes moves later names to an earlier page, past
\* a walk that has been there.
Delete(k, n) ==
  /\ n \in has[k] /\ Meanwhile
  /\ has' = [has EXCEPT ![k] = @ \ {n}]
  /\ sure' = [sure EXCEPT ![k] =
       (@ \ {n}) \intersect IF source = "oci" THEN Names ELSE walk[k].got]
  /\ UNCHANGED <<source, phase, walk, gone, refs>>

Work ==
  \/ \E k \in Lists : Fetch(k) \/ FetchFails(k)
  \/ CatalogListed \/ (\E r \in Names : Go(r)) \/ Wait
  \/ (\E x \in refs : ImagePull(x)) \/ PullsDone

RegistryNext ==
  \/ List \/ Pull \/ Work \/ Leave
  \/ \E k \in Lists, n \in Names : Push(k, n) \/ Delete(k, n)

\* The client of the registry has a timeout, and so has a pull.
RegistrySpec == RegistryInit /\ [][RegistryNext]_registryVars /\ WF_registryVars(Work)

------------------------------------------------------------------------------
RegistryTypeOK ==
  /\ has \in [Lists -> SUBSET Names] /\ source \in {"oci", "hub"}
  /\ phase \in {"idle", "catalog", "tags", "listed", "failed", "pulling", "pulled"}
  /\ walk \in [Lists -> [at : {"idle", "walking", "ok", "error"}, page : 0 .. MaxPages,
                         next : Nat \union {NoLink}, got : SUBSET Names]]
  /\ sure \in [Lists -> SUBSET Names] /\ gone \in BOOLEAN
  /\ refs \subseteq Names \X Names

\* A list in the answer has everything that was at the registry all the time,
\* however the list changed from page to page, or it is listed with an error
\* and empty; but for a list that was cut at MaxPages, or at a page whose link
\* the code does not understand, which nothing in the answer says
\* (client.go:384-438, 446-488, 531-611, 635-659).
WholeOrError == phase \in {"listed", "pulling", "pulled"} =>
  \A k \in Found \union {Catalog} :
    walk[k].at = "ok" /\ walk[k].next = NoLink => sure[k] \subseteq walk[k].got

\* A listing ends, although a registry may link its pages in a circle, and
\* fewer goroutines than repositories fetch the tags; and so does a pull of
\* several (client.go:234-260, 389; registry_handlers.go:146-190).
RequestsEnd ==
  /\ phase = "catalog" ~> phase \in {"failed", "listed", "pulling", "pulled"}
  /\ phase = "pulling" ~> phase = "pulled"
==============================================================================
