----------------------------- MODULE Credentials -----------------------------
(***************************************************************************)
(* What a request can prove who it is with, and how that is issued and     *)
(* withdrawn (protect/token.go, session_store.go, htpasswd.go, auth.go):   *)
(* API tokens, in memory and in a file; cookies of the web UI, in memory   *)
(* only; and the accounts of the htpasswd file, reloaded by SIGHUP.        *)
(*                                                                         *)
(* The token store writes its file while it holds mu, by a temporary file  *)
(* and a rename; if that fails the change in memory stays.  A check reads  *)
(* the store under a lock and compares hashes after it, so that the store  *)
(* may have changed when it decides.  The process may crash at any step    *)
(* and then loads the file again.                                          *)
(***************************************************************************)
EXTENDS FiniteSets

CONSTANTS
  Tokens, Owner,  \* the tokens that will be made, and whose they are
  Cookies, Users, Requests,
  Seed,           \* the token in SELENWRIGHT_AUTH_TOKEN, or None
  None

ASSUME OwnerAssumption == Owner \in [Tokens -> Users]
ASSUME SeedAssumption == Seed \in Tokens \union {None}

\* What holds TokenStore.mu.
Operation == [op : {"create", "revoke", "flush"}, toks : SUBSET Tokens, saved : BOOLEAN]


VARIABLES
  up,       \* the process runs
  tokens,   \* TokenStore.tokens
  file,     \* tokens.json
  writer,   \* the operation that holds TokenStore.mu
  pending,  \* pendingTouch
  store,    \* SessionStore.sessions
  lapsed,   \* cookies whose lifetime is over
  users,    \* HtpasswdAuthenticator.entries
  reqs,     \* requests in the authentication middleware
  made,     \* tokens and cookies that have been generated
  issued,   \* tokens whose creation was answered, and not yet revoked
  revoked,  \* tokens removed by a revocation that was answered 200
  unsaved   \* tokens of requests answered 500, until the file is written

tokenVars == <<tokens, file, writer, pending>>
cookieVars == <<store, lapsed>>
history == <<made, issued, revoked, unsaved>>
vars == <<up, tokenVars, cookieVars, users, reqs, history>>

Ways == {"bearer", "cookie", "basic"}

ASSUME NoneAssumption == None \notin Operation \union Ways

Request == [has : [Ways -> Tokens \union Cookies \union Users \union {None}],
            at : Ways \union {None}, seen : BOOLEAN, late : SUBSET Ways,
            passed : BOOLEAN]

\* No request, or one that the middleware has let through or refused.
Idle == [has |-> [w \in Ways |-> None], at |-> None, seen |-> FALSE,
         late |-> {}, passed |-> FALSE]

Init ==
  /\ up = TRUE
  /\ file = IF Seed = None THEN {} ELSE {Seed}
  /\ tokens = file /\ made = file /\ issued = file
  /\ writer = None /\ pending = {}
  /\ store = {} /\ lapsed = {}
  /\ users = Users
  /\ reqs = [r \in Requests |-> Idle]
  /\ revoked = {} /\ unsaved = {}

(***************************************************************************)
(* The token store and its handlers.                                       *)
(***************************************************************************)
Lock(op, S) ==
  /\ up /\ writer = None
  /\ writer' = [op |-> op, toks |-> S, saved |-> FALSE]

Create(t) ==
  /\ Lock("create", {t})
  /\ tokens' = tokens \union {t} /\ made' = made \union {t}
  /\ UNCHANGED <<up, file, pending, cookieVars, users, reqs>>
  /\ UNCHANGED <<issued, revoked, unsaved>>

\* POST: the owner must be an account.
CreateToken(t) == t \notin made /\ Owner[t] \in users /\ Create(t)

Remove(S) ==
  /\ Lock("revoke", S)
  /\ tokens' = tokens \ S /\ issued' = issued \ S
  /\ UNCHANGED <<up, file, pending, cookieVars, users, reqs>>
  /\ UNCHANGED <<made, revoked, unsaved>>

\* DELETE of one token; one that is not in memory is answered 404.
Revoke(t) == t \in tokens /\ Remove({t})

OwnedBy(u) == {t \in Tokens \intersect made : Owner[t] = u}

\* DELETE of all the tokens of an owner; it is answered 200 also
\* when there are none in memory, and then nothing is written.
RevokeByOwner(u) ==
  /\ OwnedBy(u) \intersect tokens # {}
  /\ Remove(OwnedBy(u) \intersect tokens)

\* A handler that answers before the store has written its file.
PersistLater ==
  /\ up /\ writer # None /\ ~writer.saved
  /\ \/ file' = tokens
     \/ UNCHANGED file
  /\ writer' = [writer EXCEPT !.saved = TRUE]
  /\ UNCHANGED <<up, tokens, pending, cookieVars, users, reqs, history>>

Persist ==
  /\ up /\ writer # None /\ ~writer.saved
  /\ \/ /\ file' = tokens /\ writer' = [writer EXCEPT !.saved = TRUE]
        /\ unsaved' = {}
     \/ /\ writer' = None /\ UNCHANGED file  \* the handler answers 500
        /\ unsaved' = unsaved \union IF writer.op = "flush" THEN {}
                                     ELSE writer.toks
  /\ UNCHANGED <<up, tokens, pending, cookieVars, users, reqs>>
  /\ UNCHANGED <<made, issued, revoked>>

Answer ==
  /\ up /\ writer # None /\ writer.saved
  /\ writer' = None
  /\ LET done(op) == IF writer.op = op THEN writer.toks ELSE {} IN
     /\ issued' = issued \union done("create")
     /\ revoked' = revoked \union done("revoke")
  /\ UNCHANGED <<up, tokens, file, pending, cookieVars, users, reqs>>
  /\ UNCHANGED <<made, unsaved>>

\* touchFlushLoop, and Stop: it takes the uses out and waits for mu.  The
\* file is written again only if one of the tokens is still there.
FlushTouches ==
  /\ up /\ pending # {} /\ writer = None
  /\ pending' = {}
  /\ IF pending \intersect tokens = {} THEN UNCHANGED writer
     ELSE Lock("flush", pending)
  /\ UNCHANGED <<up, tokens, file, cookieVars, users, reqs, history>>

(***************************************************************************)
(* Cookies of the web UI, and the accounts.                                *)
(***************************************************************************)
ValidCredentials(u) == u \in users

\* The identity goes into the store, whatever becomes of the account.
Login(c, u) ==
  /\ up /\ c \notin made /\ ValidCredentials(u)
  /\ made' = made \union {c} /\ store' = store \union {c}
  /\ UNCHANGED <<up, tokenVars, lapsed, users, reqs, issued, revoked, unsaved>>

Logout(c) ==
  /\ up /\ c \in store
  /\ store' = store \ {c}
  /\ UNCHANGED <<up, tokenVars, lapsed, users, reqs, history>>

Lapse(c) ==
  /\ c \in store /\ c \notin lapsed
  /\ lapsed' = lapsed \union {c}
  /\ UNCHANGED <<up, tokenVars, store, users, reqs, history>>

\* A sweep that removes what has not expired.
SweepInverted ==
  /\ up /\ store \ lapsed # {}
  /\ store' = store \intersect lapsed
  /\ UNCHANGED <<up, tokenVars, lapsed, users, reqs, history>>

RemoveExpired ==
  /\ up /\ store \intersect lapsed # {}
  /\ store' = store \ lapsed
  /\ UNCHANGED <<up, tokenVars, lapsed, users, reqs, history>>

\* A file that cannot be read or parsed changes nothing, nor one without
\* accounts.
Parses(U) == U # {}

Reload(U) ==
  /\ up /\ Parses(U)
  /\ users' = U
  /\ UNCHANGED <<up, tokenVars, cookieVars, reqs, history>>

(***************************************************************************)
(* AuthMiddleware around TokenAware-, SessionAware- and                    *)
(* HtpasswdAuthenticator.                                                  *)
(***************************************************************************)
\* A bearer token decides alone; a cookie that fails falls back.
First(has) == CASE has["bearer"] # None -> "bearer"
                [] has["cookie"] # None -> "cookie"
                [] OTHER -> "basic"

\* Which of its credentials have been withdrawn for good when a request
\* arrives; an account may come back.
Withdrawn(has) ==
  {w \in {"bearer"} : has[w] \in revoked}
    \union {w \in {"cookie"} : has[w] # None /\ has[w] \notin store \ lapsed}

Arrive(r, has) ==
  /\ up /\ reqs[r].at = None
  /\ \E w \in Ways : has[w] # None
  /\ has["bearer"] \in made \union {None}
  /\ has["cookie"] \in made \union {None}
  /\ reqs' = [reqs EXCEPT ![r] = [has |-> has, at |-> First(has),
       seen |-> FALSE, late |-> Withdrawn(has), passed |-> FALSE]]
  /\ UNCHANGED <<up, tokenVars, cookieVars, users, history>>

Lookup(t) == t \in tokens

Known(w, x) ==
  CASE w = "bearer" -> Lookup(x)
    [] w = "cookie" -> x \in store
    [] w = "basic" -> ValidCredentials(x)

Locked(w) == w = "bearer" /\ writer # None

\* What a request reads under the lock of the store.
Read(r) == LET q == reqs[r] IN
  /\ up /\ q.at # None /\ ~q.seen /\ ~Locked(q.at)
  /\ Known(q.at, q.has[q.at])
  /\ reqs' = [reqs EXCEPT ![r].seen = TRUE]
  /\ UNCHANGED <<up, tokenVars, cookieVars, users, history>>

TouchLastUsed(t) == pending \union {t}

\* A lifetime that is not compared with the clock again.
AcceptLapsed(r) == LET q == reqs[r] IN
  /\ up /\ q.at # None /\ q.seen
  /\ reqs' = [reqs EXCEPT ![r] = [q EXCEPT !.passed = TRUE, !.seen = FALSE]]
  /\ pending' = IF q.at = "bearer" THEN TouchLastUsed(q.has["bearer"])
                ELSE pending
  /\ UNCHANGED <<up, tokens, file, writer, cookieVars, users, history>>

\* The hashes match, and a cookie is still within its lifetime.
Accept(r) == LET q == reqs[r] IN
  /\ up /\ q.at # None /\ q.seen
  /\ q.at = "cookie" => q.has["cookie"] \notin lapsed
  /\ reqs' = [reqs EXCEPT ![r] = [q EXCEPT !.passed = TRUE, !.seen = FALSE]]
  /\ pending' = IF q.at = "bearer" THEN TouchLastUsed(q.has["bearer"])
                ELSE pending
  /\ UNCHANGED <<up, tokens, file, writer, cookieVars, users, history>>

\* Refused, or a cookie that falls back to a password.  An expired cookie
\* that was read is deleted.
Refuse(r) ==
  LET q == reqs[r]
      expired == q.seen /\ q.at = "cookie" /\ q.has["cookie"] \in lapsed IN
  /\ up /\ q.at # None /\ ~q.passed
  /\ \/ expired
     \/ ~q.seen /\ ~Locked(q.at) /\ ~Known(q.at, q.has[q.at])
  /\ store' = IF expired THEN store \ {q.has["cookie"]} ELSE store
  /\ reqs' = [reqs EXCEPT ![r] =
       IF q.at = "cookie" /\ q.has["basic"] # None
       THEN [q EXCEPT !.at = "basic", !.seen = FALSE] ELSE Idle]
  /\ UNCHANGED <<up, tokenVars, lapsed, users, history>>

\* The handler behind the middleware.
Serve(r) ==
  /\ reqs[r].passed
  /\ reqs' = [reqs EXCEPT ![r] = Idle]
  /\ UNCHANGED <<up, tokenVars, cookieVars, users, history>>

(***************************************************************************)
(* Crash and restart.  An empty store is seeded from the environment, so   *)
(* that a seed which was revoked is issued again.                          *)
(***************************************************************************)
Crash ==
  /\ up /\ up' = FALSE
  /\ tokens' = {} /\ writer' = None /\ pending' = {}
  /\ store' = {} /\ reqs' = [r \in Requests |-> Idle]
  /\ UNCHANGED <<file, lapsed, users, history>>

Seeded == IF file = {} /\ Seed # None THEN {Seed} ELSE {}

Restart ==
  /\ ~up /\ up' = TRUE
  /\ file' = file \union Seeded /\ tokens' = file'
  /\ issued' = issued \union Seeded /\ revoked' = revoked \ Seeded
  /\ unsaved' = {}
  /\ UNCHANGED <<writer, pending, cookieVars, users, reqs, made>>

Admin == \/ \E t \in Tokens : CreateToken(t) \/ Revoke(t)
         \/ \E u \in Users : RevokeByOwner(u)
         \/ \E U \in SUBSET Users : Reload(U)

User == \/ \E c \in Cookies : (\E u \in Users : Login(c, u)) \/ Logout(c)
        \/ \E r \in Requests, b \in Tokens \union {None},
              c \in Cookies \union {None}, u \in Users \union {None} :
             Arrive(r, [w \in Ways |-> CASE w = "bearer" -> b
                                         [] w = "cookie" -> c
                                         [] w = "basic" -> u])

Work == \/ Persist \/ Answer \/ FlushTouches
        \/ \E r \in Requests : Read(r) \/ Accept(r) \/ Refuse(r) \/ Serve(r)

Next == \/ Admin \/ User \/ Work \/ RemoveExpired
        \/ \E c \in Cookies : Lapse(c)
        \/ Crash \/ Restart

\* The tickers of the two stores fire, and a handler that holds the lock or
\* compares hashes goes on.  Nobody has to restart the process.
Spec == Init /\ [][Next]_vars /\ WF_vars(Work) /\ WF_vars(RemoveExpired)

------------------------------------------------------------------------------
TypeOK ==
  /\ up \in BOOLEAN
  /\ tokens \in SUBSET Tokens /\ file \in SUBSET Tokens
  /\ writer \in Operation \union {None}
  /\ pending \in SUBSET Tokens
  /\ store \in SUBSET Cookies /\ lapsed \in SUBSET Cookies
  /\ users \in SUBSET Users
  /\ reqs \in [Requests -> Request]
  /\ made \in SUBSET (Tokens \union Cookies)
  /\ {issued, revoked, unsaved} \subseteq SUBSET Tokens

\* Revocation is immediate, and for good: no request that arrives after a
\* revocation was answered gets through with that token, whatever else was
\* written, crashed or was loaded in between; nor with a cookie that had been
\* logged out or had expired when it arrived (token.go:213-319,
\* session_store.go:61-80, docs/authentication.adoc:147).
WithdrawnStaysOut == \A r \in Requests :
  reqs[r].passed => reqs[r].at \notin reqs[r].late

\* A token that was handed out works until somebody revokes it: it is in the
\* file before the answer and no later operation, failed write, flush of uses
\* or crash loses it (token.go:142-158, 283-319, 422-448).
IssuedSurvives == issued \subseteq file /\ (up => issued \subseteq tokens)

\* Expired cookies do not pile up: each is removed by the sweep, a request or
\* the end of the process (session_store.go:92-119).
ExpiredForgotten == \A c \in Cookies :
  c \in store /\ c \in lapsed ~> c \notin store

\* A token in memory only or in the file only is one whose creation or
\* revocation was answered 500 since the file was last written.  So a bulk
\* revocation that finds nothing in memory, and is answered 200 without writing,
\* is true unless one before it failed (token.go:150-152, 284-318).
AnswersMatchFile == up /\ writer = None =>
  (tokens \ file) \union (file \ tokens) \subseteq unsaved
==============================================================================
