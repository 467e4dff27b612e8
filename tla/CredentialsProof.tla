--------------------------- MODULE CredentialsProof ---------------------------
(***************************************************************************)
(* Proofs about Credentials, for any tokens, cookies, accounts and         *)
(* requests: what was issued survives, memory and file differ only by what *)
(* was answered 500, and what was withdrawn admits nobody.                 *)
(***************************************************************************)
EXTENDS Credentials, TLAPS

\* The operation that holds mu has changed the memory; the file has followed
\* if it is saved.
Writing ==
  writer # None =>
    /\ up
    /\ writer.saved => file = tokens
    /\ writer.op = "create" => writer.toks \subseteq tokens
    /\ writer.op = "revoke" => writer.toks \subseteq made \ tokens

\* All tokens have been made, and those that are revoked are nowhere.
Gone ==
  /\ tokens \union file \union revoked \subseteq made
  /\ Seed # None => Seed \in made
  /\ revoked \intersect file = {}
  /\ up => revoked \intersect tokens = {}

\* What the operation under way has not written yet.
Unwritten == IF writer = None THEN {}
             ELSE IF writer.saved \/ writer.op = "flush" THEN {}
             ELSE writer.toks

Differ == up =>
  (tokens \ file) \union (file \ tokens) \subseteq unsaved \union Unwritten

\* A credential that had been withdrawn when the request arrived still is; if
\* it is read it is a cookie, and that has lapsed.
StillOut(q) ==
  /\ q.late \subseteq {"bearer", "cookie"}
  /\ "bearer" \in q.late => q.has["bearer"] \in revoked
  /\ "cookie" \in q.late => q.has["cookie"] \in made
                            /\ q.has["cookie"] \notin store \ lapsed
  /\ q.at = "bearer" => q.has["bearer"] \in Tokens
  /\ q.seen /\ q.at = "bearer" => "bearer" \notin q.late
  /\ q.seen /\ q.at = "cookie" /\ "cookie" \in q.late => q.has["cookie"] \in lapsed
  /\ q.passed => q.at \notin q.late

OutStays == \A r \in Requests : StillOut(reqs[r])

\* When the process is down no request is in it.
DownIsEmpty == ~up => reqs = [r \in Requests |-> Idle]

IInv == TypeOK /\ Writing /\ Gone /\ IssuedSurvives /\ Differ /\ OutStays /\ DownIsEmpty

\* Nothing has happened; a seed is in the file.
LEMMA Initially == Init => IInv
<1> SUFFICES ASSUME Init PROVE IInv
  OBVIOUS
<1>1. TypeOK
  <2>1. Idle \in Request
    BY DEF Idle, Request
  <2>2. file \in SUBSET Tokens
    BY SeedAssumption DEF Init
  <2> QED
    BY <2>1, <2>2 DEF Init, TypeOK
<1>2. Gone
  BY DEF Init, Gone
<1>3. OutStays
  BY NoneAssumption DEF Init, OutStays, StillOut, Idle, Ways
<1> QED
  BY <1>1, <1>2, <1>3
  DEF Init, IInv, Writing, IssuedSurvives, Differ, DownIsEmpty

(***************************************************************************)
(* What the steps have in common.                                          *)
(***************************************************************************)
\* A step that leaves the token store's memory, file and lock alone.
LEMMA TokensKept ==
  ASSUME IInv, made \subseteq made',
         UNCHANGED <<up, tokens, file, writer, issued, revoked, unsaved>>
  PROVE  Writing' /\ Gone' /\ IssuedSurvives' /\ Differ'
BY DEF IInv, Writing, Gone, IssuedSurvives, Differ, Unwritten

\* A step that leaves the requests alone, takes back no withdrawal, and lets no
\* cookie in that was made before.
LEMMA OutKept ==
  ASSUME IInv, UNCHANGED reqs,
         made \subseteq made', revoked \subseteq revoked', lapsed \subseteq lapsed',
         (store' \ lapsed') \intersect made \subseteq store \ lapsed
  PROVE  OutStays'
<1> SUFFICES ASSUME NEW r \in Requests PROVE StillOut(reqs[r])'
  BY DEF OutStays
<1> StillOut(reqs[r])
  BY DEF IInv, OutStays
<1> QED
  BY DEF StillOut

(***************************************************************************)
(* The token store.                                                        *)
(***************************************************************************)
LEMMA CreateKeeps ==
  ASSUME IInv, NEW t \in Tokens, CreateToken(t)
  PROVE  IInv'
<1>1. /\ up /\ t \notin made /\ writer = None /\ up' = up /\ file' = file
      /\ writer' = [op |-> "create", toks |-> {t}, saved |-> FALSE]
      /\ tokens' = tokens \union {t} /\ made' = made \union {t}
      /\ UNCHANGED <<pending, store, lapsed, users, reqs, issued, revoked, unsaved>>
  BY DEF CreateToken, Create, Lock, cookieVars
<1>2. writer' \in Operation /\ writer' # None
  <2>1. writer' \in Operation
    BY <1>1 DEF Operation
  <2> QED
    BY <2>1, NoneAssumption
<1>3. TypeOK'
  BY <1>1, <1>2 DEF IInv, TypeOK
<1>4. Writing' /\ Gone' /\ IssuedSurvives'
  BY <1>1 DEF IInv, Writing, Gone, IssuedSurvives
<1>5. Differ'
  BY <1>1, <1>2 DEF IInv, Differ, Unwritten
<1>6. OutStays'
  BY <1>1, OutKept
<1> QED
  BY <1>1, <1>3, <1>4, <1>5, <1>6 DEF IInv, DownIsEmpty

LEMMA RemoveKeeps ==
  ASSUME IInv, NEW S \in SUBSET tokens, Remove(S)
  PROVE  IInv'
<1>1. /\ up /\ writer = None /\ up' = up /\ file' = file
      /\ writer' = [op |-> "revoke", toks |-> S, saved |-> FALSE]
      /\ tokens' = tokens \ S /\ issued' = issued \ S
      /\ UNCHANGED <<pending, store, lapsed, users, reqs, made, revoked, unsaved>>
  BY DEF Remove, Lock, cookieVars
<1>2. writer' \in Operation /\ writer' # None
  <2>1. writer' \in Operation
    BY <1>1 DEF Operation, IInv, TypeOK
  <2> QED
    BY <2>1, NoneAssumption
<1>3. TypeOK'
  BY <1>1, <1>2 DEF IInv, TypeOK
<1>4. Writing' /\ Gone' /\ IssuedSurvives'
  BY <1>1 DEF IInv, Writing, Gone, IssuedSurvives
<1>5. Differ'
  BY <1>1, <1>2 DEF IInv, Differ, Unwritten
<1>6. OutStays'
  BY <1>1, OutKept
<1> QED
  BY <1>1, <1>3, <1>4, <1>5, <1>6 DEF IInv, DownIsEmpty

\* The file is written, or the request is answered 500.
LEMMA PersistKeeps ==
  ASSUME IInv, Persist
  PROVE  IInv'
<1>1. /\ up /\ writer \in Operation /\ writer # None /\ ~writer.saved
      /\ UNCHANGED <<up, tokens, pending, store, lapsed, users, reqs, made, issued,
                     revoked>>
  BY DEF IInv, TypeOK, Persist, cookieVars
<1>2. OutStays' /\ DownIsEmpty'
  BY <1>1, OutKept DEF IInv, DownIsEmpty
<1>3. CASE file' = tokens /\ writer' = [writer EXCEPT !.saved = TRUE] /\ unsaved' = {}
  <2>1. writer' \in Operation /\ writer' # None
    BY <1>1, <1>3, NoneAssumption DEF Operation
  <2>2. writer'.toks = writer.toks /\ writer'.op = writer.op /\ writer'.saved
    BY <1>1, <1>3 DEF Operation
  <2>3. TypeOK'
    BY <1>1, <1>3, <2>1 DEF IInv, TypeOK
  <2>4. Writing' /\ Gone' /\ IssuedSurvives'
    BY <1>1, <1>3, <2>2 DEF IInv, Writing, Gone, IssuedSurvives
  <2>5. Differ'
    BY <1>1, <1>3 DEF Differ
  <2> QED
    BY <1>2, <2>3, <2>4, <2>5 DEF IInv
<1>4. CASE /\ writer' = None /\ file' = file
           /\ unsaved' = unsaved \union IF writer.op = "flush" THEN {} ELSE writer.toks
  <2>1. TypeOK'
    BY <1>1, <1>4 DEF IInv, TypeOK, Operation
  <2>2. Writing' /\ Gone' /\ IssuedSurvives'
    BY <1>1, <1>4 DEF IInv, Writing, Gone, IssuedSurvives
  <2>3. Differ'
    BY <1>1, <1>4 DEF IInv, Differ, Unwritten
  <2> QED
    BY <1>2, <2>1, <2>2, <2>3 DEF IInv
<1> QED
  BY <1>3, <1>4 DEF Persist

LEMMA AnswerKeeps ==
  ASSUME IInv, Answer
  PROVE  IInv'
<1> DEFINE done(op) == IF writer.op = op THEN writer.toks ELSE {}
<1>1. /\ up /\ writer \in Operation /\ writer # None /\ writer.saved /\ writer' = None
      /\ issued' = issued \union done("create")
      /\ revoked' = revoked \union done("revoke")
      /\ UNCHANGED <<up, tokens, file, pending, store, lapsed, users, reqs, made, unsaved>>
  BY DEF IInv, TypeOK, Answer, cookieVars
<1>2. TypeOK'
  <2>1. writer.toks \in SUBSET Tokens
    BY <1>1 DEF Operation
  <2> QED
    BY <1>1, <2>1 DEF IInv, TypeOK
<1>3. file = tokens
  BY <1>1 DEF IInv, Writing
<1>4. Writing' /\ Gone' /\ IssuedSurvives'
  BY <1>1, <1>3 DEF IInv, Writing, Gone, IssuedSurvives
<1>5. Differ'
  BY <1>1, <1>3 DEF Differ
<1>6. OutStays'
  BY <1>1, OutKept
<1> QED
  BY <1>1, <1>2, <1>4, <1>5, <1>6 DEF IInv, DownIsEmpty

LEMMA FlushKeeps ==
  ASSUME IInv, FlushTouches
  PROVE  IInv'
<1>1. /\ up /\ writer = None /\ pending' = {}
      /\ UNCHANGED <<up, tokens, file, store, lapsed, users, reqs, made, issued, revoked,
                     unsaved>>
  BY DEF FlushTouches, cookieVars, history
<1>2. OutStays' /\ DownIsEmpty'
  BY <1>1, OutKept DEF IInv, DownIsEmpty
<1>3. CASE writer' = writer
  BY <1>1, <1>2, <1>3, TokensKept DEF IInv, TypeOK
<1>4. CASE pending \intersect tokens # {} /\ Lock("flush", pending)
  <2>1. writer' = [op |-> "flush", toks |-> pending, saved |-> FALSE]
    BY <1>4 DEF Lock
  <2>2. writer' \in Operation /\ writer' # None
    <3>1. writer' \in Operation
      BY <2>1 DEF Operation, IInv, TypeOK
    <3> QED
      BY <3>1, NoneAssumption
  <2>3. TypeOK'
    BY <1>1, <2>2 DEF IInv, TypeOK
  <2>4. Writing' /\ Gone' /\ IssuedSurvives'
    BY <1>1, <2>1 DEF IInv, Writing, Gone, IssuedSurvives
  <2>5. Differ'
    BY <1>1, <2>1, <2>2 DEF IInv, Differ, Unwritten
  <2> QED
    BY <1>2, <2>3, <2>4, <2>5 DEF IInv
<1> QED
  BY <1>3, <1>4 DEF FlushTouches

(***************************************************************************)
(* Cookies, accounts, and the requests.                                    *)
(***************************************************************************)
LEMMA LoginKeeps ==
  ASSUME IInv, NEW c \in Cookies, NEW u \in Users, Login(c, u)
  PROVE  IInv'
<1>1. /\ up /\ c \notin made /\ made' = made \union {c} /\ store' = store \union {c}
      /\ UNCHANGED <<up, tokens, file, writer, pending, lapsed, users, reqs, issued,
                     revoked, unsaved>>
  BY DEF Login, tokenVars
<1>2. TypeOK'
  BY <1>1 DEF IInv, TypeOK
<1>3. Writing' /\ Gone' /\ IssuedSurvives' /\ Differ'
  BY <1>1, TokensKept
<1>4. OutStays'
  BY <1>1, OutKept
<1> QED
  BY <1>1, <1>2, <1>3, <1>4 DEF IInv, DownIsEmpty

\* A cookie lapses, or some leave the store; or the accounts are reloaded.
LEMMA CookiesGoKeeps ==
  ASSUME IInv,
         \/ \E c \in Cookies : Logout(c) \/ Lapse(c)
         \/ RemoveExpired
         \/ \E U \in SUBSET Users : Reload(U)
  PROVE  IInv'
<1>1. /\ store' \subseteq store /\ lapsed' \in SUBSET Cookies
      /\ lapsed \subseteq lapsed' /\ users' \in SUBSET Users
      /\ UNCHANGED <<up, tokens, file, writer, pending, reqs, made, issued, revoked,
                     unsaved>>
  BY DEF IInv, TypeOK, Logout, Lapse, RemoveExpired, Reload, tokenVars, cookieVars,
         history
<1>2. TypeOK'
  BY <1>1 DEF IInv, TypeOK
<1>3. Writing' /\ Gone' /\ IssuedSurvives' /\ Differ'
  BY <1>1, TokensKept
<1>4. OutStays'
  BY <1>1, OutKept
<1> QED
  BY <1>1, <1>2, <1>3, <1>4 DEF IInv, DownIsEmpty

\* A step of one request: what is to be shown is about that request.
LEMMA RequestKeeps ==
  ASSUME IInv, up, NEW r \in Requests,
         reqs' \in [Requests -> Request],
         \A d \in Requests \ {r} : reqs'[d] = reqs[d],
         pending' \in SUBSET Tokens, store' \subseteq store,
         UNCHANGED <<up, tokens, file, writer, lapsed, users, made, issued, revoked,
                     unsaved>>,
         StillOut(reqs[r])'
  PROVE  IInv'
<1>1. TypeOK'
  BY DEF IInv, TypeOK
<1>2. Writing' /\ Gone' /\ IssuedSurvives' /\ Differ'
  BY TokensKept
<1>3. OutStays'
  <2> SUFFICES ASSUME NEW d \in Requests PROVE StillOut(reqs[d])'
    BY DEF OutStays
  <2>1. CASE d = r
    BY <2>1
  <2>2. CASE d # r
    <3>1. reqs'[d] = reqs[d] /\ StillOut(reqs[d])
      BY <2>2 DEF IInv, OutStays
    <3> QED
      BY <3>1 DEF StillOut
  <2> QED
    BY <2>1, <2>2
<1> QED
  BY <1>1, <1>2, <1>3 DEF IInv, DownIsEmpty

\* What such a step does to the requests.
LEMMA OneChanges ==
  ASSUME IInv, NEW STATE q, NEW r \in Requests, q \in Request, reqs' = [reqs EXCEPT ![r] = q]
  PROVE  /\ reqs' \in [Requests -> Request] /\ reqs'[r] = q
         /\ \A d \in Requests \ {r} : reqs'[d] = reqs[d]
BY DEF IInv, TypeOK

LEMMA IdleIsOut == Idle \in Request /\ StillOut(Idle) /\ StillOut(Idle)'
BY NoneAssumption DEF Idle, Request, StillOut, Ways

\* A request that is answered.
LEMMA EndKeeps ==
  ASSUME IInv, up, NEW r \in Requests, reqs' = [reqs EXCEPT ![r] = Idle],
         store' \subseteq store,
         UNCHANGED <<up, tokens, file, writer, pending, lapsed, users, made, issued,
                     revoked, unsaved>>
  PROVE  IInv'
<1>1. reqs'[r] = Idle
  BY IdleIsOut, OneChanges
<1>2. StillOut(reqs[r])'
  BY <1>1, IdleIsOut DEF StillOut
<1>3. pending \in SUBSET Tokens
  BY DEF IInv, TypeOK
<1> QED
  BY <1>2, <1>3, IdleIsOut, OneChanges, RequestKeeps

LEMMA ArriveKeeps ==
  ASSUME IInv, NEW r \in Requests,
         NEW has \in [Ways -> Tokens \union Cookies \union Users \union {None}],
         has["bearer"] \in Tokens \union {None}, Arrive(r, has)
  PROVE  IInv'
<1> DEFINE q == [has |-> has, at |-> First(has), seen |-> FALSE,
                 late |-> Withdrawn(has), passed |-> FALSE]
<1>1. Withdrawn(has) \subseteq {"bearer", "cookie"}
  BY DEF Withdrawn
<1>2. q \in Request
  BY <1>1 DEF Request, First, Ways
<1>3. /\ up /\ reqs' = [reqs EXCEPT ![r] = q]
      /\ has["cookie"] \in made \union {None}
      /\ UNCHANGED <<up, tokens, file, writer, pending, store, lapsed, users, made, issued,
                     revoked, unsaved>>
  BY DEF Arrive, tokenVars, cookieVars, history
<1>4. reqs'[r] = q
  BY <1>2, <1>3, OneChanges
<1>5. StillOut(reqs[r])'
  <2>1. "bearer" \in Withdrawn(has) => has["bearer"] \in revoked
    BY DEF Withdrawn
  <2>2. "cookie" \in Withdrawn(has) =>
          has["cookie"] \in made /\ has["cookie"] \notin store \ lapsed
    BY <1>3 DEF Withdrawn
  <2>3. First(has) = "bearer" => has["bearer"] \in Tokens
    BY DEF First
  <2>4. /\ q.has = has /\ q.at = First(has) /\ q.late = Withdrawn(has)
        /\ ~q.seen /\ ~q.passed
    OBVIOUS
  <2> HIDE DEF q
  <2> QED
    BY <1>1, <1>3, <1>4, <2>1, <2>2, <2>3, <2>4 DEF StillOut
<1>6. pending \in SUBSET Tokens
  BY DEF IInv, TypeOK
<1> HIDE DEF q
<1> QED
  BY <1>2, <1>3, <1>5, <1>6, OneChanges, RequestKeeps

LEMMA ReadKeeps ==
  ASSUME IInv, NEW r \in Requests, Read(r)
  PROVE  IInv'
<1> DEFINE q == reqs[r]
           p == [q EXCEPT !.seen = TRUE]
<1>1. q \in Request /\ StillOut(q) /\ pending \in SUBSET Tokens
  BY DEF IInv, TypeOK, OutStays
<1>2. /\ up /\ ~Locked(q.at) /\ Known(q.at, q.has[q.at])
      /\ reqs' = [reqs EXCEPT ![r] = p]
      /\ UNCHANGED <<up, tokens, file, writer, pending, store, lapsed, users, made, issued,
                     revoked, unsaved>>
  BY DEF Read, tokenVars, cookieVars, history
<1>3. q.at = "bearer" => "bearer" \notin q.late
  BY <1>1, <1>2 DEF IInv, Gone, Known, Lookup, StillOut
<1>4. q.at = "cookie" /\ "cookie" \in q.late => q.has["cookie"] \in lapsed
  BY <1>1, <1>2 DEF Known, StillOut
<1>5. p \in Request /\ p.has = q.has /\ p.at = q.at /\ p.late = q.late
      /\ p.passed = q.passed
  BY <1>1 DEF Request
<1>6. reqs'[r] = p
  BY <1>2, <1>5, OneChanges
<1>7. StillOut(reqs[r])'
  BY <1>1, <1>2, <1>3, <1>4, <1>5, <1>6 DEF StillOut
<1> HIDE DEF p
<1> QED
  BY <1>1, <1>2, <1>5, <1>7, OneChanges, RequestKeeps

LEMMA AcceptKeeps ==
  ASSUME IInv, NEW r \in Requests, Accept(r)
  PROVE  IInv'
<1> DEFINE q == reqs[r]
           p == [q EXCEPT !.passed = TRUE, !.seen = FALSE]
<1>1. q \in Request /\ StillOut(q) /\ pending \in SUBSET Tokens
  BY DEF IInv, TypeOK, OutStays
<1>2. /\ up /\ q.seen /\ (q.at = "cookie" => q.has["cookie"] \notin lapsed)
      /\ reqs' = [reqs EXCEPT ![r] = p]
      /\ UNCHANGED <<up, tokens, file, writer, store, lapsed, users, made, issued,
                     revoked, unsaved>>
  BY DEF Accept, cookieVars, history
<1>3. pending' \in SUBSET Tokens
  BY <1>1 DEF Accept, TouchLastUsed, StillOut
<1>4. q.at \notin q.late
  BY <1>1, <1>2 DEF StillOut
<1>5. p \in Request /\ p.has = q.has /\ p.at = q.at /\ p.late = q.late /\ ~p.seen
  BY <1>1 DEF Request
<1>6. reqs'[r] = p
  BY <1>2, <1>5, OneChanges
<1>7. StillOut(reqs[r])'
  BY <1>1, <1>2, <1>4, <1>5, <1>6 DEF StillOut
<1> HIDE DEF p
<1> QED
  BY <1>2, <1>3, <1>5, <1>7, OneChanges, RequestKeeps

LEMMA RefuseKeeps ==
  ASSUME IInv, NEW r \in Requests, Refuse(r)
  PROVE  IInv'
<1> DEFINE q == reqs[r]
           p == [q EXCEPT !.at = "basic", !.seen = FALSE]
<1>1. q \in Request /\ StillOut(q) /\ pending \in SUBSET Tokens
  BY DEF IInv, TypeOK, OutStays
<1>2. /\ up /\ ~q.passed /\ store' \subseteq store
      /\ UNCHANGED <<up, tokens, file, writer, pending, lapsed, users, made, issued,
                     revoked, unsaved>>
  BY DEF Refuse, tokenVars, history
<1>3. CASE reqs' = [reqs EXCEPT ![r] = Idle]
  BY <1>2, <1>3, EndKeeps
<1>4. CASE reqs' = [reqs EXCEPT ![r] = p]
  <2>1. p \in Request /\ p.has = q.has /\ p.at = "basic" /\ p.late = q.late /\ ~p.seen
        /\ ~p.passed
    BY <1>1, <1>2 DEF Request, Ways
  <2>2. reqs'[r] = p
    BY <1>4, <2>1, OneChanges
  <2>3. StillOut(reqs[r])'
    BY <1>1, <1>2, <2>1, <2>2 DEF StillOut
  <2> HIDE DEF p
  <2> QED
    BY <1>1, <1>2, <1>4, <2>1, <2>3, OneChanges, RequestKeeps
<1> QED
  BY <1>3, <1>4 DEF Refuse

LEMMA ServeKeeps ==
  ASSUME IInv, NEW r \in Requests, Serve(r)
  PROVE  IInv'
<1>1. /\ reqs[r].passed /\ reqs' = [reqs EXCEPT ![r] = Idle]
      /\ UNCHANGED <<up, tokens, file, writer, pending, store, lapsed, users, made, issued,
                     revoked, unsaved>>
  BY DEF Serve, tokenVars, cookieVars, history
<1>2. up
  BY <1>1 DEF IInv, DownIsEmpty, TypeOK, Idle
<1> QED
  BY <1>1, <1>2, EndKeeps

(***************************************************************************)
(* Crash and restart.                                                      *)
(***************************************************************************)
LEMMA CrashKeeps ==
  ASSUME IInv, Crash
  PROVE  IInv'
<1>1. /\ ~up' /\ tokens' = {} /\ writer' = None /\ pending' = {} /\ store' = {}
      /\ reqs' = [r \in Requests |-> Idle]
      /\ up' \in BOOLEAN /\ UNCHANGED <<file, lapsed, users, made, issued, revoked, unsaved>>
  BY DEF Crash, history
<1>2. TypeOK'
  BY <1>1, IdleIsOut DEF IInv, TypeOK
<1>3. Writing' /\ Gone' /\ IssuedSurvives' /\ Differ' /\ DownIsEmpty'
  BY <1>1 DEF IInv, Writing, Gone, IssuedSurvives, Differ, DownIsEmpty
<1>4. OutStays'
  BY <1>1, IdleIsOut DEF OutStays, StillOut
<1> QED
  BY <1>2, <1>3, <1>4 DEF IInv

LEMMA RestartKeeps ==
  ASSUME IInv, Restart
  PROVE  IInv'
<1>1. /\ ~up /\ up' = TRUE /\ file' = file \union Seeded /\ tokens' = file'
      /\ issued' = issued \union Seeded /\ revoked' = revoked \ Seeded /\ unsaved' = {}
      /\ UNCHANGED <<writer, pending, store, lapsed, users, reqs, made>>
  BY DEF Restart, cookieVars
<1>2. Seeded \subseteq Tokens /\ Seeded \subseteq made
  BY SeedAssumption DEF Seeded, IInv, Gone
<1>3. TypeOK'
  BY <1>1, <1>2 DEF IInv, TypeOK
<1>4. writer = None
  BY <1>1 DEF IInv, Writing
<1>5. Writing' /\ Gone' /\ IssuedSurvives' /\ Differ' /\ DownIsEmpty'
  BY <1>1, <1>2, <1>4 DEF IInv, Writing, Gone, IssuedSurvives, Differ, DownIsEmpty
<1>6. reqs' = [r \in Requests |-> Idle]
  BY <1>1 DEF IInv, DownIsEmpty
<1>7. OutStays'
  BY <1>6, IdleIsOut DEF OutStays, StillOut
<1> QED
  BY <1>3, <1>5, <1>7 DEF IInv

(***************************************************************************)
(* The invariant, and what follows from it.                                *)
(***************************************************************************)
LEMMA Stutter ==
  ASSUME IInv, UNCHANGED vars
  PROVE  IInv'
<1>1. UNCHANGED <<up, tokens, file, writer, pending, store, lapsed, users, reqs, made,
                  issued, revoked, unsaved>>
  BY DEF vars, tokenVars, cookieVars, history
<1>2. Writing' /\ Gone' /\ IssuedSurvives' /\ Differ' /\ OutStays'
  BY <1>1, TokensKept, OutKept
<1> QED
  BY <1>1, <1>2 DEF IInv, TypeOK, DownIsEmpty

LEMMA Invariant == Spec => []IInv
<1>1. IInv /\ [Next]_vars => IInv'
  <2> SUFFICES ASSUME IInv, [Next]_vars PROVE IInv'
    OBVIOUS
  <2>1. CASE Admin
    <3>1. ASSUME NEW t \in Tokens, Revoke(t) PROVE IInv'
      BY <3>1, RemoveKeeps DEF Revoke
    <3>2. ASSUME NEW u \in Users, RevokeByOwner(u) PROVE IInv'
      BY <3>2, RemoveKeeps DEF RevokeByOwner
    <3> QED
      BY <2>1, <3>1, <3>2, CreateKeeps, CookiesGoKeeps DEF Admin
  <2>2. CASE User
    <3>1. ASSUME NEW r \in Requests, NEW b \in Tokens \union {None},
                 NEW c \in Cookies \union {None}, NEW u \in Users \union {None},
                 Arrive(r, [w \in Ways |-> CASE w = "bearer" -> b
                                             [] w = "cookie" -> c
                                             [] w = "basic" -> u])
          PROVE  IInv'
      <4> DEFINE has == [w \in Ways |-> CASE w = "bearer" -> b
                                         [] w = "cookie" -> c
                                         [] w = "basic" -> u]
      <4>1. /\ has \in [Ways -> Tokens \union Cookies \union Users \union {None}]
            /\ has["bearer"] \in Tokens \union {None}
        BY DEF Ways
      <4>2. Arrive(r, has)
        BY <3>1
      <4> HIDE DEF has
      <4> QED
        BY <4>1, <4>2, ArriveKeeps
    <3> QED
      BY <2>2, <3>1, LoginKeeps, CookiesGoKeeps DEF User
  <2>3. CASE Work
    BY <2>3, PersistKeeps, AnswerKeeps, FlushKeeps, ReadKeeps, AcceptKeeps, RefuseKeeps,
       ServeKeeps DEF Work
  <2>4. CASE RemoveExpired \/ \E c \in Cookies : Lapse(c)
    BY <2>4, CookiesGoKeeps
  <2>5. CASE Crash \/ Restart
    BY <2>5, CrashKeeps, RestartKeeps
  <2>6. CASE UNCHANGED vars
    BY <2>6, Stutter
  <2> QED
    BY <2>1, <2>2, <2>3, <2>4, <2>5, <2>6 DEF Next
<1> QED
  BY <1>1, Initially, PTL DEF Spec

\* The stores' variables keep their types, for any tokens, cookies and requests
\* (token.go, session_store.go).
THEOREM TypeCorrect == Spec => []TypeOK
<1>1. IInv => TypeOK
  BY DEF IInv
<1> QED
  BY <1>1, Invariant, PTL

\* No failed write, flush, crash or restart loses a token that was handed out
\* (token.go:142-158, 283-319, 422-448).
THEOREM IssuedKept == Spec => []IssuedSurvives
<1>1. IInv => IssuedSurvives
  BY DEF IInv
<1> QED
  BY <1>1, Invariant, PTL

\* Memory and file differ only by what was answered 500 (token.go:150-152,
\* 284-318).
THEOREM FileFollows == Spec => []AnswersMatchFile
<1>1. IInv => AnswersMatchFile
  BY DEF IInv, Differ, Unwritten, AnswersMatchFile
<1> QED
  BY <1>1, Invariant, PTL

\* A credential that was withdrawn before a request arrived does not let it in
\* (token.go:213-319, session_store.go:61-80).
THEOREM WithdrawnRefused == Spec => []WithdrawnStaysOut
<1>1. IInv => WithdrawnStaysOut
  BY DEF IInv, OutStays, StillOut, WithdrawnStaysOut
<1> QED
  BY <1>1, Invariant, PTL
===============================================================================
