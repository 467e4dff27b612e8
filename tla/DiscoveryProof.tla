---------------------------- MODULE DiscoveryProof ----------------------------
(***************************************************************************)
(* Proofs about where the browsers come from: the catalogue that follows   *)
(* the adopted images, and the listing of a registry.                      *)
(***************************************************************************)
EXTENDS Catalogue, Registry, FiniteSetTheorems, TLAPS

------------------------------------------------------------------------------
(***************************************************************************)
(* The first and the last of a set of numbers.                             *)
(***************************************************************************)
\* A finite set of numbers has a least one.
LEMMA LeastExists ==
  ASSUME NEW S, IsFiniteSet(S), S \subseteq Nat, S # {}
  PROVE  \E x \in S : \A y \in S : x <= y
<1> DEFINE UpTo(x) == {y \in S : y <= x}
           T == {UpTo(x) : x \in S}
<1>1. T \subseteq FiniteSubsetsOf(S)
  BY FS_Subset DEF FiniteSubsetsOf
<1>2. T # {}
  OBVIOUS
<1>3. PICK U \in T : \A V \in T : <<V, U>> \notin StrictSubsetOrdering(S)
  <2> HIDE DEF T
  <2> QED  BY <1>1, <1>2, FS_StrictSubsetOrderingWellFounded, WFMin
<1>4. PICK x \in S : U = UpTo(x)
  BY <1>3
<1>5. ASSUME NEW y \in S, ~(x <= y)
      PROVE  FALSE
  <2>1. x \in Nat /\ y \in Nat /\ y < x
    BY <1>5
  <2>2. ASSUME NEW z \in UpTo(y)  PROVE  z \in UpTo(x)
    <3>1. z \in S /\ z \in Nat /\ z <= y
      OBVIOUS
    <3> QED  BY <2>1, <3>1
  <2>3. x \in UpTo(x) /\ x \notin UpTo(y)
    BY <2>1
  <2>4. <<UpTo(y), UpTo(x)>> \in StrictSubsetOrdering(S)
    BY <2>2, <2>3 DEF StrictSubsetOrdering
  <2> QED  BY <1>3, <1>4, <2>4
<1> QED  BY <1>5

\* Max is what it says.
LEMMA MaxIsGreatest ==
  ASSUME NEW S, IsFiniteSet(S), S \subseteq Nat, S # {}
  PROVE  Max(S) \in S /\ \A y \in S : y <= Max(S)
<1> DEFINE From(x) == {y \in S : x <= y}
           T == {From(x) : x \in S}
<1>1. T \subseteq FiniteSubsetsOf(S)
  BY FS_Subset DEF FiniteSubsetsOf
<1>2. T # {}
  OBVIOUS
<1>3. PICK U \in T : \A V \in T : <<V, U>> \notin StrictSubsetOrdering(S)
  <2> HIDE DEF T
  <2> QED  BY <1>1, <1>2, FS_StrictSubsetOrderingWellFounded, WFMin
<1>4. PICK x \in S : U = From(x)
  BY <1>3
<1>5. ASSUME NEW y \in S, ~(y <= x)
      PROVE  FALSE
  <2>1. x \in Nat /\ y \in Nat /\ x < y
    BY <1>5
  <2>2. ASSUME NEW z \in From(y)  PROVE  z \in From(x)
    <3>1. z \in S /\ z \in Nat /\ y <= z
      OBVIOUS
    <3> QED  BY <2>1, <3>1
  <2>3. x \in From(x) /\ x \notin From(y)
    BY <2>1
  <2>4. <<From(y), From(x)>> \in StrictSubsetOrdering(S)
    BY <2>2, <2>3 DEF StrictSubsetOrdering
  <2> QED  BY <1>3, <1>4, <2>4
<1>6. \A y \in S : x >= y
  BY <1>5
<1> QED  BY <1>6 DEF Max

------------------------------------------------------------------------------
(***************************************************************************)
(* The catalogue.                                                          *)
(*                                                                         *)
(* An answer about an image is true from when it is given because the      *)
(* store agrees with it (Kept) and nobody is about to change that: of the  *)
(* requests under way none is about the image.  Until then the request     *)
(* itself, if it is alone, carries what will be told.  The catalogue may   *)
(* still be assembled by another request, which has asked the store for    *)
(* some of the images already: the lock makes sure that it did so after    *)
(* what was told before (Assembling).                                      *)
(***************************************************************************)
Request ==
  [op : {"adopt", "dismiss", "rescan", None}, image : Images \union {None},
   at : {None, "store", "lock", "read"}, left : SUBSET Images,
   picked : SUBSET Images, seen : SUBSET Images, alone : BOOLEAN]

Typed ==
  /\ up \in BOOLEAN /\ conf \in BOOLEAN /\ rescanMu \in Callers \union {None}
  /\ present \subseteq Images /\ scan \subseteq Images
  /\ store \in [adopted : SUBSET Images, dismissed : SUBSET Images]
  /\ file \in [adopted : SUBSET Images, dismissed : SUBSET Images]
  /\ told \in [Images -> {"adopt", "dismiss", None}]
  /\ reqs \in [Callers -> Request]
  /\ \A c \in Callers :
       /\ reqs[c].image # None => reqs[c].op \in {"adopt", "dismiss"}
       /\ reqs[c].at = "store" => reqs[c].image # None

\* The store and the file agree with the answer, and will after a restart.
Kept(op, i) ==
  /\ op = "adopt" => i \in store.adopted /\ i \in file.adopted
  /\ op = "dismiss" => /\ i \notin store.adopted /\ i \notin file.adopted
                       /\ i \in store.dismissed /\ i \in file.dismissed

\* Nobody else is about to change what was told, or will be.
Undisturbed ==
  \A c \in Callers : reqs[c].image # None =>
     /\ told[reqs[c].image] = None
     /\ reqs[c].alone => \A d \in Callers \ {c} : reqs[d].image # reqs[c].image

AnswersKept ==
  /\ \A i \in Images : Kept(told[i], i)
  /\ \A c \in Callers :
       reqs[c].image # None /\ reqs[c].alone /\ reqs[c].at \in {"lock", "read"} =>
          Kept(reqs[c].op, reqs[c].image)

OneBuild(S) == \A i, j \in S : Version(i) = Version(j) => i = j

\* What a request has picked so far agrees with what will be told at its end.
Assembling ==
  \A c \in Callers :
     IF reqs[c].at = "read"
     THEN /\ rescanMu = c /\ OneBuild(reqs[c].seen)
          /\ reqs[c].left \union reqs[c].picked \subseteq reqs[c].seen
          /\ \A i \in Images :
               /\ Told(c)[i] = "adopt" /\ i \in reqs[c].seen =>
                    i \in reqs[c].left \union reqs[c].picked
               /\ Told(c)[i] = "dismiss" => i \notin reqs[c].picked
     ELSE reqs[c].picked = {}

CatalogueTrue ==
  up => \A i \in Images :
     /\ told[i] = "adopt" /\ i \in scan =>
          Version(i) \in Offered /\ catalogue.of[Version(i)] = i
     /\ told[i] = "dismiss" => \A w \in Offered : catalogue.of[w] # i

CatalogueInv ==
  Typed /\ Undisturbed /\ AnswersKept /\ Assembling /\ CatalogueTrue

\* Of the images that are listed there is one of each version.
LEMMA ListedOnce ==
  ASSUME Typed
  PROVE  ScanImages \subseteq Images /\ OneBuild(ScanImages)
<1>1. ScanImages \subseteq Images
  BY DEF Typed, ScanImages
<1>2. ASSUME NEW i \in ScanImages, NEW j \in ScanImages, Version(i) = Version(j)
      PROVE  i = j
  <2>1. i \in Nat \X Nat /\ j \in Nat \X Nat
    BY <1>1, ImagesAssumption
  <2>2. Created(i) <= Created(j) /\ Created(j) <= Created(i)
    BY <1>2 DEF ScanImages
  <2>3. Created(i) = Created(j)
    BY <2>1, <2>2 DEF Created
  <2> QED  BY <1>2, <2>1, <2>3 DEF Version, Created
<1> QED  BY <1>1, <1>2 DEF OneBuild

\* The catalogue of some images offers each of them, and no other.
LEMMA BuiltOf ==
  ASSUME NEW S \in SUBSET Images, OneBuild(S), NEW d
  PROVE  /\ \A i \in S : /\ Version(i) \in DOMAIN Built(S, d).of
                          /\ Built(S, d).of[Version(i)] = i
         /\ \A w \in DOMAIN Built(S, d).of : Built(S, d).of[w] \in S
<1> DEFINE f == [v \in {Version(i) : i \in S} |-> CHOOSE i \in S : Version(i) = v]
<1>1. Built(S, d).of = f
  BY DEF Built
<1>2. ASSUME NEW i \in S  PROVE  Version(i) \in DOMAIN f /\ f[Version(i)] = i
  <2>1. (CHOOSE j \in S : Version(j) = Version(i)) = i
    BY DEF OneBuild
  <2> QED  BY <2>1
<1>3. ASSUME NEW w \in DOMAIN f  PROVE  f[w] \in S
  <2>1. PICK i \in S : w = Version(i)
    OBVIOUS
  <2> QED  BY <1>2, <2>1
<1> QED  BY <1>1, <1>2, <1>3

LEMMA IdleRequest == Idle \in Request
  BY DEF Idle, Request

LEMMA CatalogueInitially == Init => CatalogueInv
<1> SUFFICES ASSUME Init  PROVE CatalogueInv
  OBVIOUS
<1>1. Typed
  BY IdleRequest, ImagesAssumption, NoneAssumption DEF Init, Typed, Idle, Nothing
<1>2. Undisturbed
  BY DEF Init, Undisturbed, Idle
<1>3. AnswersKept
  <2>1. \A i \in Images : told[i] = None
    BY DEF Init
  <2> QED  BY <2>1, NoneAssumption DEF Init, AnswersKept, Kept, Idle
<1>4. Assembling
  BY NoneAssumption DEF Init, Assembling, Idle
<1>5. CatalogueTrue
  BY NoneAssumption DEF Init, CatalogueTrue
<1> QED  BY <1>1, <1>2, <1>3, <1>4, <1>5 DEF CatalogueInv

\* A request begins: what was told about its image no longer stands, and the
\* others about it are alone no more.
LEMMA BeginKeeps ==
  ASSUME CatalogueInv, NEW c \in Callers, NEW req \in Request, Begin(c, req),
         req.picked = {}, req.at # "read",
         req.at = IF req.image = None THEN "lock" ELSE "store",
         req.image # None => req.op \in {"adopt", "dismiss"},
         told' = IF req.image = None THEN told
                 ELSE [told EXCEPT ![req.image] = None]
  PROVE  CatalogueInv'
<1> USE DEF CatalogueInv
<1>1. UNCHANGED <<up, conf, present, store, file, catalogue, rescanMu, scan>>
  BY DEF Begin
<1>2. \A d \in Callers :
        /\ reqs'[d] \in Request
        /\ reqs'[d].op = IF d = c THEN req.op ELSE reqs[d].op
        /\ reqs'[d].image = IF d = c THEN req.image ELSE reqs[d].image
        /\ reqs'[d].at = IF d = c THEN req.at ELSE reqs[d].at
        /\ reqs'[d].left = IF d = c THEN req.left ELSE reqs[d].left
        /\ reqs'[d].picked = IF d = c THEN req.picked ELSE reqs[d].picked
        /\ reqs'[d].seen = IF d = c THEN req.seen ELSE reqs[d].seen
  BY DEF Begin, Typed, Request
<1>3. \A d \in Callers : reqs'[d].alone /\ req.image # None =>
        IF d = c THEN \A e \in Callers \ {c} : reqs[e].image # req.image
        ELSE reqs[d].alone /\ reqs[d].image # req.image
  BY DEF Begin, Typed, Request, Same
<1>4. \A d \in Callers : d # c /\ reqs'[d].alone => reqs[d].alone
  BY DEF Begin, Typed, Request, Same
<1>5. \A i \in Images : told'[i] = IF i = req.image THEN None ELSE told[i]
  BY NoneAssumption DEF Typed
<1>6. Typed'
  <2>1. reqs' \in [Callers -> Request]
    BY <1>2 DEF Begin
  <2>2. told' \in [Images -> {"adopt", "dismiss", None}]
    BY DEF Typed
  <2> QED  BY <1>1, <1>2, <2>1, <2>2 DEF Typed
<1>7. Undisturbed'
  <2> SUFFICES ASSUME NEW d \in Callers, reqs'[d].image # None
               PROVE  /\ told'[reqs'[d].image] = None
                      /\ reqs'[d].alone => \A e \in Callers \ {d} :
                           reqs'[e].image # reqs'[d].image
    BY DEF Undisturbed
  <2>1. reqs'[d].image \in Images
    BY <1>2 DEF Request
  <2>2. told'[reqs'[d].image] = None
    BY <1>2, <1>5, <2>1 DEF Undisturbed
  <2>3. ASSUME reqs'[d].alone, NEW e \in Callers \ {d}
        PROVE  reqs'[e].image # reqs'[d].image
    <3>1. CASE d = c
      BY <1>2, <1>3, <2>3, <3>1
    <3>2. CASE d # c
      BY <1>2, <1>3, <1>4, <2>3, <3>2 DEF Undisturbed
    <3> QED  BY <3>1, <3>2
  <2> QED  BY <2>2, <2>3
<1>8. AnswersKept'
  <2>1. ASSUME NEW i \in Images  PROVE  Kept(told[i], i)' 
    BY <1>1, <1>5, NoneAssumption DEF AnswersKept, Kept
  <2>2. ASSUME NEW d \in Callers, reqs'[d].image # None, reqs'[d].alone,
               reqs'[d].at \in {"lock", "read"}
        PROVE  Kept(reqs[d].op, reqs[d].image)'
    <3>1. d # c
      BY <1>2, <2>2
    <3> QED  BY <1>1, <1>2, <1>4, <2>2, <3>1 DEF AnswersKept, Kept
  <2> QED  BY <2>1, <2>2 DEF AnswersKept
<1>9. Assembling'
  <2> SUFFICES ASSUME NEW d \in Callers, reqs'[d].at = "read"
               PROVE  \A i \in Images :
                        (Told(d)[i])' = None \/ (Told(d)[i])' = Told(d)[i]
    <3>1. \A d : d \in Callers /\ reqs'[d].at = "read" => d # c
      BY <1>2
    <3> QED  BY <1>1, <1>2, <3>1, NoneAssumption DEF Assembling
  <2>1. d # c
    BY <1>2
  <2>2. CASE reqs[d].image = None
    BY <1>2, <1>5, <2>1, <2>2 DEF Told
  <2>3. CASE reqs[d].image # None
    <3>1. told[reqs[d].image] = None
      BY <2>3 DEF Undisturbed
    <3>2. reqs[d].image \in Images
      BY <2>3 DEF Typed, Request
    <3> QED  BY <1>2, <1>4, <1>5, <1>6, <2>1, <2>3, <3>1, <3>2 DEF Told, Typed
  <2> QED  BY <2>2, <2>3
<1>10. CatalogueTrue'
  BY <1>1, <1>5, NoneAssumption DEF CatalogueTrue, Offered
<1> QED  BY <1>6, <1>7, <1>8, <1>9, <1>10

\* An image is moved that nothing was told of and no other request that is
\* alone is about.
LEMMA StoreKeeps ==
  ASSUME CatalogueInv, NEW c \in Callers, Store(c)
  PROVE  CatalogueInv'
<1> DEFINE j == reqs[c].image
           op == reqs[c].op
<1> USE DEF CatalogueInv
<1>1. UNCHANGED <<up, conf, present, catalogue, rescanMu, told, scan>>
  BY DEF Store, history
<1>2. j \in Images /\ op \in {"adopt", "dismiss"} /\ told[j] = None
  BY DEF Store, Typed, Request, Undisturbed
<1>3. /\ store' \in [adopted : SUBSET Images, dismissed : SUBSET Images]
      /\ \A i \in Images \ {j} : /\ i \in store'.adopted <=> i \in store.adopted
                                 /\ i \in store'.dismissed <=> i \in store.dismissed
      /\ op = "adopt" => j \in store'.adopted
      /\ op = "dismiss" => j \notin store'.adopted /\ j \in store'.dismissed
  BY <1>2 DEF Store, Moved, Typed
<1>4. \A d \in Callers \ {c} : reqs'[d] = reqs[d]
  BY DEF Store, Typed
<1>5. \/ /\ file' = store' /\ reqs'[c] \in Request
         /\ reqs'[c].op = op /\ reqs'[c].image = j /\ reqs'[c].at = "lock"
         /\ reqs'[c].picked = reqs[c].picked /\ reqs'[c].alone = reqs[c].alone
      \/ file' = file /\ reqs'[c] = Idle
  BY DEF Store, Typed, Request
<1>6. reqs' \in [Callers -> Request]
  BY <1>5, IdleRequest DEF Store, Typed, Request
<1>7. reqs[c].at = "store"
  BY DEF Store
<1>8. Typed'
  <2>1. file' \in [adopted : SUBSET Images, dismissed : SUBSET Images]
    BY <1>3, <1>5 DEF Typed
  <2>2. \A d \in Callers :
          /\ reqs'[d].image # None => reqs'[d].op \in {"adopt", "dismiss"}
          /\ reqs'[d].at # "store" \/ reqs'[d].image # None
    BY <1>2, <1>4, <1>5, NoneAssumption DEF Typed, Idle
  <2> QED  BY <1>1, <1>3, <1>6, <2>1, <2>2 DEF Typed
<1>9. \A d \in Callers : reqs'[d].image # None =>
        reqs'[d].image = reqs[d].image /\ reqs'[d].alone = reqs[d].alone
  BY <1>4, <1>5 DEF Idle
<1>10. Undisturbed'
  BY <1>1, <1>9 DEF Undisturbed
<1>11. AnswersKept'
  <2>1. \A i \in Images \ {j} : i \in file'.adopted <=>
          IF file' = store' THEN i \in store.adopted ELSE i \in file.adopted
    BY <1>3, <1>5
  <2>2. \A i \in Images \ {j} : i \in file'.dismissed <=>
          IF file' = store' THEN i \in store.dismissed ELSE i \in file.dismissed
    BY <1>3, <1>5
  <2>3. ASSUME NEW i \in Images  PROVE  Kept(told[i], i)'
    <3>1. CASE i = j
      BY <1>1, <1>2, <3>1, NoneAssumption DEF Kept
    <3>2. CASE i # j
      <4>1. Kept(told[i], i)
        BY DEF AnswersKept
      <4> QED  BY <1>1, <1>3, <2>1, <2>2, <3>2, <4>1 DEF Kept
    <3> QED  BY <3>1, <3>2
  <2>4. ASSUME NEW d \in Callers, reqs'[d].image # None, reqs'[d].alone,
               reqs'[d].at \in {"lock", "read"}
        PROVE  Kept(reqs[d].op, reqs[d].image)'
    <3>1. CASE d = c
      <4>1. file' = store' /\ reqs'[c].op = op /\ reqs'[c].image = j
        BY <1>5, <2>4, <3>1 DEF Idle
      <4> QED  BY <1>2, <1>3, <3>1, <4>1 DEF Kept
    <3>2. CASE d # c
      <4>1. reqs'[d] = reqs[d] /\ reqs[d].image \in Images
        BY <1>4, <2>4, <3>2 DEF Typed, Request
      <4>2. reqs[d].image # j
        BY <2>4, <3>2, <4>1 DEF Undisturbed
      <4>3. Kept(reqs[d].op, reqs[d].image)
        BY <2>4, <4>1 DEF AnswersKept
      <4> QED  BY <1>3, <2>1, <2>2, <4>1, <4>2, <4>3 DEF Kept
    <3> QED  BY <3>1, <3>2
  <2> QED  BY <2>3, <2>4 DEF AnswersKept
<1>12. Assembling'
  <2>1. ASSUME NEW d \in Callers \ {c}, NEW i \in Images
        PROVE  (Told(d)[i])' = Told(d)[i]
    BY <1>1, <1>4 DEF Told
  <2>2. reqs'[c].at # "read" /\ reqs'[c].picked = {}
    BY <1>5, <1>7, NoneAssumption DEF Assembling, Idle
  <2> QED  BY <1>1, <1>4, <2>1, <2>2 DEF Assembling
<1>13. CatalogueTrue'
  BY <1>1 DEF CatalogueTrue, Offered
<1> QED  BY <1>8, <1>10, <1>11, <1>12, <1>13

\* The lock is free, so that nobody else assembles.
LEMMA LockKeeps ==
  ASSUME CatalogueInv, NEW c \in Callers, Lock(c)
  PROVE  CatalogueInv'
<1> USE DEF CatalogueInv
<1>1. UNCHANGED <<up, conf, present, store, file, catalogue, told, scan>>
  BY DEF Lock, history
<1>2. \A d \in Callers \ {c} : reqs'[d] = reqs[d]
  BY DEF Lock, Listed, Typed
<1>3. ScanImages \subseteq Images /\ OneBuild(ScanImages)
  BY ListedOnce
<1>4. \/ /\ rescanMu' = c /\ reqs'[c] \in Request
         /\ reqs'[c].op = reqs[c].op /\ reqs'[c].image = reqs[c].image
         /\ reqs'[c].at = "read" /\ reqs'[c].alone = reqs[c].alone
         /\ reqs'[c].picked = reqs[c].picked
         /\ reqs'[c].left = ScanImages /\ reqs'[c].seen = ScanImages
      \/ reqs'[c] = Idle /\ rescanMu' = rescanMu
  BY <1>3 DEF Lock, Listed, Typed, Request
<1>5. reqs' \in [Callers -> Request]
  BY <1>2, <1>4, IdleRequest DEF Lock, Listed, Typed
<1>6. reqs[c].at = "lock" /\ rescanMu = None
  BY DEF Lock
<1>7. Typed'
  BY <1>1, <1>2, <1>4, <1>5, NoneAssumption DEF Typed, Idle
<1>8. \A d \in Callers : reqs'[d].image # None =>
        /\ reqs'[d].image = reqs[d].image /\ reqs'[d].alone = reqs[d].alone
        /\ reqs'[d].op = reqs[d].op
        /\ reqs'[d].at \in {"lock", "read"} => reqs[d].at \in {"lock", "read"}
  BY <1>2, <1>4, <1>6 DEF Idle
<1>9. Undisturbed'
  BY <1>1, <1>8 DEF Undisturbed
<1>10. AnswersKept'
  <2>1. \A i \in Images : Kept(told[i], i)'
    BY <1>1 DEF AnswersKept, Kept
  <2>2. ASSUME NEW d \in Callers, reqs'[d].image # None, reqs'[d].alone,
               reqs'[d].at \in {"lock", "read"}
        PROVE  Kept(reqs[d].op, reqs[d].image)'
    <3>1. Kept(reqs[d].op, reqs[d].image)
      BY <1>8, <2>2 DEF AnswersKept
    <3> QED  BY <1>1, <1>8, <2>2, <3>1 DEF Kept
  <2> QED  BY <2>1, <2>2 DEF AnswersKept
<1>11. Assembling'
  <2>1. \A d \in Callers : reqs[d].at # "read" /\ reqs[d].picked = {}
    BY <1>6, NoneAssumption DEF Assembling
  <2>2. CASE reqs'[c] = Idle /\ rescanMu' = rescanMu
    BY <1>2, <2>1, <2>2, NoneAssumption DEF Assembling, Idle
  <2>3. CASE ~(reqs'[c] = Idle /\ rescanMu' = rescanMu)
    <3>1. /\ rescanMu' = c /\ reqs'[c].picked = {}
          /\ reqs'[c].left = ScanImages /\ reqs'[c].seen = ScanImages
      BY <1>4, <2>1, <2>3
    <3>2. OneBuild(reqs[c].seen)'
      BY <1>3, <3>1 DEF OneBuild, Version
    <3> QED  BY <1>2, <2>1, <3>1, <3>2 DEF Assembling
  <2> QED  BY <2>2, <2>3
<1>12. CatalogueTrue'
  BY <1>1 DEF CatalogueTrue, Offered
<1> QED  BY <1>7, <1>9, <1>10, <1>11, <1>12

\* What is picked agrees with the store, and so with what will be told.
LEMMA ReadKeeps ==
  ASSUME CatalogueInv, NEW c \in Callers, Read(c)
  PROVE  CatalogueInv'
<1> USE DEF CatalogueInv
<1>1. UNCHANGED <<up, conf, present, store, file, catalogue, rescanMu, told, scan>>
  BY DEF Read, history
<1>2. reqs[c].at = "read"
  BY DEF Read
<1>3. PICK i \in reqs[c].left :
        reqs' = [reqs EXCEPT ![c].left = @ \ {i},
                   ![c].picked = IF i \in store.adopted THEN @ \union {i} ELSE @]
  BY DEF Read
<1>4. \A d \in Callers \ {c} : reqs'[d] = reqs[d]
  BY <1>3 DEF Typed
<1>5. /\ reqs'[c] \in Request
      /\ reqs'[c].op = reqs[c].op /\ reqs'[c].image = reqs[c].image
      /\ reqs'[c].at = "read" /\ reqs'[c].alone = reqs[c].alone
      /\ reqs'[c].seen = reqs[c].seen
      /\ reqs'[c].left = reqs[c].left \ {i}
      /\ reqs'[c].picked = IF i \in store.adopted THEN reqs[c].picked \union {i}
                           ELSE reqs[c].picked
  BY <1>2, <1>3 DEF Typed, Request
<1>6. reqs' \in [Callers -> Request]
  BY <1>3, <1>4, <1>5 DEF Typed
<1>7. Typed'
  BY <1>1, <1>4, <1>5, <1>6, <1>2 DEF Typed
<1>8. Undisturbed'
  BY <1>1, <1>4, <1>5 DEF Undisturbed
<1>9. AnswersKept'
  BY <1>1, <1>2, <1>4, <1>5 DEF AnswersKept, Kept
<1>10. Assembling'
  <2>1. \A d \in Callers, j \in Images : (Told(d)[j])' = Told(d)[j]
    BY <1>1, <1>4, <1>5 DEF Told
  <2>2. ASSUME NEW j \in Images  PROVE  Kept(Told(c)[j], j)
    BY <1>2, NoneAssumption DEF AnswersKept, Kept, Told, Typed
  <2>3. OneBuild(reqs[c].seen)'
    BY <1>2, <1>5 DEF Assembling, OneBuild, Version
  <2>4. reqs[c].left \subseteq Images /\ i \in reqs[c].seen
    BY <1>2, <1>5 DEF Typed, Request, Assembling
  <2>5. reqs'[c].left \union reqs'[c].picked \subseteq reqs'[c].seen
    BY <1>2, <1>5, <2>4 DEF Assembling
  <2>6. ASSUME NEW j \in Images
        PROVE  /\ Told(c)[j] = "adopt" /\ j \in reqs'[c].seen =>
                    j \in reqs'[c].left \union reqs'[c].picked
               /\ Told(c)[j] = "dismiss" => j \notin reqs'[c].picked
    BY <1>2, <1>5, <2>2 DEF Assembling, Kept
  <2> QED  BY <1>1, <1>2, <1>4, <1>5, <2>1, <2>3, <2>5, <2>6 DEF Assembling
<1>11. CatalogueTrue'
  BY <1>1 DEF CatalogueTrue, Offered
<1> QED  BY <1>7, <1>8, <1>9, <1>10, <1>11

\* The request is answered when the catalogue says so.
LEMMA AssembleKeeps ==
  ASSUME CatalogueInv, NEW c \in Callers, Assemble(c)
  PROVE  CatalogueInv'
<1> DEFINE R == reqs[c]
<1> USE DEF CatalogueInv
<1>1. UNCHANGED <<up, conf, present, store, file>> /\ rescanMu' = None
  BY DEF Assemble
<1>2. R.at = "read" /\ R.left = {} /\ R.picked \subseteq R.seen /\ OneBuild(R.seen)
  BY DEF Assemble, Assembling
<1>3. reqs' = [reqs EXCEPT ![c] = Idle] /\ reqs' \in [Callers -> Request]
  BY IdleRequest DEF Assemble, Typed
<1>4. reqs'[c] = Idle /\ \A d \in Callers \ {c} : reqs'[d] = reqs[d]
  BY <1>3 DEF Typed
<1>5. R.picked \subseteq Images /\ R.seen \subseteq Images
  BY DEF Typed, Request
<1>6. CASE UNCHANGED <<catalogue, told, scan>>
  <2>1. Typed'
    BY <1>1, <1>3, <1>4, <1>6, NoneAssumption DEF Typed, Idle
  <2>2. Undisturbed'
    BY <1>4, <1>6 DEF Undisturbed, Idle
  <2>3. AnswersKept'
    BY <1>1, <1>4, <1>6 DEF AnswersKept, Kept, Idle
  <2>4. Assembling'
    BY <1>2, <1>4, NoneAssumption DEF Assembling, Idle
  <2>5. CatalogueTrue'
    BY <1>1, <1>6 DEF CatalogueTrue, Offered
  <2> QED  BY <2>1, <2>2, <2>3, <2>4, <2>5
<1>7. CASE \E next : /\ Replace(c, next)
                     /\ \/ R.picked # {} /\ \E d : next = Built(R.picked, d)
                        \/ R.picked = {} /\ next = Json
  <2>1. PICK next : /\ Replace(c, next)
                    /\ \/ R.picked # {} /\ \E d : next = Built(R.picked, d)
                       \/ R.picked = {} /\ next = Json
    BY <1>7
  <2>2. catalogue' = next /\ scan' = R.seen /\ told' = Told(c)
    BY <2>1 DEF Replace
  <2>3. \A i \in Images : Told(c)[i] =
          IF R.image = i /\ R.alone THEN R.op ELSE told[i]
    BY NoneAssumption DEF Told, Typed
  <2>4. told' \in [Images -> {"adopt", "dismiss", None}]
    BY <2>2 DEF Told, Typed, Request
  <2>5. Typed'
    BY <1>1, <1>3, <1>4, <1>5, <2>2, <2>4, NoneAssumption DEF Typed, Idle
  <2>6. Undisturbed'
    <3> SUFFICES ASSUME NEW d \in Callers, reqs'[d].image # None
                 PROVE  /\ told'[reqs'[d].image] = None
                        /\ reqs'[d].alone => \A e \in Callers \ {d} :
                             reqs'[e].image # reqs'[d].image
      BY DEF Undisturbed
    <3>1. d # c /\ reqs'[d] = reqs[d] /\ reqs[d].image \in Images
      BY <1>4 DEF Idle, Typed, Request
    <3>2. told'[reqs[d].image] = None
      BY <2>2, <2>3, <3>1 DEF Undisturbed
    <3>3. reqs[d].alone => \A e \in Callers \ {d} : reqs'[e].image # reqs[d].image
      BY <1>4, <3>1 DEF Undisturbed, Idle
    <3> QED  BY <3>1, <3>2, <3>3
  <2>7. AnswersKept'
    <3>1. ASSUME NEW i \in Images  PROVE  Kept(told[i], i)'
      BY <1>1, <1>2, <2>2, <2>3, NoneAssumption DEF AnswersKept, Kept
    <3>2. \A d \in Callers : reqs'[d].image # None => reqs'[d] = reqs[d]
      BY <1>4 DEF Idle
    <3>3. ASSUME NEW d \in Callers, reqs'[d].image # None, reqs'[d].alone,
                 reqs'[d].at \in {"lock", "read"}
          PROVE  Kept(reqs[d].op, reqs[d].image)'
      BY <1>1, <3>2, <3>3 DEF AnswersKept, Kept
    <3> QED  BY <3>1, <3>3 DEF AnswersKept
  <2>8. Assembling'
    BY <1>2, <1>4, NoneAssumption DEF Assembling, Idle
  <2>9. CatalogueTrue'
    <3> SUFFICES ASSUME NEW i \in Images
                 PROVE  /\ Told(c)[i] = "adopt" /\ i \in R.seen =>
                             Version(i) \in DOMAIN next.of /\ next.of[Version(i)] = i
                        /\ Told(c)[i] = "dismiss" =>
                             \A w \in DOMAIN next.of : next.of[w] # i
      BY <2>2 DEF CatalogueTrue, Offered, Version
    <3>1. /\ Told(c)[i] = "adopt" /\ i \in R.seen => i \in R.picked
          /\ Told(c)[i] = "dismiss" => i \notin R.picked
      BY <1>2 DEF Assembling
    <3>2. CASE R.picked # {} /\ \E d : next = Built(R.picked, d)
      <4>1. OneBuild(R.picked)
        BY <1>2 DEF OneBuild
      <4> QED  BY <1>5, <3>1, <3>2, <4>1, BuiltOf
    <3>3. CASE R.picked = {} /\ next = Json
      <4>1. \A w \in DOMAIN next.of : next.of[w] = None
        BY <3>3 DEF Json
      <4> QED  BY <3>1, <3>3, <4>1, NoneAssumption
    <3> QED  BY <2>1, <3>2, <3>3
  <2> QED  BY <2>5, <2>6, <2>7, <2>8, <2>9
<1> QED  BY <1>6, <1>7 DEF Assemble, history

\* What happens on the host concerns the next request.
LEMMA ChangeKeeps == CatalogueInv /\ Change => CatalogueInv'
<1> SUFFICES ASSUME CatalogueInv, Change  PROVE CatalogueInv'
  OBVIOUS
<1>1. UNCHANGED <<up, conf, store, file, catalogue, rescanMu, reqs, told, scan>>
  BY DEF Change, history
<1>2. present' \subseteq Images
  BY DEF Change, CatalogueInv, Typed
<1>3. Typed'
  BY <1>1, <1>2 DEF CatalogueInv, Typed
<1>4. (Undisturbed /\ AnswersKept)'
  BY <1>1 DEF CatalogueInv, Undisturbed, AnswersKept, Kept
<1>5. Assembling'
  BY <1>1 DEF CatalogueInv, Assembling, OneBuild, Version, Told
<1>6. CatalogueTrue'
  BY <1>1 DEF CatalogueInv, CatalogueTrue, Offered, Version
<1> QED  BY <1>3, <1>4, <1>5, <1>6 DEF CatalogueInv

\* Whoever was told keeps what the file says.
LEMMA CrashKeeps == CatalogueInv /\ Crash => CatalogueInv'
<1> SUFFICES ASSUME CatalogueInv, Crash  PROVE CatalogueInv'
  OBVIOUS
<1>1. /\ UNCHANGED <<conf, present, store, file, catalogue, told, scan>>
      /\ up' = FALSE /\ rescanMu' = None
  BY DEF Crash, history
<1>2. reqs' = [c \in Callers |-> Idle]
  BY DEF Crash
<1>3. Typed'
  BY <1>1, <1>2, IdleRequest, NoneAssumption DEF CatalogueInv, Typed, Idle
<1>4. Undisturbed' /\ Assembling'
  BY <1>2, NoneAssumption DEF Undisturbed, Assembling, Idle
<1>5. AnswersKept'
  BY <1>1, <1>2 DEF CatalogueInv, AnswersKept, Kept, Idle
<1>6. CatalogueTrue'
  BY <1>1 DEF CatalogueTrue
<1> QED  BY <1>3, <1>4, <1>5, <1>6 DEF CatalogueInv

\* No request is under way in a process that has stopped.
Stopped == ~up => \A c \in Callers : reqs[c] = Idle

LEMMA StoppedStep == Stopped /\ [Next]_vars => Stopped'
<1> SUFFICES ASSUME Stopped, [Next]_vars  PROVE Stopped'
  OBVIOUS
<1>1. CASE up' = TRUE
  BY <1>1 DEF Stopped
<1>2. CASE Crash
  BY <1>2 DEF Crash, Stopped
<1>3. CASE UNCHANGED <<up, reqs>>
  BY <1>3 DEF Stopped
<1>4. ASSUME NEW c \in Callers, Step(c)  PROVE up /\ UNCHANGED up
  BY <1>4 DEF Step, Store, Lock, Read, Assemble
<1>5. ASSUME NEW c \in Callers, NEW op, NEW i, Ask(c, op, i) \/ AskRescan(c)
      PROVE  up /\ UNCHANGED up
  BY <1>5 DEF Ask, AskRescan, Begin
<1> QED
  BY <1>1, <1>2, <1>3, <1>4, <1>5 DEF Next, Change, Restart, vars, Stopped

\* The catalogue is built from the file, which agrees with what was told, or
\* from nothing, and then nothing is told.
LEMMA RestartKeeps == CatalogueInv /\ Stopped /\ Restart => CatalogueInv'
<1> SUFFICES ASSUME CatalogueInv, Stopped, Restart  PROVE CatalogueInv'
  OBVIOUS
<1> DEFINE Silent == [i \in Images |-> None]
<1>1. PICK kept \in {file, Nothing} :
        Start(kept) /\ ((kept = file /\ told' = told) \/ told' = Silent)
  BY DEF Restart
<1>2. /\ UNCHANGED <<conf, present, file, rescanMu, reqs>>
      /\ up' = TRUE /\ store' = kept /\ scan' = ScanImages
      /\ \A c \in Callers : reqs[c] = Idle
  BY <1>1 DEF Restart, Start, Stopped
<1> DEFINE S == ScanImages \intersect kept.adopted
<1>3. ScanImages \subseteq Images /\ OneBuild(ScanImages)
  BY ListedOnce DEF CatalogueInv
<1>4. Typed'
  <2>1. told' \in [Images -> {"adopt", "dismiss", None}]
    BY <1>1 DEF CatalogueInv, Typed
  <2>2. kept \in [adopted : SUBSET Images, dismissed : SUBSET Images]
    BY DEF CatalogueInv, Typed, Nothing
  <2> QED  BY <1>2, <1>3, <2>1, <2>2 DEF CatalogueInv, Typed
<1>5. Undisturbed' /\ Assembling'
  BY <1>2, NoneAssumption DEF Undisturbed, Assembling, Idle
<1>6. AnswersKept'
  <2>1. ASSUME NEW i \in Images  PROVE Kept(told[i], i)'
    BY <1>1, <1>2, <2>1, NoneAssumption DEF CatalogueInv, AnswersKept, Kept
  <2> QED  BY <1>2, <2>1 DEF AnswersKept, Idle
<1>7. CatalogueTrue'
  <2> SUFFICES ASSUME NEW i \in Images
               PROVE  /\ told'[i] = "adopt" /\ i \in ScanImages =>
                           Version(i) \in DOMAIN catalogue'.of
                           /\ catalogue'.of[Version(i)] = i
                      /\ told'[i] = "dismiss" =>
                           \A w \in DOMAIN catalogue'.of : catalogue'.of[w] # i
    BY <1>2 DEF CatalogueTrue, Offered, Version
  <2>1. /\ told'[i] = "adopt" /\ i \in ScanImages => i \in S
        /\ told'[i] = "dismiss" => i \notin S
    BY <1>2, <1>6 DEF AnswersKept, Kept
  <2>2. CASE S # {} /\ \E d : catalogue' = Built(S, d)
    <3>1. OneBuild(S)
      BY <1>3 DEF OneBuild
    <3>2. PICK d : catalogue' = Built(S, d)
      BY <2>2
    <3>3. /\ \A j \in S : /\ Version(j) \in DOMAIN catalogue'.of
                          /\ catalogue'.of[Version(j)] = j
          /\ \A w \in DOMAIN catalogue'.of : catalogue'.of[w] \in S
      <4>1. S \in SUBSET Images
        BY <1>3
      <4> HIDE DEF S
      <4> QED  BY <3>1, <3>2, <4>1, BuiltOf
    <3> QED  BY <2>1, <3>3
  <2>3. CASE S = {} /\ catalogue' \in {Json, Empty}
    <3>1. \A w \in DOMAIN catalogue'.of : catalogue'.of[w] = None
      BY <2>3 DEF Json, Empty
    <3> QED  BY <2>1, <2>3, <3>1, NoneAssumption
  <2> QED  BY <1>1, <2>2, <2>3 DEF Start
<1> QED  BY <1>4, <1>5, <1>6, <1>7 DEF CatalogueInv

LEMMA CatalogueStep == CatalogueInv /\ Stopped /\ [Next]_vars => CatalogueInv'
<1> SUFFICES ASSUME CatalogueInv, Stopped, [Next]_vars  PROVE CatalogueInv'
  OBVIOUS
<1>1. ASSUME NEW c \in Callers, NEW op \in {"adopt", "dismiss"}, NEW i \in Images,
             Ask(c, op, i)
      PROVE  CatalogueInv'
  <2> DEFINE req == [Idle EXCEPT !.op = op, !.image = i, !.at = "store"]
  <2>1. /\ req \in Request /\ req.picked = {} /\ req.op = op
        /\ req.image = i /\ req.at = "store"
    BY IdleRequest DEF Idle, Request
  <2>2. Begin(c, req) /\ told' = [told EXCEPT ![i] = None]
    BY <1>1 DEF Ask
  <2> HIDE DEF req
  <2> QED  BY <2>1, <2>2, BeginKeeps, NoneAssumption
<1>2. ASSUME NEW c \in Callers, AskRescan(c)
      PROVE  CatalogueInv'
  <2> DEFINE req == [Idle EXCEPT !.op = "rescan", !.at = "lock"]
  <2>1. /\ req \in Request /\ req.picked = {} /\ req.image = None /\ req.at = "lock"
    BY IdleRequest DEF Idle, Request
  <2>2. Begin(c, req) /\ told' = told
    BY <1>2 DEF AskRescan
  <2> HIDE DEF req
  <2> QED  BY <2>1, <2>2, BeginKeeps
<1>3. ASSUME NEW c \in Callers, Step(c)
      PROVE  CatalogueInv'
  BY <1>3, StoreKeeps, LockKeeps, ReadKeeps, AssembleKeeps DEF Step
<1>4. CASE UNCHANGED vars
  BY <1>4 DEF vars, history, counters, CatalogueInv, Typed, Undisturbed,
     AnswersKept, Kept, Assembling, OneBuild, Version, Told, CatalogueTrue, Offered
<1> QED
  BY <1>1, <1>2, <1>3, <1>4, ChangeKeeps, CrashKeeps, RestartKeeps DEF Next

\* The strengthened invariant holds in every state (adoptBrowser,
\* dismissBrowser, AssembleCatalog).
THEOREM CatalogueInvariance == Spec => []CatalogueInv
<1>1. Init => Stopped
  BY DEF Init, Stopped
<1>2. Spec => []Stopped
  BY <1>1, StoppedStep, PTL DEF Spec
<1> QED  BY <1>2, CatalogueInitially, CatalogueStep, PTL DEF Spec

\* What Find answers with is offered, and a version that is offered is found.
LEMMA FindOffered ==
  ASSUME NEW v
  PROVE  /\ Find(v) \subseteq Offered
         /\ v \in Offered /\ v # None => Find(v) = {v}
<1>1. \A w : Prefixed(w) \subseteq Offered /\ SameMinor(w) \subseteq Offered
  BY DEF Prefixed, SameMinor
<1> QED  BY <1>1 DEF Find

\* However many requests assemble the catalogue at once, and whatever has
\* crashed or could not be written meanwhile, what was answered about an image
\* since the last start that could not read the file is true of what sessions
\* are given (discovery_handlers.go:99-113, discovery/catalog.go:24-83,
\* discovery/adopted.go:45-69).
THEOREM AnswersTrue == Spec => []AnswersStayTrue
<1>1. CatalogueInv => AnswersStayTrue
  <2> SUFFICES ASSUME CatalogueInv, up, NEW i \in Images
               PROVE  /\ told[i] = "adopt" /\ i \in scan =>
                           Find(Version(i)) = {Version(i)} /\ catalogue.of[Version(i)] = i
                      /\ told[i] = "dismiss" =>
                           \A v \in Requested : \A w \in Find(v) : catalogue.of[w] # i
                      /\ told[i] # None => i \notin FilterUnadopted
    BY DEF AnswersStayTrue
  <2>1. Version(i) # None
    <3>1. i \in Nat \X Nat
      BY ImagesAssumption
    <3> QED  BY <3>1, NoneAssumption DEF Version
  <2>2. /\ told[i] = "adopt" /\ i \in scan =>
             Version(i) \in Offered /\ catalogue.of[Version(i)] = i
        /\ told[i] = "dismiss" => \A w \in Offered : catalogue.of[w] # i
    BY DEF CatalogueInv, CatalogueTrue
  <2>3. told[i] # None => i \in store.adopted \union store.dismissed
    BY DEF CatalogueInv, AnswersKept, Kept, Typed
  <2> QED  BY <2>1, <2>2, <2>3, FindOffered DEF FilterUnadopted
<1> QED  BY <1>1, CatalogueInvariance, PTL

\* What a session is given when it asks for no version is offered, and no image
\* is both adopted and dismissed.
WellFormed(cat) ==
  /\ DOMAIN cat.of \subseteq Versions
  /\ cat.default \in IF DOMAIN cat.of = {} THEN {None} ELSE DOMAIN cat.of

Shape ==
  /\ WellFormed(catalogue)
  /\ store.adopted \intersect store.dismissed = {}
  /\ file.adopted \intersect file.dismissed = {}

\* The versions of some images have a highest.
LEMMA HighestVersion ==
  ASSUME NEW S \in SUBSET Images, S # {}
  PROVE  Max({Version(i) : i \in S}) \in {Version(i) : i \in S}
<1> DEFINE T == {Version(i) : i \in S}
           f == [i \in S |-> Version(i)]
<1>1. f \in Surjection(S, T)
  BY DEF Surjection
<1>2. IsFiniteSet(S)
  BY ImagesAssumption, FS_Subset
<1>3. IsFiniteSet(T)
  <2> HIDE DEF T, f
  <2> QED  BY <1>1, <1>2, FS_Surjection
<1>4. T \subseteq Nat /\ T # {}
  <2>1. \A i \in S : i \in Nat \X Nat
    BY ImagesAssumption
  <2> QED  BY <2>1 DEF Version
<1> HIDE DEF T
<1>5. Max(T) \in T
  BY <1>3, <1>4, MaxIsGreatest
<1> QED  BY <1>5 DEF T

LEMMA JsonWellFormed == WellFormed(Json)
<1>1. Max(Versions) \in Versions
  BY HighestVersion, ImagesAssumption DEF Versions
<1> QED  BY <1>1 DEF WellFormed, Json

LEMMA BuiltWellFormed ==
  ASSUME NEW S \in SUBSET Images, S # {}, NEW d \in Defaults(S)
  PROVE  WellFormed(Built(S, d))
<1>1. DOMAIN Built(S, d).of = {Version(i) : i \in S} /\ Built(S, d).default = d
  BY DEF Built
<1>2. d \in {Version(i) : i \in S}
  BY HighestVersion DEF Defaults
<1> QED  BY <1>1, <1>2 DEF WellFormed, Versions

LEMMA ShapeStep == CatalogueInv /\ Shape /\ [Next]_vars => Shape'
<1> SUFFICES ASSUME CatalogueInv, Shape, [Next]_vars  PROVE Shape'
  OBVIOUS
<1> USE DEF Shape
<1>1. ASSUME NEW c \in Callers, Store(c)
      PROVE  Shape'
  <2>1. UNCHANGED catalogue /\ file' \in {file, store'}
    BY <1>1 DEF Store
  <2>2. store'.adopted \intersect store'.dismissed = {}
    BY <1>1 DEF Store, Moved
  <2> QED  BY <2>1, <2>2 DEF WellFormed
<1>2. ASSUME NEW c \in Callers, Assemble(c)
      PROVE  Shape'
  <2>1. UNCHANGED <<store, file>>
    BY <1>2 DEF Assemble
  <2>2. reqs[c].picked \in SUBSET Images
    BY DEF CatalogueInv, Typed, Request
  <2>3. WellFormed(catalogue')
    BY <1>2, <2>2, JsonWellFormed, BuiltWellFormed DEF Assemble, Replace
  <2> QED  BY <2>1, <2>3 DEF WellFormed
<1>3. CASE Restart
  <2>1. PICK kept \in {file, Nothing} : Start(kept)
    BY <1>3 DEF Restart
  <2> DEFINE S == ScanImages \intersect kept.adopted
  <2>2. S \in SUBSET Images
    BY DEF CatalogueInv, Typed, ScanImages
  <2>3. WellFormed(Empty)
    BY DEF WellFormed, Empty
  <2>4. WellFormed(catalogue')
    BY <2>1, <2>2, <2>3, JsonWellFormed, BuiltWellFormed DEF Start
  <2>5. UNCHANGED file /\ store' \in {file, Nothing}
    BY <1>3 DEF Restart, Start
  <2> QED  BY <2>4, <2>5 DEF Nothing
<1>4. CASE UNCHANGED <<catalogue, store, file>>
  BY <1>4 DEF WellFormed, Versions, Version
<1>5. ASSUME NEW c \in Callers, Lock(c) \/ Read(c) \/ AskRescan(c)
      PROVE  Shape'
  BY <1>4, <1>5 DEF Lock, Read, AskRescan, Begin
<1>6. ASSUME NEW c \in Callers, NEW op, NEW i, Ask(c, op, i)
      PROVE  Shape'
  BY <1>4, <1>6 DEF Ask, Begin
<1>7. CASE Change \/ Crash \/ UNCHANGED vars
  BY <1>4, <1>7 DEF Change, Crash, vars
<1> QED  BY <1>1, <1>2, <1>3, <1>5, <1>6, <1>7 DEF Next, Step

\* The catalogue and the store have their types: the default is a version that
\* is offered, and no image is adopted and dismissed (config/config.go:75-108).
THEOREM CatalogueTypeCorrect == Spec => []TypeOK
<1>1. Init => Shape
  <2> SUFFICES ASSUME Init  PROVE Shape
    OBVIOUS
  <2>1. WellFormed(Empty)
    BY DEF WellFormed, Empty
  <2>2. WellFormed(catalogue)
    BY <2>1, JsonWellFormed DEF Init
  <2> QED  BY <2>2 DEF Init, Shape, Nothing
<1>2. CatalogueInv /\ Shape /\ [Next]_vars => Shape'
  BY ShapeStep
<1>3. Spec => []Shape
  BY <1>1, <1>2, CatalogueInvariance, PTL DEF Spec
<1>4. CatalogueInv /\ Shape => TypeOK
  <2> SUFFICES ASSUME CatalogueInv, Shape  PROVE TypeOK
    OBVIOUS
  <2>1. /\ up \in BOOLEAN /\ conf \in BOOLEAN /\ present \subseteq Images
        /\ told \in [Images -> {"adopt", "dismiss", None}] /\ scan \subseteq Images
    BY DEF CatalogueInv, Typed
  <2>2. \A s \in {store, file} : s.adopted \union s.dismissed \subseteq Images
                                 /\ s.adopted \intersect s.dismissed = {}
    BY DEF CatalogueInv, Typed, Shape
  <2>3. Offered \subseteq Versions
        /\ catalogue.default \in IF Offered = {} THEN {None} ELSE Offered
    BY DEF Shape, WellFormed, Offered
  <2>4. rescanMu \in Callers \union {None}
    BY DEF CatalogueInv, Typed
  <2>5. \A c \in Callers : reqs[c].picked \subseteq reqs[c].seen
    BY DEF CatalogueInv, Assembling
  <2> QED  BY <2>1, <2>2, <2>3, <2>4, <2>5 DEF TypeOK
<1> QED  BY <1>3, <1>4, CatalogueInvariance, PTL

------------------------------------------------------------------------------
(***************************************************************************)
(* The listing of a registry.                                              *)
(*                                                                         *)
(* What cannot be missed has been read or is still to come: it is among    *)
(* what the next link leaves (Covered).  A registry's link is the last     *)
(* name of a page, and the names up to it are all in the page or before    *)
(* it.  Docker Hub counts: a name that comes moves no name to an earlier   *)
(* page, and one that goes moves what has not been read out of sure.       *)
(***************************************************************************)
Walk == [at : {"idle", "walking", "ok", "error"}, page : 0 .. MaxPages - 1,
         next : Nat \union {NoLink}, got : SUBSET Names]

ListingTyped ==
  /\ has \in [Lists -> SUBSET Names] /\ source \in {"oci", "hub"}
  /\ phase \in {"idle", "catalog", "tags", "listed", "failed", "pulling", "pulled"}
  /\ walk \in [Lists -> Walk]
  /\ sure \in [Lists -> SUBSET Names] /\ gone \in BOOLEAN
  /\ refs \subseteq Names \X Names
  /\ \A k \in Lists : sure[k] \subseteq has[k]

Started ==
  /\ phase = "idle" => walk[Catalog].at = "idle"
  /\ \A k \in Lists : /\ walk[k].at = "idle" => walk[k].next = 0
                      /\ walk[k].at = "walking" => walk[k].next # NoLink

Covered ==
  \A k \in Lists :
     /\ walk[k].at = "walking" => sure[k] \subseteq walk[k].got \union Left(k)
     /\ walk[k].at = "ok" /\ walk[k].next = NoLink => sure[k] \subseteq walk[k].got

ListingInv == ListingTyped /\ Started /\ Covered

\* How many of a finite set come before a number.
LEMMA RankType ==
  ASSUME NEW S, IsFiniteSet(S), NEW n
  PROVE  Rank(n, S) \in Nat
<1>1. {m \in S : m < n} \subseteq S
  OBVIOUS
<1> QED  BY <1>1, FS_Subset, FS_CardinalityType DEF Rank

\* The rank grows with the number and with the set.
LEMMA RankGrows ==
  ASSUME NEW T, IsFiniteSet(T), NEW S \in SUBSET T, T \subseteq Nat,
         NEW m \in Nat, NEW n \in Nat, m <= n
  PROVE  Rank(m, S) <= Rank(n, T)
<1> DEFINE A == {x \in S : x < m}
           B == {x \in T : x < n}
<1>1. A \subseteq B
  <2> SUFFICES ASSUME NEW x \in A  PROVE x \in B
    OBVIOUS
  <2>1. x \in T /\ x \in Nat /\ x < m
    OBVIOUS
  <2> QED  BY <2>1
<1>2. IsFiniteSet(B)
  BY FS_Subset
<1> HIDE DEF A, B
<1>3. Cardinality(A) <= Cardinality(B)
  BY <1>1, <1>2, FS_Subset
<1> QED  BY <1>3 DEF Rank, A, B

LEMMA SizeType == PageSize \in Nat \ {0} /\ MaxPages \in Nat \ {0}
  BY SizeAssumption

\* The part of a finite list that the link leaves is finite.
LEMMA LeftType ==
  ASSUME ListingTyped, NEW k \in Lists
  PROVE  /\ has[k] \subseteq Nat /\ IsFiniteSet(has[k])
         /\ Left(k) \subseteq has[k] /\ IsFiniteSet(Left(k))
         /\ Page(k) \subseteq Left(k) /\ IsFiniteSet(Page(k))
         /\ Page(k) \subseteq Names
<1>1. has[k] \subseteq Names
  BY DEF ListingTyped
<1>2. Left(k) \subseteq has[k] /\ Page(k) \subseteq Left(k)
  BY DEF Left, Page
<1>3. IsFiniteSet(Names) /\ Names \subseteq Nat
  BY NamesAssumption
<1> QED  BY <1>1, <1>2, <1>3, FS_Subset

\* If there is something left the page is not empty.
LEMMA PageNotEmpty ==
  ASSUME ListingTyped, NEW k \in Lists, Left(k) # {}
  PROVE  Page(k) # {}
<1>1. Left(k) \subseteq Nat /\ IsFiniteSet(Left(k))
  BY LeftType
<1>2. PICK x \in Left(k) : \A y \in Left(k) : x <= y
  BY <1>1, LeastExists
<1>3. {m \in Left(k) : m < x} = {}
  <2> SUFFICES ASSUME NEW m \in Left(k), m < x  PROVE FALSE
    OBVIOUS
  <2> QED  BY <1>1, <1>2
<1>4. Rank(x, Left(k)) = 0
  BY <1>3, FS_EmptySet DEF Rank
<1> QED  BY <1>4, SizeType DEF Page

\* The next link leaves what is not in the page.
LEMMA LinkLeaves ==
  ASSUME ListingTyped, NEW k \in Lists, walk[k].next \in Nat, Left(k) # Page(k)
  PROVE  /\ Link(k) \in Nat
         /\ \A n \in Left(k) \ Page(k) :
              IF source = "oci" THEN n > Link(k)
              ELSE Rank(n, has[k]) >= PageSize * Link(k)
<1>1. /\ has[k] \subseteq Nat /\ IsFiniteSet(has[k])
      /\ Left(k) \subseteq has[k] /\ IsFiniteSet(Left(k))
      /\ Page(k) \subseteq Left(k) /\ IsFiniteSet(Page(k))
  BY LeftType
<1>2. Left(k) # {}
  BY <1>1
<1>3. Link(k) = IF source = "oci" THEN Max(Page(k)) ELSE walk[k].next + 1
  BY DEF Link
<1>4. CASE source = "oci"
  <2>1. Link(k) = Max(Page(k))
    BY <1>3, <1>4
  <2>2. Link(k) \in Page(k)
    BY <1>1, <1>2, <2>1, PageNotEmpty, MaxIsGreatest
  <2>3. ASSUME NEW n \in Left(k) \ Page(k), ~(n > Link(k))
        PROVE  FALSE
    <3>1. n \in Nat /\ Link(k) \in Nat /\ n <= Link(k)
      BY <1>1, <2>2, <2>3
    <3>2. Rank(n, Left(k)) <= Rank(Link(k), Left(k))
      BY <1>1, <3>1, RankGrows
    <3>3. Rank(Link(k), Left(k)) < PageSize
      BY <2>2 DEF Page
    <3>4. ~(Rank(n, Left(k)) < PageSize)
      BY <2>3 DEF Page
    <3>5. Rank(n, Left(k)) \in Nat /\ Rank(Link(k), Left(k)) \in Nat
      BY <1>1, RankType
    <3> QED  BY <3>2, <3>3, <3>4, <3>5, SizeType
  <2> QED  BY <1>1, <1>4, <2>2, <2>3
<1>5. CASE source # "oci"
  <2> DEFINE K == PageSize * walk[k].next
  <2>1. Link(k) = walk[k].next + 1
    BY <1>3, <1>5
  <2>2. K \in Nat /\ PageSize * Link(k) = K + PageSize
    BY <2>1, SizeType
  <2>3. Left(k) = {n \in has[k] : Rank(n, has[k]) >= K}
    BY <1>5 DEF Left
  <2>4. PICK x \in Left(k) : \A y \in Left(k) : x <= y
    BY <1>1, <1>2, LeastExists
  <2>5. ASSUME NEW n \in Left(k) \ Page(k)
        PROVE  Rank(n, has[k]) >= PageSize * Link(k)
    <3> DEFINE A == {m \in has[k] : m < x}
               B == {m \in Left(k) : m < n}
               C == {m \in has[k] : m < n}
    <3>1. x \in Nat /\ n \in Nat /\ x <= n
      BY <1>1, <2>4
    <3>2. A \intersect B = {}
      <4> SUFFICES ASSUME NEW m \in A, m \in B  PROVE FALSE
        OBVIOUS
      <4> QED  BY <1>1, <2>4
    <3>3. A \union B \subseteq C
      <4>1. ASSUME NEW m \in A  PROVE m \in C
        <5>1. m \in has[k] /\ m \in Nat /\ m < x
          BY <1>1
        <5> QED  BY <3>1, <5>1
      <4> QED  BY <1>1, <4>1
    <3>4. IsFiniteSet(A) /\ IsFiniteSet(B) /\ IsFiniteSet(C)
      BY <1>1, FS_Subset
    <3>5. /\ Cardinality(A) = Rank(x, has[k])
          /\ Cardinality(B) = Rank(n, Left(k))
          /\ Cardinality(C) = Rank(n, has[k])
      BY DEF Rank
    <3> HIDE DEF A, B, C
    <3>6. /\ Cardinality(A) \in Nat /\ Cardinality(B) \in Nat
          /\ Cardinality(C) \in Nat
      BY <3>4, FS_CardinalityType
    <3>7. Cardinality(A \union B) = Cardinality(A) + Cardinality(B)
      <4>1. Cardinality(A \intersect B) = 0
        BY <3>2, FS_EmptySet
      <4>2. Cardinality(A \union B) =
              Cardinality(A) + Cardinality(B) - Cardinality(A \intersect B)
        BY <3>4, FS_Union
      <4> QED  BY <3>6, <4>1, <4>2
    <3>8. Cardinality(A \union B) <= Cardinality(C)
      BY <3>3, <3>4, FS_Subset
    <3>9. Rank(x, has[k]) >= K
      BY <2>3, <2>4
    <3>10. ~(Rank(n, Left(k)) < PageSize)
      BY <2>5 DEF Page
    <3> HIDE DEF K
    <3> QED  BY <2>2, <3>5, <3>6, <3>7, <3>8, <3>9, <3>10, SizeType
  <2> QED  BY <1>5, <2>1, <2>5
<1> QED  BY <1>4, <1>5

\* A list that is not touched has the same names left.
LEMMA LeftSame ==
  ASSUME NEW j \in Lists, UNCHANGED source, has'[j] = has[j],
         walk'[j].next = walk[j].next
  PROVE  Left(j)' = Left(j)
  BY DEF Left, Rank

LEMMA ListingInitially == RegistryInit => ListingInv
<1> SUFFICES ASSUME RegistryInit  PROVE ListingInv
  OBVIOUS
<1>1. Catalog \in Lists
  BY DEF Lists
<1>2. Fresh \in Walk
  BY SizeType DEF Fresh, Walk
<1>3. ListingTyped
  BY <1>2 DEF RegistryInit, ListingTyped, Walk
<1>4. Started /\ Covered
  BY <1>1 DEF RegistryInit, Fresh, Started, Covered
<1> QED  BY <1>3, <1>4 DEF ListingInv

\* A walk begins with everything before it.
LEMMA WalkBeginsKeeps ==
  ASSUME ListingInv, NEW k \in Lists, WalkBegins(k), walk[k].at = "idle",
         UNCHANGED <<has, source, gone, refs>>,
         phase' \in {"catalog", "tags"}
  PROVE  ListingInv'
<1> USE DEF ListingInv
<1>1. /\ walk'[k] = [walk[k] EXCEPT !.at = "walking"] /\ sure'[k] = has[k]
      /\ \A j \in Lists \ {k} : walk'[j] = walk[j] /\ sure'[j] = sure[j]
  BY DEF WalkBegins, ListingTyped
<1>2. /\ walk'[k] \in Walk /\ walk'[k].at = "walking" /\ walk'[k].next = walk[k].next
      /\ walk' \in [Lists -> Walk]
  BY <1>1 DEF ListingTyped, Walk, WalkBegins
<1>3. sure' \in [Lists -> SUBSET Names]
  BY DEF WalkBegins, ListingTyped
<1>4. ListingTyped'
  BY <1>1, <1>2, <1>3 DEF ListingTyped, Walk
<1>5. walk[k].next = 0
  BY DEF Started
<1>6. Started'
  <2>1. walk'[k].at = "walking" /\ walk'[k].next # NoLink
    BY <1>2, <1>5, NoLinkAssumption
  <2>2. phase' # "idle"
    OBVIOUS
  <2>3. \A j \in Lists \ {k} :
          /\ walk'[j].at = "idle" => walk'[j].next = 0
          /\ walk'[j].at = "walking" => walk'[j].next # NoLink
    BY <1>1 DEF Started
  <2> QED  BY <2>1, <2>2, <2>3 DEF Started
<1>7. Left(k) = has[k]
  <2>1. ASSUME NEW n \in has[k]
        PROVE  n > 0 /\ Rank(n, has[k]) >= PageSize * 0
    <3>1. n \in Nat \ {0}
      BY NamesAssumption DEF ListingTyped
    <3>2. Rank(n, has[k]) \in Nat
      BY LeftType, RankType
    <3> QED  BY <3>1, <3>2, SizeType
  <2> QED  BY <1>5, <2>1 DEF Left
<1>8. Covered'
  <2>1. \A j \in Lists : Left(j)' = Left(j)
    BY <1>1, <1>2, LeftSame
  <2> QED  BY <1>1, <1>2, <1>7, <2>1 DEF Covered
<1> QED  BY <1>4, <1>6, <1>8

\* A page is read, and the link leaves the rest.
LEMMA FetchKeeps ==
  ASSUME ListingInv, NEW k \in Lists, Fetch(k)
  PROVE  ListingInv'
<1> USE DEF ListingInv
<1>1. /\ walk[k].at = "walking"
      /\ UNCHANGED <<has, source, phase, sure, gone, refs>>
  BY DEF Fetch
<1>2. walk[k].next \in Nat /\ walk[k].page \in 0 .. MaxPages - 1
      /\ walk[k].got \subseteq Names
  BY <1>1 DEF ListingTyped, Walk, Started
<1>3. PICK link \in {Link(k), walk[k].next}, unread \in BOOLEAN :
        LET last == link = NoLink \/ unread \/ walk[k].page + 1 = MaxPages IN
        walk' = [walk EXCEPT ![k] =
          [at |-> IF last THEN "ok" ELSE "walking",
           page |-> IF last THEN 0 ELSE walk[k].page + 1,
           next |-> IF last /\ link # NoLink THEN 0 ELSE link,
           got |-> walk[k].got \union Page(k)]]
  BY DEF Fetch, ListingTyped
<1> DEFINE last == link = NoLink \/ unread \/ walk[k].page + 1 = MaxPages
<1>4. /\ \A j \in Lists \ {k} : walk'[j] = walk[j]
      /\ walk'[k] = [at |-> IF last THEN "ok" ELSE "walking",
                     page |-> IF last THEN 0 ELSE walk[k].page + 1,
                     next |-> IF last /\ link # NoLink THEN 0 ELSE link,
                     got |-> walk[k].got \union Page(k)]
  BY <1>3 DEF ListingTyped
<1>5. /\ link \in Nat \union {NoLink}
      /\ link = NoLink => Left(k) = Page(k)
      /\ link = Link(k) /\ link # NoLink => Left(k) # Page(k)
  BY <1>2, LinkLeaves, NoLinkAssumption DEF Link
<1>6. walk'[k] \in Walk
  <2>1. (IF last THEN 0 ELSE walk[k].page + 1) \in 0 .. MaxPages - 1
    BY <1>2, SizeType
  <2>2. (IF last /\ link # NoLink THEN 0 ELSE link) \in Nat \union {NoLink}
    BY <1>5
  <2>3. walk[k].got \union Page(k) \in SUBSET Names
    BY <1>2, LeftType
  <2> HIDE DEF last
  <2> QED  BY <1>4, <2>1, <2>2, <2>3 DEF Walk
<1>7. walk' \in [Lists -> Walk]
  BY <1>3, <1>4, <1>6 DEF ListingTyped, Walk
<1>8. ListingTyped'
  BY <1>1, <1>7 DEF ListingTyped, Walk
<1>9. Started'
  <2>1. walk'[k].at \in {"ok", "walking"}
    BY <1>4
  <2>2. walk'[k].at = "walking" => walk'[k].next # NoLink
    BY <1>4
  <2>3. phase' = "idle" => k # Catalog
    BY <1>1 DEF Started
  <2>4. Catalog \in Lists
    BY DEF Lists
  <2> HIDE DEF last
  <2> QED  BY <1>1, <1>4, <2>1, <2>2, <2>3, <2>4 DEF Started
<1>10. Covered'
  <2>1. \A j \in Lists \ {k} : Left(j)' = Left(j)
    BY <1>1, <1>4, LeftSame
  <2>2. sure[k] \subseteq walk[k].got \union Left(k)
    BY <1>1 DEF Covered
  <2>3. CASE last /\ link # NoLink
    <3>1. walk'[k].at = "ok" /\ walk'[k].next # NoLink
      BY <1>4, <2>3, NoLinkAssumption
    <3> QED  BY <1>1, <1>4, <2>1, <3>1 DEF Covered
  <2>4. CASE link = NoLink
    <3>1. Left(k) = Page(k)
      BY <1>5, <2>4
    <3>2. walk'[k].at = "ok" /\ sure'[k] \subseteq walk'[k].got
      BY <1>1, <1>4, <2>2, <2>4, <3>1
    <3> QED  BY <1>1, <1>4, <2>1, <3>2 DEF Covered
  <2>5. CASE ~last
    <3>1. walk'[k].at = "walking" /\ walk'[k].next = link
          /\ walk'[k].got = walk[k].got \union Page(k)
      BY <1>4, <2>5
    <3>2. Left(k) \subseteq Page(k) \union Left(k)'
      <4>1. CASE link = walk[k].next
        BY <1>1, <3>1, <4>1, LeftSame
      <4>2. CASE link = Link(k) /\ link # NoLink
        <5>1. \A n \in Left(k) \ Page(k) :
                IF source = "oci" THEN n > link
                ELSE Rank(n, has[k]) >= PageSize * link
          BY <1>2, <1>5, <4>2, LinkLeaves
        <5>2. Left(k)' = {n \in has[k] :
                IF source = "oci" THEN n > link
                ELSE Rank(n, has[k]) >= PageSize * link}
          BY <1>1, <3>1 DEF Left, Rank
        <5>3. Left(k) \subseteq has[k]
          BY DEF Left
        <5> QED  BY <5>1, <5>2, <5>3
      <4> QED  BY <2>5, <4>1, <4>2
    <3>3. sure'[k] \subseteq walk'[k].got \union Left(k)'
      BY <1>1, <2>2, <3>1, <3>2
    <3> QED  BY <1>1, <1>4, <2>1, <3>1, <3>3 DEF Covered
  <2> QED  BY <2>3, <2>4, <2>5
<1> QED  BY <1>8, <1>9, <1>10

\* A walk that fails has nothing to say.
LEMMA FetchFailsKeeps ==
  ASSUME ListingInv, NEW k \in Lists, FetchFails(k)
  PROVE  ListingInv'
<1> USE DEF ListingInv
<1>1. /\ walk[k].at = "walking" /\ UNCHANGED <<has, source, phase, sure, gone, refs>>
      /\ walk' = [walk EXCEPT ![k] = [Fresh EXCEPT !.at = "error"]]
  BY DEF FetchFails
<1>2. /\ walk'[k] \in Walk /\ walk'[k].at = "error"
      /\ \A j \in Lists \ {k} : walk'[j] = walk[j]
  BY <1>1, SizeType DEF ListingTyped, Walk, Fresh
<1>3. ListingTyped'
  BY <1>1, <1>2 DEF ListingTyped, Walk
<1>4. Started'
  BY <1>1, <1>2 DEF Started
<1>5. Covered'
  <2>1. \A j \in Lists \ {k} : Left(j)' = Left(j)
    BY <1>1, <1>2, LeftSame
  <2> QED  BY <1>1, <1>2, <2>1 DEF Covered
<1> QED  BY <1>3, <1>4, <1>5

\* A name that comes moves no other to an earlier page.
LEMMA PushKeeps ==
  ASSUME ListingInv, NEW k \in Lists, NEW n \in Names, Push(k, n)
  PROVE  ListingInv'
<1> USE DEF ListingInv
<1>1. UNCHANGED <<source, phase, walk, sure, gone, refs>>
  BY DEF Push
<1>2. /\ has' \in [Lists -> SUBSET Names] /\ has'[k] = has[k] \union {n}
      /\ \A j \in Lists \ {k} : has'[j] = has[j]
  BY DEF Push, ListingTyped
<1>3. ListingTyped'
  BY <1>1, <1>2 DEF ListingTyped
<1>4. Started'
  BY <1>1 DEF Started
<1>5. \A j \in Lists \ {k} : Left(j)' = Left(j)
  BY <1>1, <1>2, LeftSame
<1>6. walk[k].at = "walking" => Left(k) \subseteq Left(k)'
  <2> SUFFICES ASSUME walk[k].at = "walking", NEW m \in Left(k)
               PROVE  m \in Left(k)'
    OBVIOUS
  <2>1. m \in has[k] /\ m \in Nat /\ m \in has'[k]
    BY <1>2, LeftType
  <2>2. has'[k] \subseteq Nat /\ IsFiniteSet(has'[k]) /\ has[k] \in SUBSET has'[k]
    BY <1>2, NamesAssumption, FS_Subset
  <2>3. /\ Rank(m, has[k]) <= Rank(m, has'[k])
        /\ Rank(m, has[k]) \in Nat /\ Rank(m, has'[k]) \in Nat
    <3>1. IsFiniteSet(has[k])
      BY LeftType
    <3> QED  BY <2>1, <2>2, <3>1, RankGrows, RankType
  <2>4. walk[k].next \in Nat
    BY DEF ListingTyped, Walk, Started
  <2>5. PageSize * walk[k].next \in Nat
    BY <2>4, SizeType
  <2>6. Left(k)' = {x \in has'[k] : IF source = "oci" THEN x > walk[k].next
                                    ELSE Rank(x, has'[k]) >= PageSize * walk[k].next}
    BY <1>1 DEF Left, Rank
  <2>7. IF source = "oci" THEN m > walk[k].next
        ELSE Rank(m, has[k]) >= PageSize * walk[k].next
    BY DEF Left
  <2> QED  BY <2>1, <2>3, <2>5, <2>6, <2>7
<1>7. Covered'
  BY <1>1, <1>5, <1>6 DEF Covered
<1> QED  BY <1>3, <1>4, <1>7

\* On Docker Hub a name that goes moves others past a walk; what has been read
\* stays read.
LEMMA DeleteKeeps ==
  ASSUME ListingInv, NEW k \in Lists, NEW n \in Names, Delete(k, n)
  PROVE  ListingInv'
<1> USE DEF ListingInv
<1>1. UNCHANGED <<source, phase, walk, gone, refs>>
  BY DEF Delete
<1>2. /\ has' \in [Lists -> SUBSET Names] /\ has'[k] = has[k] \ {n}
      /\ \A j \in Lists \ {k} : has'[j] = has[j]
  BY DEF Delete, ListingTyped
<1>3. /\ sure' \in [Lists -> SUBSET Names]
      /\ sure'[k] \subseteq sure[k] \ {n}
      /\ source # "oci" => sure'[k] \subseteq walk[k].got
      /\ \A j \in Lists \ {k} : sure'[j] = sure[j]
  BY DEF Delete, ListingTyped
<1>4. ListingTyped'
  BY <1>1, <1>2, <1>3 DEF ListingTyped
<1>5. Started'
  BY <1>1 DEF Started
<1>6. \A j \in Lists \ {k} : Left(j)' = Left(j)
  BY <1>1, <1>2, LeftSame
<1>7. walk[k].at = "walking" => sure'[k] \subseteq walk[k].got \union Left(k)'
  <2>1. CASE source = "oci"
    <3>1. Left(k)' = Left(k) \ {n}
      BY <1>1, <1>2, <2>1 DEF Left
    <3> QED  BY <1>3, <3>1 DEF Covered
  <2>2. CASE source # "oci"
    BY <1>3, <2>2
  <2> QED  BY <2>1, <2>2
<1>8. Covered'
  BY <1>1, <1>3, <1>6, <1>7 DEF Covered
<1> QED  BY <1>4, <1>5, <1>8

\* The other steps touch no list.
LEMMA NoListTouched ==
  ASSUME ListingInv, UNCHANGED <<has, source, walk, sure>>,
         phase' \in {"catalog", "tags", "listed", "failed", "pulling", "pulled", phase},
         refs' \subseteq Names \X Names, gone' \in BOOLEAN
  PROVE  ListingInv'
<1>1. ListingTyped'
  BY DEF ListingInv, ListingTyped
<1>2. Started'
  BY DEF ListingInv, Started
<1>3. Covered'
  <2>1. \A j \in Lists : Left(j)' = Left(j)
    BY LeftSame
  <2> QED  BY <2>1 DEF ListingInv, Covered
<1> QED  BY <1>1, <1>2, <1>3 DEF ListingInv

LEMMA ListingStep == ListingInv /\ [RegistryNext]_registryVars => ListingInv'
<1> SUFFICES ASSUME ListingInv, [RegistryNext]_registryVars  PROVE ListingInv'
  OBVIOUS
<1>1. Catalog \in Lists /\ Names \subseteq Lists
  BY DEF Lists
<1>2. refs \subseteq Names \X Names /\ gone \in BOOLEAN
  BY DEF ListingInv, ListingTyped
<1>3. CASE List
  <2>1. walk[Catalog].at = "idle"
    BY <1>3 DEF List, ListingInv, Started
  <2> QED  BY <1>1, <1>3, <2>1, WalkBeginsKeeps DEF List
<1>4. CASE Pull
  <2>1. Tagged \subseteq Names \X Names
    BY <1>1 DEF Tagged, Found, ListingInv, ListingTyped, Walk
  <2>2. refs' \subseteq Names \X Names /\ phase' = "pulling"
        /\ UNCHANGED <<has, source, walk, sure, gone>>
    BY <1>4, <2>1 DEF Pull
  <2> QED  BY <1>2, <2>2, NoListTouched
<1>5. ASSUME NEW k \in Lists, Fetch(k) \/ FetchFails(k)
      PROVE  ListingInv'
  BY <1>5, FetchKeeps, FetchFailsKeeps
<1>6. CASE CatalogListed \/ Wait \/ PullsDone
  <2>1. /\ UNCHANGED <<has, source, walk, sure, gone, refs>>
        /\ phase' \in {"tags", "failed", "listed", "pulled"}
    BY <1>6 DEF CatalogListed, Wait, PullsDone
  <2> QED  BY <1>2, <2>1, NoListTouched
<1>7. ASSUME NEW r \in Names, Go(r)
      PROVE  ListingInv'
  BY <1>1, <1>7, WalkBeginsKeeps DEF Go
<1>8. ASSUME NEW x \in refs, ImagePull(x)
      PROVE  ListingInv'
  <2>1. refs' \subseteq refs /\ UNCHANGED <<has, source, phase, walk, sure, gone>>
    BY <1>8 DEF ImagePull
  <2> QED  BY <1>2, <2>1, NoListTouched
<1>9. CASE Leave
  <2>1. gone' = TRUE /\ UNCHANGED <<has, source, phase, walk, sure, refs>>
    BY <1>9 DEF Leave
  <2> QED  BY <1>2, <2>1, NoListTouched
<1>10. ASSUME NEW k \in Lists, NEW n \in Names, Push(k, n) \/ Delete(k, n)
       PROVE  ListingInv'
  BY <1>10, PushKeeps, DeleteKeeps
<1>11. CASE UNCHANGED registryVars
  <2>1. UNCHANGED <<has, source, phase, walk, sure, gone, refs>>
    BY <1>11 DEF registryVars
  <2> QED  BY <1>2, <2>1, NoListTouched
<1> QED
  BY <1>3, <1>4, <1>5, <1>6, <1>7, <1>8, <1>9, <1>10, <1>11 DEF RegistryNext, Work

THEOREM ListingInvariance == RegistrySpec => []ListingInv
<1> QED  BY ListingInitially, ListingStep, PTL DEF RegistrySpec

\* The listing has its types; no walk reads more than MaxPages pages
\* (client.go:384-438).
THEOREM ListingTypeCorrect == RegistrySpec => []RegistryTypeOK
<1>1. ListingInv => RegistryTypeOK
  <2> SUFFICES ASSUME ListingInv  PROVE RegistryTypeOK
    OBVIOUS
  <2>1. 0 .. MaxPages - 1 \subseteq 0 .. MaxPages
    BY SizeType
  <2>2. walk \in [Lists -> [at : {"idle", "walking", "ok", "error"}, page : 0 .. MaxPages,
                            next : Nat \union {NoLink}, got : SUBSET Names]]
    BY <2>1 DEF ListingInv, ListingTyped, Walk
  <2> QED  BY <2>2 DEF ListingInv, ListingTyped, RegistryTypeOK
<1> QED  BY <1>1, ListingInvariance, PTL

\* However a registry's or Docker Hub's list changes from page to page, and
\* however large a page is, a list that was not cut has everything that was
\* there all the time (client.go:384-438, 446-488, 531-611).
THEOREM ListsAreWhole == RegistrySpec => []WholeOrError
<1>1. ListingInv => WholeOrError
  <2>1. ListingInv => Found \union {Catalog} \subseteq Lists
    BY DEF ListingInv, ListingTyped, Walk, Found, Lists
  <2> QED  BY <2>1 DEF WholeOrError, ListingInv, Covered
<1> QED  BY <1>1, ListingInvariance, PTL
==============================================================================
