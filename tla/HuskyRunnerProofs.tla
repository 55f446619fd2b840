-------------------------- MODULE HuskyRunnerProofs --------------------------
(***************************************************************************)
(* Proofs about HuskyRunner, for any number of runs and packages.          *)
(*                                                                         *)
(* A build only moves packages to the present sources, and its signature   *)
(* is of sources that were present before it began.  So what a build has   *)
(* done is of sources no older than its signature's, whatever other runs   *)
(* build meanwhile; and so is everything once the signature is stored.     *)
(* The same holds of the images as long as nobody inspects a tag that is   *)
(* ahead of the container: then no signature is ahead of the container     *)
(* that builds, nor of any that is created later.                          *)
(***************************************************************************)
EXTENDS HuskyRunner, TLAPS

\* What a build has done so far has been built.
DoneIsBuilt ==
    \A r \in Runs :
        /\ at[r] \in {"building", "store"} =>
             \A p \in Packages \ todo[r] : tree[p] # NoBuild
        /\ at[r] = "store" => todo[r] = {}

\* No sources are younger than the present ones, and nothing done is of older ones
\* than the run, or the signature, looked at.
SourcesInTime ==
    /\ \A p \in Packages : /\ tree[p].source <= source
                           /\ stored.source <= tree[p].source
    /\ \A r \in Runs :
        /\ mine[r].source <= source
        /\ at[r] \in {"building", "store"} =>
             \A p \in Packages \ todo[r] : mine[r].source <= tree[p].source

\* No image is younger than the tag's.  Unless a run has inspected a tag that had been
\* moved, nothing signed is younger than the container, and nothing done is of an
\* older image than the run, or the signature, looked at.
ImagesInTime ==
    /\ container <= image
    /\ stored.image <= image
    /\ \A r \in Runs : mine[r].image <= image
    /\ ~crossed =>
         /\ container # None =>
              stored.image <= container /\ \A r \in Runs : mine[r].image <= container
         /\ \A p \in Packages : stored.image <= tree[p].image
         /\ \A r \in Runs : at[r] \in {"building", "store"} =>
              \A p \in Packages \ todo[r] : mine[r].image <= tree[p].image

InTime == SourcesInTime /\ ImagesInTime

BuildInv == TypeOK /\ DoneIsBuilt /\ SignatureMeansComplete

USE BoundsAssumption

\* A container, a tag and the parts of a build are numbers; only what is there is not
\* None.
LEMMA BuildsAreNat ==
  /\ \A b \in Builds : b.image \in Nat /\ b.source \in Nat
  /\ NoBuild \in Builds /\ NoBuild.image = 0 /\ NoBuild.source = 0
  /\ \A i \in Images : i \in Nat /\ i # None /\ 0 < i
  /\ \A c \in Sources : c \in Nat /\ c # None /\ 0 < c
  BY DEF Builds, NoBuild, Images, Sources, None

\* Removing the container moves nobody into a build.
LEMMA RemoveMoves ==
  ASSUME TypeOK, NEW r \in Runs, NEW place \in Places \ {"building"}, Remove(r, place)
  PROVE  /\ container' = None /\ at' \in [Runs -> Places]
         /\ \A x \in Runs : at'[x] \in {at[x], place, "cleanup"}
         /\ \A x \in Runs : at'[x] # "building" /\ todo'[x] = {}
         /\ todo' \in [Runs -> SUBSET Packages]
<1>1. at' = [x \in Runs |-> IF x = r THEN place
                             ELSE IF at[x] \in {"building", "launched"} THEN "cleanup"
                             ELSE at[x]]
  BY DEF Remove
<1>2. \A x \in Runs : at[x] \in Places /\ "cleanup" \in Places
  BY DEF TypeOK, Places
<1>3. \A x \in Runs : at'[x] \in {at[x], place, "cleanup"}
  BY <1>1
<1>4. at' \in [Runs -> Places]
  BY <1>1, <1>2
<1>5. \A x \in Runs : at'[x] # "building"
  BY <1>1
<1>6. todo' = [x \in Runs |-> {}]
  BY DEF Remove
<1>7. (\A x \in Runs : todo'[x] = {}) /\ todo' \in [Runs -> SUBSET Packages]
  BY <1>6
<1> QED BY <1>3, <1>4, <1>5, <1>7 DEF Remove

\* What a run reads of the host becomes part of its signature, and of no other's.
LEMMA Inspected ==
  ASSUME TypeOK, NEW r \in Runs, InspectImage(r)
  PROVE  /\ mine' \in [Runs -> Builds]
         /\ \A x \in Runs : mine'[x].source = mine[x].source
         /\ mine'[r].image = image
         /\ \A x \in Runs : x # r => mine'[x] = mine[x]
<1>1. mine' = [mine EXCEPT ![r] = [mine[r] EXCEPT !.image = image]]
  BY DEF InspectImage
<1>2. mine \in [Runs -> Builds] /\ mine[r] \in Builds /\ image \in Images
  BY DEF TypeOK
<1>3. /\ [mine[r] EXCEPT !.image = image] \in Builds
      /\ [mine[r] EXCEPT !.image = image].image = image
      /\ [mine[r] EXCEPT !.image = image].source = mine[r].source
  BY <1>2 DEF Builds
<1> QED BY <1>1, <1>2, <1>3

\* The same of the sources.
LEMMA Hashed ==
  ASSUME TypeOK, NEW r \in Runs, HashSources(r)
  PROVE  /\ mine' \in [Runs -> Builds]
         /\ \A x \in Runs : mine'[x].image = mine[x].image
         /\ mine'[r].source = source
         /\ \A x \in Runs : x # r => mine'[x] = mine[x]
<1>1. mine' = [mine EXCEPT ![r] = [mine[r] EXCEPT !.source = source]]
  BY DEF HashSources
<1>2. mine \in [Runs -> Builds] /\ mine[r] \in Builds /\ source \in Sources
  BY DEF TypeOK
<1>3. /\ [mine[r] EXCEPT !.source = source] \in Builds
      /\ [mine[r] EXCEPT !.source = source].source = source
      /\ [mine[r] EXCEPT !.source = source].image = mine[r].image
  BY <1>2 DEF Builds
<1> QED BY <1>1, <1>2, <1>3

\* A package that is built comes from the container and the sources of that moment.
LEMMA PackageBuilt ==
  ASSUME TypeOK, NEW r \in Runs, NEW p \in Packages, BuildPackage(r, p)
  PROVE  /\ container \in Images /\ tree' \in [Packages -> Builds]
         /\ tree'[p] # NoBuild
         /\ tree'[p].image = container /\ tree'[p].source = source
         /\ \A q \in Packages : q # p => tree'[q] = tree[q]
         /\ \A x \in Runs : todo'[x] = IF x = r THEN todo[r] \ {p} ELSE todo[x]
         /\ todo' \in [Runs -> SUBSET Packages]
         /\ UNCHANGED <<image, source, container, stored, at, mine, crossed>>
<1>1. /\ tree' = [tree EXCEPT ![p] = [image |-> container, source |-> source]]
      /\ todo' = [todo EXCEPT ![r] = todo[r] \ {p}]
      /\ container # None
      /\ UNCHANGED <<image, source, container, stored, at, mine, crossed>>
  BY DEF BuildPackage, host
<1>2. container \in Images /\ source \in Sources
  BY <1>1 DEF TypeOK
<1>3. /\ [image |-> container, source |-> source] \in Builds
      /\ [image |-> container, source |-> source] # NoBuild
  BY <1>2, BuildsAreNat DEF Builds, NoBuild
<1>4. tree' \in [Packages -> Builds] /\ todo' \in [Runs -> SUBSET Packages]
  BY <1>1, <1>3 DEF TypeOK
<1> QED BY <1>1, <1>2, <1>3, <1>4 DEF TypeOK

\* The invariant holds at the start.
LEMMA BuildInvInit == Init => BuildInv /\ InTime
<1> SUFFICES ASSUME Init PROVE BuildInv /\ InTime
  OBVIOUS
<1>1. TypeOK
  <2>1. crossed \in BOOLEAN
    BY Zenon DEF Init
  <2>2. /\ image \in Images /\ source \in Sources /\ container \in {None} \cup Images
        /\ stored \in Builds
    BY BuildsAreNat DEF Init, Images, Sources
  <2>3. /\ tree \in [Packages -> Builds] /\ mine \in [Runs -> Builds]
        /\ todo \in [Runs -> SUBSET Packages]
        /\ at \in [Runs -> Places]
    BY BuildsAreNat DEF Init, Places
  <2> QED BY <2>1, <2>2, <2>3 DEF TypeOK
<1>2. DoneIsBuilt /\ SignatureMeansComplete
  BY DEF Init, DoneIsBuilt, SignatureMeansComplete
<1>3. SourcesInTime
  BY BuildsAreNat DEF Init, SourcesInTime
<1>4. ImagesInTime
  BY BuildsAreNat DEF Init, ImagesInTime, None
<1> QED BY <1>1, <1>2, <1>3, <1>4 DEF BuildInv, InTime

\* Every step of every run, and every change of the host, keeps it.
LEMMA BuildInvKept ==
  ASSUME BuildInv, [Next]_vars
  PROVE  BuildInv'
<1> USE DEF BuildInv, DoneIsBuilt, SignatureMeansComplete
<1>1. ASSUME NEW r \in Runs, NEW place \in {"run", "idle", "cleanup"}, Remove(r, place),
             UNCHANGED <<host, volumes, mine, crossed>>
      PROVE  BuildInv'
  <2>1. /\ container' = None /\ at' \in [Runs -> Places]
        /\ todo' \in [Runs -> SUBSET Packages]
        /\ \A x \in Runs : at'[x] \in {at[x], "run", "idle", "cleanup"}
        /\ \A x \in Runs : at'[x] # "building" /\ todo'[x] = {}
    BY <1>1, RemoveMoves DEF Places
  <2>2. TypeOK'
    BY <1>1, <2>1 DEF TypeOK, volumes, host
  <2>3. \A x \in Runs : at'[x] = "store" => at[x] = "store"
    BY <2>1
  <2> QED BY <1>1, <2>1, <2>2, <2>3 DEF volumes
<1>2. ASSUME NEW r \in Runs, DockerRun(r) \/ DockerRunFails(r)
      PROVE  BuildInv'
  <2>1. PICK place \in {"idle", "inspect"} :
          /\ Goto(r, place) /\ container' \in {container, None, image}
          /\ UNCHANGED <<host, volumes, locals, crossed>>
    BY <1>2 DEF DockerRun, DockerRunFails
  <2> QED BY <2>1 DEF Goto, TypeOK, Places, volumes, locals, host
<1>3. ASSUME NEW r \in Runs, InspectImage(r) \/ HashSources(r)
      PROVE  BuildInv'
  <2>1. mine' \in [Runs -> Builds]
    BY <1>3, Inspected, Hashed
  <2>2. crossed' \in BOOLEAN
    BY <1>3, Zenon DEF InspectImage, HashSources, TypeOK
  <2>3. PICK place \in {"hash", "decide"} :
          Goto(r, place) /\ UNCHANGED <<host, container, volumes, todo>>
    BY <1>3 DEF InspectImage, HashSources
  <2> QED BY <2>1, <2>2, <2>3 DEF Goto, TypeOK, Places, volumes, host
<1>4. ASSUME NEW r \in Runs, DecideBuild(r)
      PROVE  BuildInv'
  <2>1. TypeOK'
    BY <1>4 DEF DecideBuild, Goto, TypeOK, Places, volumes, host
  <2>2. /\ at[r] = "decide" /\ at' = [at EXCEPT ![r] = "building"]
        /\ todo' = [todo EXCEPT ![r] = Packages]
        /\ UNCHANGED <<stored, tree, mine>>
    BY <1>4 DEF DecideBuild, Goto, volumes
  <2> QED BY <2>1, <2>2 DEF TypeOK
<1>5. ASSUME NEW r \in Runs, NEW place \in {"ready", "launched", "cleanup"},
             Goto(r, place), UNCHANGED <<host, container, volumes, locals, crossed>>
      PROVE  BuildInv'
  BY <1>5 DEF Goto, TypeOK, Places, volumes, locals, host
<1>6. ASSUME NEW r \in Runs, NEW p \in Packages, BuildPackage(r, p)
      PROVE  BuildInv'
  <2>0. TypeOK
    OBVIOUS
  <2>1. TypeOK'
    BY <1>6, <2>0, PackageBuilt DEF TypeOK
  <2>2. /\ UNCHANGED <<stored, at, mine>> /\ tree'[p] # NoBuild
        /\ \A q \in Packages : q # p => tree'[q] = tree[q]
        /\ \A x \in Runs : todo'[x] = IF x = r THEN todo[r] \ {p} ELSE todo[x]
    <3> HIDE DEF BuildInv, DoneIsBuilt, SignatureMeansComplete
    <3> QED BY <1>6, <2>0, PackageBuilt
  <2>3. \A q \in Packages : tree[q] # NoBuild \/ q = p => tree'[q] # NoBuild
    BY <2>2
  <2> QED BY <2>1, <2>2, <2>3
<1>7. ASSUME NEW r \in Runs, BuildEnds(r)
      PROVE  BuildInv'
  <2>1. TypeOK'
    BY <1>7 DEF BuildEnds, Goto, TypeOK, Places, volumes, locals, host
  <2>2. /\ at[r] = "building" /\ at' = [at EXCEPT ![r] = "store"] /\ todo[r] = {}
        /\ UNCHANGED <<stored, tree, mine, todo>>
    BY <1>7 DEF BuildEnds, Built, Goto, volumes, locals
  <2> QED BY <2>1, <2>2 DEF TypeOK
<1>8. ASSUME NEW r \in Runs, Store(r)
      PROVE  BuildInv'
  <2>1. TypeOK'
    BY <1>8 DEF Store, Signature, Goto, TypeOK, Places, locals, host
  <2>2. /\ at[r] = "store" /\ at' = [at EXCEPT ![r] = "ready"]
        /\ UNCHANGED <<tree, mine, todo>>
    BY <1>8 DEF Store, Goto, locals
  <2> QED BY <2>1, <2>2 DEF TypeOK
<1>9. ASSUME NEW r \in Runs, StoreCut(r)
      PROVE  BuildInv'
  <2>1. TypeOK'
    BY <1>9, BuildsAreNat DEF StoreCut, Goto, TypeOK, Places, locals, host
  <2>2. /\ at' = [at EXCEPT ![r] = "cleanup"] /\ stored' = NoBuild
        /\ UNCHANGED <<tree, mine, todo>>
    BY <1>9 DEF StoreCut, Goto, locals
  <2> QED BY <2>1, <2>2 DEF TypeOK
<1>10. CASE Edit \/ MoveTag
  BY <1>10 DEF Edit, MoveTag, TypeOK, volumes, locals
<1>11. CASE UNCHANGED vars
  BY <1>11 DEF vars, volumes, locals, host, TypeOK
<1>12. ASSUME NEW r \in Runs, RunStep(r)
       PROVE  BuildInv'
  <2>1. CASE Begin(r) \/ Cleanup(r)
    BY <1>1, <2>1 DEF Begin, Cleanup
  <2>2. CASE DecideSkip(r) \/ Launch(r) \/ Fails(r)
    BY <1>5, <2>2 DEF DecideSkip, Launch, Fails
  <2> QED BY <1>2, <1>3, <1>4, <1>6, <1>7, <1>8, <1>9, <1>12, <2>1, <2>2 DEF RunStep
<1> QED BY <1>10, <1>11, <1>12 DEF Next

\* If sources do not come back, what a step builds or signs is of the present ones.
LEMMA SourcesKept ==
  ASSUME MayReturn = FALSE, BuildInv, SourcesInTime, [Next]_vars
  PROVE  SourcesInTime'
<1> USE DEF SourcesInTime
<1>0. /\ TypeOK /\ source \in Nat /\ stored.source \in Nat
      /\ \A p \in Packages : tree[p].source \in Nat
      /\ \A r \in Runs : mine[r].source \in Nat
  BY BuildsAreNat DEF BuildInv, TypeOK
<1>1. ASSUME NEW r \in Runs, NEW place \in {"run", "idle", "cleanup"}, Remove(r, place),
             UNCHANGED <<host, volumes, mine>>
      PROVE  SourcesInTime'
  <2>1. /\ \A x \in Runs : at'[x] \in {at[x], "run", "idle", "cleanup"}
        /\ \A x \in Runs : at'[x] # "building" /\ todo'[x] = {}
    BY <1>0, <1>1, RemoveMoves DEF Places
  <2>2. \A x \in Runs : at'[x] = "store" => at[x] = "store" /\ todo[x] = {}
    BY <2>1 DEF BuildInv, DoneIsBuilt
  <2> QED BY <1>1, <2>1, <2>2 DEF volumes, host
<1>2. ASSUME NEW r \in Runs, NEW place \in {"inspect", "hash", "decide", "ready",
                                            "launched", "cleanup", "idle"},
             Goto(r, place), UNCHANGED <<source, volumes, todo>>,
             \A x \in Runs : mine'[x].source \in {mine[x].source, source},
             \A x \in Runs : x # r => mine'[x] = mine[x]
      PROVE  SourcesInTime'
  <2>1. /\ at'[r] = place
        /\ \A x \in Runs : x # r => at'[x] = at[x]
    BY <1>0, <1>2 DEF Goto, TypeOK
  <2>2. \A x \in Runs : mine'[x].source <= source
    BY <1>0, <1>2
  <2>3. ASSUME NEW x \in Runs, at'[x] \in {"building", "store"}
        PROVE  x # r /\ at[x] = at'[x] /\ mine'[x] = mine[x]
    BY <1>2, <2>1, <2>3
  <2> QED BY <1>2, <2>2, <2>3 DEF volumes
<1>3. ASSUME NEW r \in Runs, DecideBuild(r)
      PROVE  SourcesInTime'
  <2>1. /\ at' = [at EXCEPT ![r] = "building"] /\ todo' = [todo EXCEPT ![r] = Packages]
        /\ UNCHANGED <<source, stored, tree, mine>>
    BY <1>3 DEF DecideBuild, Goto, volumes, host
  <2> QED BY <1>0, <2>1 DEF TypeOK
<1>4. ASSUME NEW r \in Runs, NEW p \in Packages, BuildPackage(r, p)
      PROVE  SourcesInTime'
  <2>1. /\ UNCHANGED <<source, stored, at, mine>>
        /\ \A q \in Packages : tree'[q].source = IF q = p THEN source ELSE tree[q].source
        /\ \A x \in Runs : todo'[x] = IF x = r THEN todo[r] \ {p} ELSE todo[x]
    BY <1>0, <1>4, PackageBuilt
  <2>2. stored.source <= source
    BY <1>0
  <2>3. ASSUME NEW x \in Runs, at'[x] \in {"building", "store"},
               NEW q \in Packages \ todo'[x]
        PROVE  mine'[x].source <= tree'[q].source
    BY <2>1, <2>3
  <2> QED BY <1>0, <2>1, <2>2, <2>3
<1>5. ASSUME NEW r \in Runs, BuildEnds(r)
      PROVE  SourcesInTime'
  BY <1>0, <1>5 DEF BuildEnds, Goto, TypeOK, volumes, locals, host
<1>6. ASSUME NEW r \in Runs, Store(r)
      PROVE  SourcesInTime'
  <2>1. /\ at[r] = "store" /\ at' = [at EXCEPT ![r] = "ready"] /\ stored' = mine[r]
        /\ UNCHANGED <<source, tree, mine, todo>>
    BY <1>6 DEF Store, Signature, Goto, locals, host
  <2>2. \A p \in Packages : mine[r].source <= tree[p].source
    BY <2>1 DEF BuildInv, DoneIsBuilt
  <2> QED BY <1>0, <2>1, <2>2 DEF TypeOK
<1>7. ASSUME NEW r \in Runs, StoreCut(r)
      PROVE  SourcesInTime'
  <2>1. /\ at' = [at EXCEPT ![r] = "cleanup"] /\ stored'.source = 0
        /\ UNCHANGED <<source, tree, mine, todo>>
    BY <1>7, BuildsAreNat DEF StoreCut, Goto, locals, host
  <2>2. \A x \in Runs : at'[x] \in {"building", "store"} => at[x] = at'[x]
    BY <1>0, <2>1 DEF TypeOK
  <2> QED BY <1>0, <2>1, <2>2
<1>8. CASE Edit
  <2>1. source' \in Nat /\ source < source' /\ UNCHANGED <<volumes, at, locals>>
    BY <1>0, <1>8, BuildsAreNat DEF Edit, Changes
  <2> QED BY <1>0, <2>1 DEF volumes, locals
<1>9. CASE UNCHANGED <<source, volumes, at, locals>>
  BY <1>9 DEF volumes, locals
<1>10. ASSUME NEW r \in Runs, RunStep(r)
       PROVE  SourcesInTime'
  <2>1. CASE Begin(r) \/ Cleanup(r)
    BY <1>1, <2>1 DEF Begin, Cleanup
  <2>2. CASE DecideSkip(r) \/ Launch(r) \/ Fails(r) \/ DockerRun(r) \/ DockerRunFails(r)
    BY <1>2, <2>2 DEF DecideSkip, Launch, Fails, DockerRun, DockerRunFails, locals, host
  <2>3. CASE InspectImage(r)
    BY <1>0, <1>2, <2>3, Inspected DEF InspectImage, host
  <2>4. CASE HashSources(r)
    <3>1. \A x \in Runs : mine'[x].source \in {mine[x].source, source}
      BY <1>0, <2>4, Hashed
    <3> QED BY <1>0, <1>2, <2>4, <3>1, Hashed DEF HashSources, host
  <2> QED BY <1>3, <1>4, <1>5, <1>6, <1>7, <1>10, <2>1, <2>2, <2>3, <2>4 DEF RunStep
<1>11. CASE MoveTag \/ UNCHANGED vars
  BY <1>9, <1>11 DEF MoveTag, vars, host
<1> QED BY <1>8, <1>10, <1>11 DEF Next

\* What a step does to the images: a container is created from the newest one, and a
\* tag that moves is inspected behind a container only if that is recorded.
LEMMA ImagesKept ==
  ASSUME MayReturn = FALSE, BuildInv, ImagesInTime, [Next]_vars
  PROVE  ImagesInTime'
<1> USE DEF ImagesInTime
<1>0. /\ TypeOK /\ image \in Nat /\ container \in Nat /\ stored.image \in Nat
      /\ \A p \in Packages : tree[p].image \in Nat
      /\ \A r \in Runs : mine[r].image \in Nat
      /\ None \in Nat /\ None <= image /\ crossed \in BOOLEAN
  BY BuildsAreNat DEF BuildInv, TypeOK, None
<1>1. ASSUME NEW r \in Runs, NEW place \in {"run", "idle", "cleanup"}, Remove(r, place),
             UNCHANGED <<host, volumes, mine, crossed>>
      PROVE  ImagesInTime'
  <2>1. /\ container' = None
        /\ \A x \in Runs : at'[x] \in {at[x], "run", "idle", "cleanup"}
        /\ \A x \in Runs : at'[x] # "building" /\ todo'[x] = {}
    BY <1>0, <1>1, RemoveMoves DEF Places
  <2>2. \A x \in Runs : at'[x] = "store" => at[x] = "store" /\ todo[x] = {}
    BY <2>1 DEF BuildInv, DoneIsBuilt
  <2>3. UNCHANGED <<image, stored, tree, mine, crossed>>
    BY <1>1 DEF volumes, host
  <2> QED BY <1>0, <2>1, <2>2, <2>3
<1>2. ASSUME NEW r \in Runs, NEW place \in {"inspect", "hash", "decide", "ready",
                                            "launched", "cleanup", "idle"},
             Goto(r, place), UNCHANGED <<image, volumes, todo, crossed>>,
             container' \in {container, image},
             \A x \in Runs : mine'[x].image = mine[x].image
      PROVE  ImagesInTime'
  <2>1. \A x \in Runs : at'[x] = IF x = r THEN place ELSE at[x]
    BY <1>0, <1>2 DEF Goto, TypeOK
  <2>2. ASSUME NEW x \in Runs, at'[x] \in {"building", "store"}
        PROVE  at[x] = at'[x]
    BY <1>2, <2>1, <2>2
  <2> QED BY <1>0, <1>2, <2>2 DEF volumes
<1>3. ASSUME NEW r \in Runs, InspectImage(r)
      PROVE  ImagesInTime'
  <2>1. /\ UNCHANGED <<image, container, stored, tree, todo>>
        /\ crossed' = (crossed \/ container \notin {None, image})
        /\ \A x \in Runs : at'[x] = IF x = r THEN "hash" ELSE at[x]
    BY <1>0, <1>3 DEF InspectImage, Goto, TypeOK, volumes, host
  <2>2. \A x \in Runs : mine'[x].image = IF x = r THEN image ELSE mine[x].image
    BY <1>0, <1>3, Inspected
  <2>3. ASSUME ~crossed'
        PROVE  ~crossed /\ container \in {None, image}
    BY <1>0, <2>1, <2>3
  <2>4. ASSUME NEW x \in Runs, at'[x] \in {"building", "store"}
        PROVE  x # r /\ at[x] = at'[x]
    BY <2>1, <2>4
  <2> QED BY <1>0, <2>1, <2>2, <2>3, <2>4
<1>4. ASSUME NEW r \in Runs, DecideBuild(r)
      PROVE  ImagesInTime'
  <2>1. /\ at' = [at EXCEPT ![r] = "building"] /\ todo' = [todo EXCEPT ![r] = Packages]
        /\ UNCHANGED <<image, container, stored, tree, mine, crossed>>
    BY <1>4 DEF DecideBuild, Goto, volumes, host
  <2> QED BY <1>0, <2>1 DEF TypeOK
<1>5. ASSUME NEW r \in Runs, NEW p \in Packages, BuildPackage(r, p)
      PROVE  ImagesInTime'
  <2>1. /\ UNCHANGED <<image, container, stored, at, mine, crossed>> /\ container # None
        /\ \A q \in Packages : tree'[q].image = IF q = p THEN container ELSE tree[q].image
        /\ \A x \in Runs : todo'[x] = IF x = r THEN todo[r] \ {p} ELSE todo[x]
    BY <1>0, <1>5, PackageBuilt, BuildsAreNat
  <2>2. ASSUME ~crossed, NEW x \in Runs, at[x] \in {"building", "store"},
               NEW q \in Packages \ todo'[x]
        PROVE  mine[x].image <= tree'[q].image
    BY <2>1, <2>2
  <2> QED BY <1>0, <2>1, <2>2
<1>6. ASSUME NEW r \in Runs, BuildEnds(r)
      PROVE  ImagesInTime'
  BY <1>0, <1>6 DEF BuildEnds, Goto, TypeOK, volumes, locals, host
<1>7. ASSUME NEW r \in Runs, Store(r)
      PROVE  ImagesInTime'
  <2>1. /\ at[r] = "store" /\ at' = [at EXCEPT ![r] = "ready"] /\ stored' = mine[r]
        /\ UNCHANGED <<image, container, tree, mine, todo, crossed>>
    BY <1>7 DEF Store, Signature, Goto, locals, host
  <2>2. ~crossed => \A p \in Packages : mine[r].image <= tree[p].image
    BY <2>1 DEF BuildInv, DoneIsBuilt
  <2> QED BY <1>0, <2>1, <2>2 DEF TypeOK
<1>8. ASSUME NEW r \in Runs, StoreCut(r)
      PROVE  ImagesInTime'
  <2>1. /\ at' = [at EXCEPT ![r] = "cleanup"] /\ stored'.image = 0
        /\ UNCHANGED <<image, container, tree, mine, todo, crossed>>
    BY <1>8, BuildsAreNat DEF StoreCut, Goto, locals, host
  <2>2. \A x \in Runs : at'[x] \in {"building", "store"} => at[x] = at'[x]
    BY <1>0, <2>1 DEF TypeOK
  <2> QED BY <1>0, <2>1, <2>2
<1>9. CASE MoveTag
  <2>1. /\ image' \in Nat /\ image < image'
        /\ UNCHANGED <<container, volumes, at, locals, crossed>>
    BY <1>0, <1>9, BuildsAreNat DEF MoveTag, Changes
  <2> QED BY <1>0, <2>1 DEF volumes, locals
<1>10. CASE UNCHANGED <<image, container, volumes, at, locals, crossed>>
  BY <1>10 DEF volumes, locals
<1>11. ASSUME NEW r \in Runs, RunStep(r)
       PROVE  ImagesInTime'
  <2>1. CASE Begin(r) \/ Cleanup(r)
    BY <1>1, <2>1 DEF Begin, Cleanup
  <2>2. CASE DecideSkip(r) \/ Launch(r) \/ Fails(r) \/ DockerRun(r) \/ DockerRunFails(r)
    BY <1>2, <2>2 DEF DecideSkip, Launch, Fails, DockerRun, DockerRunFails, locals, host
  <2>3. CASE HashSources(r)
    BY <1>0, <1>2, <2>3, Hashed DEF HashSources, host
  <2> QED BY <1>3, <1>4, <1>5, <1>6, <1>7, <1>8, <1>11, <2>1, <2>2, <2>3 DEF RunStep
<1>12. CASE Edit \/ UNCHANGED vars
  BY <1>10, <1>12 DEF Edit, vars, host
<1> QED BY <1>9, <1>11, <1>12 DEF Next

-----------------------------------------------------------------------------

\* The invariant holds in every state.
LEMMA BuildInvHolds == Spec => []BuildInv
<1>1. Init => BuildInv
  BY BuildInvInit
<1>2. BuildInv /\ [Next]_vars => BuildInv'
  BY BuildInvKept
<1> QED BY <1>1, <1>2, PTL DEF Spec

\* Every variable keeps its type.
THEOREM TypeCorrect == Spec => []TypeOK
<1>1. BuildInv => TypeOK
  BY DEF BuildInv
<1> QED BY <1>1, BuildInvHolds, PTL

\* A stored signature means that every package has been built.
THEOREM OnlyCompleteBuilds == Spec => []SignatureMeansComplete
<1>1. BuildInv => SignatureMeansComplete
  BY DEF BuildInv
<1> QED BY <1>1, BuildInvHolds, PTL

\* If neither images nor sources come back, a run that skips launches packages of no
\* older sources than it looked at, nor of an older image unless a tag was moved between
\* a docker run and the inspection after it.
THEOREM SkipIsSafe == ASSUME MayReturn = FALSE PROVE Spec => SkipsNothingOlder
<1>1. Init => InTime
  BY BuildInvInit
<1>2. BuildInv /\ InTime /\ [Next]_vars => InTime'
  BY SourcesKept, ImagesKept DEF InTime
<1>3. BuildInv /\ InTime =>
        \A r \in Runs : DecideSkip(r) =>
          \A p \in Packages : /\ tree[p].source >= mine[r].source
                              /\ crossed \/ tree[p].image >= mine[r].image
  <2> SUFFICES ASSUME BuildInv, InTime, NEW r \in Runs, DecideSkip(r), NEW p \in Packages
               PROVE  /\ tree[p].source >= mine[r].source
                      /\ crossed \/ tree[p].image >= mine[r].image
    OBVIOUS
  <2>1. /\ stored = mine[r] /\ stored.source \in Nat /\ stored.image \in Nat
        /\ tree[p].source \in Nat /\ tree[p].image \in Nat
    BY BuildsAreNat DEF DecideSkip, Matches, BuildInv, TypeOK
  <2>2. stored.source <= tree[p].source /\ (~crossed => stored.image <= tree[p].image)
    BY DEF InTime, SourcesInTime, ImagesInTime
  <2> QED BY <2>1, <2>2
<1> QED BY <1>1, <1>2, <1>3, BuildInvHolds, PTL DEF Spec, SkipsNothingOlder
=============================================================================
