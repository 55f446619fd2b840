----------------------------- MODULE HuskyRunner -----------------------------
(***************************************************************************)
(* run_husky.sh: start a container, build the catkin tree if the signature *)
(* of the last complete build is not the present one, launch the robot.    *)
(*                                                                         *)
(* The container is found by its name, the tree and the signature live in  *)
(* named volumes: two runs of the script share all three.  A container     *)
(* keeps the image it was created from; the sources are mounted from the   *)
(* host.  A signature is the image and the sources it was computed from,   *)
(* and so is what a package was built from; the build options are fixed.   *)
(***************************************************************************)
EXTENDS Naturals

CONSTANTS
    Runs,       \* shells that run the script, each again and again
    Packages,   \* the catkin packages
    MaxImage,   \* bound: images
    MaxSource,  \* bound: states of the sources
    MayReturn   \* may an old image or old sources come back, mtimes alike?

ASSUME BoundsAssumption ==
    MaxImage \in Nat \ {0} /\ MaxSource \in Nat \ {0} /\ MayReturn \in BOOLEAN

Images == 1 .. MaxImage
Sources == 1 .. MaxSource
None == 0
Builds == [image : {None} \cup Images, source : {None} \cup Sources]
NoBuild == [image |-> None, source |-> None]

VARIABLES
    image,      \* what the tag IMAGE_NAME stands for
    source,     \* the sources on the host and their mtimes
    container,  \* the image of the container of that name, None without one
    stored,     \* the file BUILD_SIGNATURE_FILE, NoBuild if there is none
    tree,       \* what each package in the volumes was last built from
    at,         \* where each run of the script is
    mine,       \* its IMAGE_ID and SOURCE_METADATA_HASH
    todo,       \* the packages its build, in the container, still has to do
    crossed     \* history: has a run inspected a tag moved since docker run?

host == <<image, source>>
volumes == <<stored, tree>>
locals == <<mine, todo>>
vars == <<host, container, volumes, at, locals, crossed>>

Init ==
    /\ image = 1
    /\ source = 1
    /\ container = None
    /\ stored = NoBuild
    /\ tree = [p \in Packages |-> NoBuild]
    /\ at = [r \in Runs |-> "idle"]
    /\ mine = [r \in Runs |-> NoBuild]
    /\ todo = [r \in Runs |-> {}]
    /\ crossed = FALSE

Goto(r, place) == at' = [at EXCEPT ![r] = place]

\* docker rm -f by r: whatever runs in the container is killed, and set -e takes
\* those who wait for it to cleanup.
Remove(r, place) ==
    /\ container' = None
    /\ at' = [x \in Runs |->
                IF x = r THEN place
                ELSE IF at[x] \in {"building", "launched"} THEN "cleanup"
                ELSE at[x]]
    /\ todo' = [x \in Runs |-> {}]

-----------------------------------------------------------------------------
(* The script *)

Begin(r) ==
    /\ at[r] = "idle"
    /\ Remove(r, "run")
    /\ UNCHANGED <<host, volumes, mine, crossed>>

\* The container is created from what the tag stands for now.
DockerRun(r) ==
    /\ at[r] = "run"
    /\ container = None
    /\ container' = image
    /\ Goto(r, "inspect")
    /\ UNCHANGED <<host, volumes, locals, crossed>>

\* The name is taken, docker cannot start it, or Ctrl+C comes before
\* CONTAINER_STARTED=1: cleanup then leaves the container alone.
DockerRunFails(r) ==
    /\ at[r] = "run"
    /\ container' \in IF container = None THEN {None, image} ELSE {container}
    /\ Goto(r, "idle")
    /\ UNCHANGED <<host, volumes, locals, crossed>>

\* IMAGE_ID: what the tag stands for by now
InspectImage(r) ==
    /\ at[r] = "inspect"
    /\ mine' = [mine EXCEPT ![r].image = image]
    /\ crossed' = (crossed \/ container \notin {None, image})
    /\ Goto(r, "hash")
    /\ UNCHANGED <<host, container, volumes, todo>>

\* SOURCE_METADATA_HASH
HashSources(r) ==
    /\ at[r] = "hash"
    /\ mine' = [mine EXCEPT ![r].source = source]
    /\ Goto(r, "decide")
    /\ UNCHANGED <<host, container, volumes, todo, crossed>>

Matches(r) == stored = mine[r]

\* FORCE_REBUILD=1, no signature, or another one
DecideBuild(r) ==
    /\ at[r] = "decide"
    /\ container # None
    /\ todo' = [todo EXCEPT ![r] = Packages]
    /\ Goto(r, "building")
    /\ UNCHANGED <<host, container, volumes, mine, crossed>>

DecideSkip(r) ==
    /\ at[r] = "decide"
    /\ container # None
    /\ Matches(r)
    /\ Goto(r, "ready")
    /\ UNCHANGED <<host, container, volumes, locals, crossed>>

\* catkin_make_isolated: one package after another, with the image of the container
\* and the sources that are there then.  After Ctrl+C it goes on, without the script,
\* until the container is removed.
BuildPackage(r, p) ==
    /\ p \in todo[r]
    /\ container # None
    /\ tree' = [tree EXCEPT ![p] = [image |-> container, source |-> source]]
    /\ todo' = [todo EXCEPT ![r] = @ \ {p}]
    /\ UNCHANGED <<host, container, stored, at, mine, crossed>>

\* Fault: the signature is stored although packages failed.
BuiltAnyway(r) == TRUE

Built(r) == todo[r] = {}

BuildEnds(r) ==
    /\ at[r] = "building"
    /\ Built(r)
    /\ Goto(r, "store")
    /\ UNCHANGED <<host, container, volumes, locals, crossed>>

\* Fault: the signature is computed when it is stored.
SignatureNow(r) == [image |-> image, source |-> source]

Signature(r) == mine[r]

Store(r) ==
    /\ at[r] = "store"
    /\ container # None
    /\ stored' = Signature(r)
    /\ Goto(r, "ready")
    /\ UNCHANGED <<host, container, tree, locals, crossed>>

\* cat > is cut short: the file is empty already.
StoreCut(r) ==
    /\ at[r] = "store"
    /\ stored' = NoBuild
    /\ Goto(r, "cleanup")
    /\ UNCHANGED <<host, container, tree, locals, crossed>>

Launch(r) ==
    /\ at[r] = "ready"
    /\ container # None
    /\ Goto(r, "launched")
    /\ UNCHANGED <<host, container, volumes, locals, crossed>>

\* A command fails, in a container that is gone or not; or Ctrl+C.
Fails(r) ==
    /\ at[r] \in {"inspect", "hash", "decide", "building", "store", "ready", "launched"}
    /\ Goto(r, "cleanup")
    /\ UNCHANGED <<host, container, volumes, locals, crossed>>

\* trap: whatever container has the name is removed; after a signal twice, since
\* the exit of the first cleanup is trapped as well.
Cleanup(r) ==
    /\ at[r] = "cleanup"
    /\ \E place \in {"cleanup", "idle"} : Remove(r, place)
    /\ UNCHANGED <<host, volumes, mine, crossed>>

-----------------------------------------------------------------------------
(* Somebody edits the sources, pulls an image, or goes back to an old one. *)

Changes(old, new) == new # old /\ (~MayReturn => new > old)

Edit ==
    /\ \E new \in Sources : Changes(source, new) /\ source' = new
    /\ UNCHANGED <<image, container, volumes, at, locals, crossed>>

MoveTag ==
    /\ \E new \in Images : Changes(image, new) /\ image' = new
    /\ UNCHANGED <<source, container, volumes, at, locals, crossed>>

RunStep(r) ==
    \/ Begin(r) \/ DockerRun(r) \/ DockerRunFails(r)
    \/ InspectImage(r) \/ HashSources(r) \/ DecideBuild(r) \/ DecideSkip(r)
    \/ \E p \in Packages : BuildPackage(r, p)
    \/ BuildEnds(r) \/ Store(r) \/ StoreCut(r)
    \/ Launch(r) \/ Fails(r) \/ Cleanup(r)

Next ==
    \/ \E r \in Runs : RunStep(r)
    \/ Edit \/ MoveTag

Spec == Init /\ [][Next]_vars

-----------------------------------------------------------------------------
(* Properties *)

Places == {"idle", "run", "inspect", "hash", "decide", "building", "store",
           "ready", "launched", "cleanup"}

TypeOK ==
    /\ image \in Images
    /\ source \in Sources
    /\ container \in {None} \cup Images
    /\ stored \in Builds
    /\ tree \in [Packages -> Builds]
    /\ at \in [Runs -> Places]
    /\ mine \in [Runs -> Builds]
    /\ todo \in [Runs -> SUBSET Packages]
    /\ crossed \in BOOLEAN

\* A signature is only there when every package has been built, however many
\* builds were interrupted, and whichever run stored it (lines 219-246).
SignatureMeansComplete ==
    stored # NoBuild => \A p \in Packages : tree[p] # NoBuild

\* A run that skips the build launches nothing older than what it looked at (lines
\* 208-217), provided that neither images nor sources come back: an edit between the
\* signature and the build, or another run, only makes packages younger.  That holds
\* of the sources always, and of the image unless some run inspected a tag that was
\* moved after its container had been created (lines 127-162 and 172).
SkipsNothingOlder ==
    [][\A r \in Runs : DecideSkip(r) =>
          \A p \in Packages : /\ tree[p].source >= mine[r].source
                              /\ crossed \/ tree[p].image >= mine[r].image]_vars

\* "Persistent isolated build is current; skipping rebuild." (line 250)
SkippedMeansCurrent ==
    [][\A r \in Runs : DecideSkip(r) => \A p \in Packages : tree[p] = mine[r]]_vars
=============================================================================
