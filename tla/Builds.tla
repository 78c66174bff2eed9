------------------------------- MODULE Builds --------------------------------
(* From a request to deploy a commit to an image of the registry.           *)
(*                                                                          *)
(* BuildServiceWorkflow (internal/k8sdeployments/workflows.go) looks for an *)
(* image of the commit, clones the branch into a directory of the worker,   *)
(* builds the directory and removes it.  Its activities are attempted       *)
(* twice, the worker may restart and lose its directories, the branch moves *)
(* on (module Pushes), and the next deployment of the service terminates    *)
(* the build wherever it is.                                                *)
EXTENDS Pushes, Sequences

CONSTANTS
  Builds,       \* builds that are ever started (a bound)
  RetainCount,  \* tags the registry's nightly job keeps
  MaxFaults,    \* lost reports, failed calls and restarts (a bound)
  Missing       \* no directory

ASSUME BuildBoundsOK == RetainCount \in Nat /\ MaxFaults \in Nat

VARIABLES
  build,      \* the workflow of each build
  disk,       \* the commit in each directory a build has cloned into
  image,      \* the commit whose source each tag was last built from
  collected,  \* tags the nightly job has removed
  stray,      \* image builds that outlive their workflow, <<tag, commit>>
  live,       \* the service has not been deleted
  faults,     \* how many have happened
  touched     \* builds a fault or a termination has hit (history)

buildVars == <<build, disk, image, collected, stray, live, faults, touched>>
vars      == <<pushVars, buildVars>>

(* The workflow makes two rounds, each activity two attempts: a build has   *)
(* at most four directories.                                                *)
Rounds == 1..2
Dirs   == 1..4

Steps == {"ref", "skip", "clone", "resolve", "exists", "image", "cleanup"}

Open(d) == build[d].step \in Steps

BuildType == [step : {"none", "success", "failed", "terminated"} \cup Steps,
              input : MaybeCommit, round : Rounds, tag : MaybeCommit,
              dir : Dirs \cup {0}, used : Dirs \cup {0}, tries : 0..1,
              after : {"again", "success", "failed"}, orphan : BOOLEAN]

NoBuild == [step |-> "none", input |-> NoCommit, round |-> 1, tag |-> NoCommit,
            dir |-> 0, used |-> 0, tries |-> 0, after |-> "failed", orphan |-> FALSE]

BuildInit ==
  /\ build = [d \in Builds |-> NoBuild]
  /\ disk = [d \in Builds |-> [k \in Dirs |-> Missing]]
  /\ image = [c \in Commits |-> NoCommit]
  /\ collected = {} /\ stray = {}
  /\ live = TRUE
  /\ faults = 0 /\ touched = {}

Init == PushInit /\ BuildInit

Stored(c) == image[c] # NoCommit /\ c \notin collected

Store(c, source) ==
  /\ image' = [image EXCEPT ![c] = source]
  /\ collected' = collected \ {c}

Fault(d) ==
  /\ faults < MaxFaults
  /\ faults' = faults + 1
  /\ touched' = touched \cup {d}

NoFault == UNCHANGED <<faults, touched>>

-----------------------------------------------------------------------------
(* The start and the end of a build.                                        *)

(* The next deployment of the service has closed the workflows above the    *)
(* builds that are open, which the server terminates in its own time.       *)
Orphaned(d, e) == [build[e] EXCEPT !.orphan = @ \/ (e # d /\ Open(e))]

(* By a deployment of an asked commit, or of whatever the branch holds; no  *)
(* two open builds have one id, "build-<service>-<commit>".                 *)
StartBuild(d, c) ==
  /\ build[d].step = "none"
  /\ c \in asked \cup {NoCommit}
  /\ \A e \in Builds : Open(e) => build[e].input # c
  /\ build' = [e \in Builds |->
       IF e = d THEN [NoBuild EXCEPT !.input = c,
                                     !.step = IF c = NoCommit THEN "clone" ELSE "ref"]
       ELSE Orphaned(d, e)]
  /\ UNCHANGED <<pushVars, disk, image, collected, stray, live, faults, touched>>

(* What the worker is doing for the build goes on by itself: a clone may    *)
(* still make its directory, an image may still be pushed.                  *)
Terminate(d) ==
  LET b == build[d] IN
  /\ Open(d) /\ b.orphan
  /\ build' = [build EXCEPT ![d].step = "terminated"]
  /\ touched' = touched \cup {d}
  /\ \/ UNCHANGED <<disk, stray>>
     \/ /\ b.step = "clone" /\ head # NoCommit /\ b.used \in {0, 1, 2, 3}
        /\ disk' = [disk EXCEPT ![d][b.used + 1] = head]
        /\ UNCHANGED stray
     \/ /\ b.step = "image" /\ disk[d][b.dir] # Missing
        /\ stray' = stray \cup {<<b.tag, disk[d][b.dir]>>}
        /\ UNCHANGED disk
  /\ UNCHANGED <<pushVars, image, collected, live, faults>>

(* Step s of build d begins, its activity not yet attempted.                *)
Go(d, s) == build' = [build EXCEPT ![d].step = s, ![d].tries = 0]

CleanUp(d, after) ==
  build' = [build EXCEPT ![d].step = "cleanup", ![d].tries = 0, ![d].after = after]

(* Round 2 after a missing source path, the end of the workflow otherwise.  *)
AfterMissing(d) == IF build[d].round = 1 THEN "again" ELSE "failed"

-----------------------------------------------------------------------------
(* trySkipBuild: ResolveImageRef and ImageExists, whose errors lead on to   *)
(* the full build.                                                          *)

ResolveImageRef(d) ==
  /\ build[d].step = "ref"
  /\ live
  /\ Go(d, "skip")
  /\ UNCHANGED <<pushVars, disk, image, collected, stray, live, faults, touched>>

SkipBuild(d) ==
  /\ build[d].step = "skip"
  /\ Stored(build[d].input)
  /\ build' = [build EXCEPT ![d].step = "success", ![d].tag = build[d].input]
  /\ NoFault
  /\ UNCHANGED <<pushVars, disk, image, collected, stray, live>>

(* Mutated form: a service that is gone is not thought of.                  *)
NoSkipOfLive(d) ==
  /\ \/ build[d].step = "skip" /\ ~Stored(build[d].input) /\ NoFault
     \/ build[d].step \in {"ref", "skip"} /\ Fault(d)
  /\ Go(d, "clone")
  /\ UNCHANGED <<pushVars, disk, image, collected, stray, live>>

NoSkip(d) ==
  /\ \/ build[d].step = "ref" /\ ~live /\ NoFault
     \/ build[d].step = "skip" /\ ~Stored(build[d].input) /\ NoFault
     \/ build[d].step \in {"ref", "skip"} /\ Fault(d)
  /\ Go(d, "clone")
  /\ UNCHANGED <<pushVars, disk, image, collected, stray, live>>

-----------------------------------------------------------------------------
(* The rounds.                                                              *)

(* The commit that was asked for, whatever the branch holds by now.         *)
Label(d) == IF build[d].input = NoCommit THEN head ELSE build[d].input

(* git clone --depth 1 --branch.  An attempt whose report is lost or late   *)
(* has made its directory all the same.                                     *)
CloneRepo(d) ==
  LET b == build[d] IN
  /\ b.step = "clone"
  /\ head # NoCommit
  /\ b.used < 4
  /\ disk' = [disk EXCEPT ![d][b.used + 1] = head]
  /\ \/ /\ build' = [build EXCEPT ![d].step = "resolve", ![d].tries = 0,
                                  ![d].used = b.used + 1, ![d].dir = b.used + 1,
                                  ![d].tag = Label(d)]
        /\ NoFault
     \/ /\ b.tries = 0 /\ Fault(d)
        /\ build' = [build EXCEPT ![d].tries = 1, ![d].used = b.used + 1]
  /\ UNCHANGED <<pushVars, image, collected, stray, live>>

(* The workflow returns at once.                                            *)
CloneFails(d) ==
  /\ build[d].step = "clone"
  /\ \/ head = NoCommit /\ NoFault
     \/ Fault(d)
  /\ Go(d, "failed")
  /\ UNCHANGED <<pushVars, disk, image, collected, stray, live>>

SourceThere(d) == disk[d][build[d].dir] # Missing

(* Mutated form: the tag is that of the branch by now.                      *)
ResolveLatest(d) ==
  /\ build[d].step = "resolve"
  /\ SourceThere(d) /\ live
  /\ build' = [build EXCEPT ![d].step = "exists", ![d].tries = 0, ![d].tag = head]
  /\ UNCHANGED <<pushVars, disk, image, collected, stray, live, faults, touched>>

(* ResolveBuildContext: the directory, then the service.                    *)
ResolveBuildContext(d) ==
  /\ build[d].step = "resolve"
  /\ SourceThere(d) /\ live
  /\ Go(d, "exists")
  /\ UNCHANGED <<pushVars, disk, image, collected, stray, live, faults, touched>>

(* Mutated form: only a missing directory makes for a second round, and the *)
(* workflow returns without a cleanup when there is none.                   *)
ResolveFailsUncleaned(d) ==
  /\ build[d].step = "resolve"
  /\ Go(d, IF SourceThere(d) THEN "failed" ELSE "clone")
  /\ NoFault
  /\ UNCHANGED <<pushVars, disk, image, collected, stray, live>>

(* A root directory that is not in the source counts as a missing path; any *)
(* other error of the project or the service ends the build.                *)
ResolveFails(d) ==
  /\ build[d].step = "resolve"
  /\ \/ CleanUp(d, AfterMissing(d)) /\ NoFault
     \/ SourceThere(d) /\ CleanUp(d, "failed") /\ NoFault
     \/ CleanUp(d, "failed") /\ Fault(d)
  /\ UNCHANGED <<pushVars, disk, image, collected, stray, live>>

ImageExists(d) ==
  /\ build[d].step = "exists"
  /\ \/ Stored(build[d].tag) /\ CleanUp(d, "success") /\ NoFault
     \/ ~Stored(build[d].tag) /\ Go(d, "image") /\ NoFault
     \/ Fault(d) /\ Go(d, "image")
  /\ UNCHANGED <<pushVars, disk, image, collected, stray, live>>

(* RailpackBuild, RailpackStaticBuild, DockerfileBuild, StaticBuild: the    *)
(* image is in the registry also when the report is lost.                   *)
BuildImage(d) ==
  LET b == build[d] IN
  /\ b.step = "image"
  /\ SourceThere(d)
  /\ Store(b.tag, disk[d][b.dir])
  /\ \/ CleanUp(d, "success") /\ NoFault
     \/ /\ b.tries = 0 /\ Fault(d)
        /\ build' = [build EXCEPT ![d].tries = 1]
  /\ UNCHANGED <<pushVars, disk, stray, live>>

(* Mutated form: a build that fails for good is taken for done.             *)
BuildFailsQuietly(d) ==
  /\ build[d].step = "image"
  /\ NoFault
  /\ CleanUp(d, IF SourceThere(d) THEN "success" ELSE AfterMissing(d))
  /\ UNCHANGED <<pushVars, disk, image, collected, stray, live>>

(* The source does not build, its pack is not supported, or it is missing.  *)
BuildFails(d) ==
  /\ build[d].step = "image"
  /\ NoFault
  /\ CleanUp(d, IF SourceThere(d) THEN "failed" ELSE AfterMissing(d))
  /\ UNCHANGED <<pushVars, disk, image, collected, stray, live>>

(* Mutated form: a round that is to be made again is not counted.           *)
AfterCleanupUncounted(d) ==
  LET b == build[d] IN
  build' = [build EXCEPT
    ![d] = IF b.after = "again" THEN [b EXCEPT !.step = "clone", !.tries = 0]
           ELSE [b EXCEPT !.step = b.after]]

(* Mutated form: the second round is forgotten.                             *)
AfterCleanupOnce(d) == build' = [build EXCEPT ![d].step = build[d].after]

AfterCleanup(d) ==
  LET b == build[d] IN
  build' = [build EXCEPT
    ![d] = IF b.after = "again" THEN [b EXCEPT !.step = "clone", !.tries = 0, !.round = 2]
           ELSE [b EXCEPT !.step = b.after]]

(* The error of a cleanup is only logged.                                   *)
CleanupSource(d) ==
  /\ build[d].step = "cleanup"
  /\ AfterCleanup(d)
  /\ \/ /\ disk' = [disk EXCEPT ![d][build[d].dir] = Missing]
        /\ NoFault
     \/ /\ Fault(d)
        /\ UNCHANGED disk
  /\ UNCHANGED <<pushVars, image, collected, stray, live>>

-----------------------------------------------------------------------------
(* What happens around builds.                                              *)

StrayLands(s) ==
  /\ s \in stray
  /\ Store(s[1], s[2])
  /\ stray' = stray \ {s}
  /\ UNCHANGED <<pushVars, build, disk, live, faults, touched>>

StrayEnds(s) ==
  /\ s \in stray
  /\ stray' = stray \ {s}
  /\ UNCHANGED <<pushVars, build, disk, image, collected, live, faults, touched>>

(* The worker restarts, or is replaced by another: its /tmp is gone.        *)
RestartWorker ==
  /\ faults < MaxFaults
  /\ faults' = faults + 1
  /\ disk' = [d \in Builds |-> [k \in Dirs |-> Missing]]
  /\ stray' = {}
  /\ UNCHANGED <<pushVars, build, image, collected, live, touched>>

(* The nightly job; which tags are the newest is not modelled.              *)
CollectImage(c) ==
  /\ Stored(c)
  /\ Cardinality({b \in Commits : Stored(b)}) > RetainCount
  /\ collected' = collected \cup {c}
  /\ UNCHANGED <<pushVars, build, disk, image, stray, live, faults, touched>>

DeleteService ==
  /\ live
  /\ live' = FALSE
  /\ build' = [e \in Builds |-> [build[e] EXCEPT !.orphan = @ \/ Open(e)]]
  /\ UNCHANGED <<pushVars, disk, image, collected, stray, faults, touched>>

BuildStep(d) ==
  \/ ResolveImageRef(d) \/ SkipBuild(d) \/ NoSkip(d)
  \/ CloneRepo(d) \/ CloneFails(d)
  \/ ResolveBuildContext(d) \/ ResolveFails(d)
  \/ ImageExists(d) \/ BuildImage(d) \/ BuildFails(d)
  \/ CleanupSource(d)

BuildNext ==
  \/ \E d \in Builds :
       (\E c \in MaybeCommit : live /\ StartBuild(d, c)) \/ BuildStep(d) \/ Terminate(d)
  \/ \E s \in stray : StrayLands(s) \/ StrayEnds(s)
  \/ RestartWorker
  \/ \E c \in Commits : CollectImage(c)
  \/ DeleteService

Next ==
  \/ BuildNext
  \/ PushNext /\ UNCHANGED buildVars

Spec == Init /\ [][Next]_vars

-----------------------------------------------------------------------------
(* Properties.                                                              *)

(* Every variable has its type.                                             *)
TypeOK ==
  /\ PushTypeOK
  /\ build \in [Builds -> BuildType]
  /\ disk \in [Builds -> [Dirs -> Commits \cup {Missing}]]
  /\ image \in [Commits -> MaybeCommit]
  /\ collected \subseteq Commits
  /\ stray \subseteq Commits \X Commits
  /\ live \in BOOLEAN
  /\ faults \in 0..MaxFaults
  /\ touched \subseteq Builds

(* An image tagged with a commit was built from what the branch held when   *)
(* that commit was pushed or later, never from before: CloneRepo takes the  *)
(* branch as it is and labels it with the commit that was asked for, rounds *)
(* later and while other builds of the service are being terminated.        *)
ImageFromBranch == \A c \in Commits : Stored(c) => image[c] \in since[c]

(* A build that has closed leaves no directory on the worker ("CleanupSource*)
(* removes a cloned workspace after build workflow completion"), whatever   *)
(* failed and however often it cloned, unless a report was lost, a cleanup  *)
(* failed or it was terminated.                                             *)
WorkspaceRemoved ==
  \A d \in Builds : ~Open(d) /\ d \notin touched =>
    \A k \in Dirs : disk[d][k] = Missing

(* What a build answers is in terms of ImageCache: the tag when it succeeds.*)
Published == {c \in Commits : image[c] # NoCommit}

Answer ==
  [d \in Builds |-> CASE build[d].step = "none"    -> "none"
                      [] build[d].step = "success" -> build[d].tag
                      [] Open(d)                   -> "open"
                      [] OTHER                     -> "failed"]

Cache == INSTANCE ImageCache
           WITH Tags <- Commits, published <- Published, answer <- Answer

(* A deployment is only given images that were built, and a build answers   *)
(* once, through rounds, lost reports, skipped builds and terminations.     *)
ImplementsCache == Cache!CacheSpec

(* Every build ends, also when each round finds its directory missing: while*)
(* it is open a step of it can be taken, and each step brings it nearer to  *)
(* its end.  The Temporal server takes those steps.                         *)
StepsLeft(b) ==
  LET place == [cleanup |-> 1, image |-> 2, exists |-> 3, resolve |-> 4,
                clone |-> 5, skip |-> 6, ref |-> 7] IN
  IF b.step \in Steps THEN 14 * (2 - b.round) + 2 * place[b.step] - b.tries ELSE 0

OpenBuildsGoOn ==
  \A d \in Builds : Open(d) => ENABLED BuildStep(d)

OpenBuildsDescend ==
  [][\A d \in Builds : Open(d) =>
       \/ StepsLeft(build'[d]) < StepsLeft(build[d])
       \/ build'[d] = [build[d] EXCEPT !.orphan = build'[d].orphan]]_vars

=============================================================================
