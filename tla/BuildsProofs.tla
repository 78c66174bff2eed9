---------------------------- MODULE BuildsProofs -----------------------------
(* Pushes and builds, for any commits, pushers, builds, retries and faults. *)
EXTENDS Builds, TLAPS

(* What has been head since a commit was pushed is what is head now, too.   *)
SinceOK ==
  head # NoCommit => \A c \in Commits : Pushed(c) \/ c = head => head \in since[c]

(* Nothing is asked for or delivered that was not pushed, and no snapshot   *)
(* says anything.                                                           *)
RequestsOK ==
  /\ \A c \in asked \cup deliveries : Pushed(c)
  /\ \A p \in Pushers : push[p].before = NoCommit

(* A push that is under way is one to the platform's own git server.        *)
PushersOK == \A p \in Pushers : push[p].pc # "idle" => provider = "internal"

(* GitHub's head is on its way to a deployment; nothing else ever is.       *)
OnItsWay ==
  /\ provider = "github" => head \in asked \cup dropped \cup deliveries \cup {NoCommit}
  /\ provider = "internal" => asked = {} /\ deliveries = {}

PushInv == PushTypeOK /\ SinceOK /\ RequestsOK /\ PushersOK

-----------------------------------------------------------------------------
(* Pushes.                                                                  *)

LEMMA PushInitInv == PushInit => PushInv /\ OnItsWay
<1>1. NoPush \in PushType
  BY DEF NoPush, PushType, MaybeCommit
<1> QED
  BY <1>1 DEF PushInit, PushInv, OnItsWay, PushTypeOK, SinceOK, RequestsOK, PushersOK,
              MaybeCommit, Pushed, NoPush

(* The types of a head that moves, what it belongs to, and what stays       *)
(* pushed.                                                                  *)
LEMMA HeadMoves ==
  ASSUME PushInv, NEW c \in MaybeCommit, MoveHead(c)
  PROVE  /\ head' \in MaybeCommit
         /\ since' \in [Commits -> SUBSET Commits]
         /\ SinceOK'
         /\ \A b \in Commits : Pushed(b) => Pushed(b)'
         /\ \A b \in Commits : since[b] \subseteq since'[b]
         /\ c \in Commits => Pushed(c)'
  BY NoCommitOK DEF PushInv, PushTypeOK, SinceOK, MoveHead, Pushed, MaybeCommit

(* A step that leaves the head alone.                                       *)
LEMMA HeadStays ==
  ASSUME PushInv, UNCHANGED <<head, since>>
  PROVE  SinceOK' /\ \A b \in Commits : Pushed(b)' <=> Pushed(b)
  BY DEF PushInv, SinceOK, Pushed

(* One push goes on.                                                        *)
LEMMA PushGoesOn ==
  ASSUME PushTypeOK, NEW p \in Pushers, NEW r \in PushType,
         push' = [push EXCEPT ![p] = r]
  PROVE  push' \in [Pushers -> PushType] /\ push'[p] = r
         /\ \A o \in Pushers \ {p} : push'[o] = push[o]
  BY DEF PushTypeOK

(* An action of a push that leaves the head alone.                          *)
LEMMA PushAlone ==
  ASSUME PushInv, NEW p \in Pushers, NEW r \in PushType,
         push' = [push EXCEPT ![p] = r],
         r.before = NoCommit, r.pc # "idle" => provider = "internal",
         asked' \subseteq Commits, \A c \in asked' : Pushed(c),
         dropped' \subseteq Commits,
         UNCHANGED <<provider, head, since, deliveries>>
  PROVE  PushInv'
<1>1. SinceOK' /\ \A b \in Commits : Pushed(b)' <=> Pushed(b)
  BY HeadStays
<1>2. /\ push' \in [Pushers -> PushType] /\ push'[p] = r
      /\ \A o \in Pushers \ {p} : push'[o] = push[o]
  BY PushGoesOn DEF PushInv
<1>3. PushTypeOK'
  BY <1>2 DEF PushInv, PushTypeOK
<1>4. RequestsOK'
  <2>1. \A c : Pushed(c) => Pushed(c)'
    BY DEF Pushed
  <2> QED BY <1>2, <2>1 DEF PushInv, RequestsOK
<1>5. PushersOK'
  BY <1>2 DEF PushInv, PushersOK
<1> QED BY <1>1, <1>3, <1>4, <1>5 DEF PushInv

LEMMA PushTypes ==
  ASSUME PushTypeOK, NEW p \in Pushers
  PROVE  /\ NoPush \in PushType /\ push[p] \in PushType
         /\ head \in MaybeCommit
         /\ push[p].commit \in MaybeCommit /\ push[p].before \in MaybeCommit
  BY DEF PushTypeOK, PushType, NoPush, MaybeCommit

LEMMA AdvertiseInv ==
  ASSUME PushInv, NEW p \in Pushers, NEW c \in MaybeCommit, Advertise(p, c)
  PROVE  PushInv'
<1> DEFINE r == [NoPush EXCEPT !.pc = "snapshot", !.commit = c, !.known = head]
<1>1. /\ r \in PushType /\ r.before = NoCommit /\ provider = "internal"
      /\ push' = [push EXCEPT ![p] = r]
  BY DEF Advertise, NoPush, PushType, PushInv, PushTypeOK, MaybeCommit
<1>2. asked' \subseteq Commits /\ (\A b \in asked' : Pushed(b)) /\ dropped' \subseteq Commits
      /\ UNCHANGED <<provider, head, since, deliveries>>
  BY DEF Advertise, PushInv, PushTypeOK, RequestsOK
<1> HIDE DEF r
<1> QED BY <1>1, <1>2, PushAlone

LEMMA SnapshotBeforeInv ==
  ASSUME PushInv, NEW p \in Pushers, SnapshotBefore(p)
  PROVE  PushInv'
<1> DEFINE r == [push[p] EXCEPT !.pc = "receive", !.before = SnapshotRefs]
<1>1. r \in PushType /\ r.before = NoCommit /\ provider = "internal"
  BY PushTypes DEF PushType, PushInv, PushersOK, SnapshotBefore, SnapshotRefs, MaybeCommit
<1>2. push' = [push EXCEPT ![p] = r]
  BY DEF SnapshotBefore, PushInv, PushTypeOK
<1>3. asked' \subseteq Commits /\ (\A b \in asked' : Pushed(b)) /\ dropped' \subseteq Commits
      /\ UNCHANGED <<provider, head, since, deliveries>>
  BY DEF SnapshotBefore, PushInv, PushTypeOK, RequestsOK
<1> HIDE DEF r
<1> QED BY <1>1, <1>2, <1>3, PushAlone

LEMMA ReceivePackInv ==
  ASSUME PushInv, NEW p \in Pushers, ReceivePack(p)
  PROVE  PushInv'
<1> DEFINE r == [push[p] EXCEPT !.pc = "trigger"]
<1>1. /\ r \in PushType /\ r.before = push[p].before /\ provider = "internal"
      /\ push' = [push EXCEPT ![p] = r]
  BY PushTypes DEF PushType, PushInv, PushersOK, ReceivePack, PushTypeOK
<1>2. CASE head # push[p].known
  <2>1. asked' \subseteq Commits /\ (\A b \in asked' : Pushed(b)) /\ dropped' \subseteq Commits
        /\ UNCHANGED <<provider, head, since, deliveries>>
    BY <1>2 DEF ReceivePack, PushInv, PushTypeOK, RequestsOK
  <2>2. r.before = NoCommit
    BY <1>1 DEF PushInv, RequestsOK
  <2> HIDE DEF r
  <2> QED BY <1>1, <2>1, <2>2, PushAlone
<1>3. CASE head = push[p].known
  <2>1. push[p].commit \in MaybeCommit /\ MoveHead(push[p].commit)
    BY <1>3, PushTypes DEF ReceivePack, PushInv
  <2>2. /\ head' \in MaybeCommit
        /\ since' \in [Commits -> SUBSET Commits] /\ SinceOK'
        /\ \A b \in Commits : Pushed(b) => Pushed(b)'
    BY <2>1, HeadMoves
  <2>3. /\ push' \in [Pushers -> PushType] /\ push'[p] = r
        /\ \A o \in Pushers \ {p} : push'[o] = push[o]
    BY <1>1, PushGoesOn DEF PushInv
  <2>4. UNCHANGED <<provider, deliveries, asked, dropped>>
    BY DEF ReceivePack
  <2>5. PushTypeOK'
    BY <2>2, <2>3, <2>4 DEF PushInv, PushTypeOK
  <2>6. RequestsOK'
    <3>1. \A b : Pushed(b) => Pushed(b)'
      BY <2>2 DEF Pushed
    <3>2. \A o \in Pushers : push'[o].before = push[o].before
      BY <1>1, <2>3
    <3> QED BY <2>4, <3>1, <3>2 DEF PushInv, RequestsOK
  <2>7. PushersOK'
    BY <1>1, <2>3, <2>4 DEF PushInv, PushersOK
  <2> QED BY <2>2, <2>5, <2>6, <2>7 DEF PushInv
<1> QED BY <1>2, <1>3

LEMMA EndOfPushInv ==
  ASSUME PushInv, NEW p \in Pushers, TriggerDeploys(p) \/ PushAborts(p)
  PROVE  PushInv'
<1>1. push' = [push EXCEPT ![p] = NoPush] /\ NoPush \in PushType
      /\ NoPush.before = NoCommit /\ NoPush.pc = "idle"
  BY PushTypes DEF TriggerDeploys, PushAborts, NoPush, PushInv
<1>2. DiffRefs(push[p].before, SnapshotRefs) = {}
  BY DEF DiffRefs, SnapshotRefs
<1>3. asked' \subseteq Commits /\ (\A b \in asked' : Pushed(b))
  BY <1>2 DEF TriggerDeploys, PushAborts, PushInv, PushTypeOK, RequestsOK
<1>4. dropped' \subseteq Commits /\ UNCHANGED <<provider, head, since, deliveries>>
  BY DEF TriggerDeploys, PushAborts, PushInv, PushTypeOK
<1> QED BY <1>1, <1>3, <1>4, PushAlone

LEMMA GitHubPushInv ==
  ASSUME PushInv, NEW c \in Commits, GitHubPush(c)
  PROVE  PushInv'
<1>1. c \in MaybeCommit /\ MoveHead(c)
  BY DEF GitHubPush, MaybeCommit
<1>2. /\ head' \in MaybeCommit
      /\ since' \in [Commits -> SUBSET Commits] /\ SinceOK'
      /\ \A b \in Commits : Pushed(b) => Pushed(b)'
      /\ Pushed(c)'
  BY <1>1, HeadMoves
<1>3. \A b : Pushed(b) => Pushed(b)'
  BY <1>2 DEF Pushed
<1>4. UNCHANGED <<provider, push, asked, dropped>> /\ deliveries' = deliveries \cup {c}
  BY DEF GitHubPush
<1>5. PushTypeOK'
  BY <1>2, <1>4 DEF PushInv, PushTypeOK
<1>6. RequestsOK'
  BY <1>2, <1>3, <1>4 DEF PushInv, RequestsOK
<1>7. PushersOK'
  BY <1>4 DEF PushInv, PushersOK
<1> QED BY <1>2, <1>5, <1>6, <1>7 DEF PushInv

LEMMA DeliveryInv ==
  ASSUME PushInv, NEW c \in Commits, HandlePushWebhook(c) \/ DeliveryFails(c)
  PROVE  PushInv'
<1>1. SinceOK' /\ \A b \in Commits : Pushed(b)' <=> Pushed(b)
  BY HeadStays DEF HandlePushWebhook, DeliveryFails
<1>2. PushTypeOK'
  BY DEF HandlePushWebhook, DeliveryFails, PushInv, PushTypeOK
<1>3. \A b : Pushed(b) => Pushed(b)'
  BY <1>1 DEF Pushed
<1>4. asked' \cup deliveries' \subseteq asked \cup deliveries /\ push' = push
  BY DEF HandlePushWebhook, DeliveryFails
<1>5. RequestsOK'
  BY <1>3, <1>4 DEF PushInv, RequestsOK
<1>6. PushersOK'
  BY <1>4 DEF HandlePushWebhook, DeliveryFails, PushInv, PushersOK
<1> QED BY <1>1, <1>2, <1>5, <1>6 DEF PushInv

LEMMA PushNextInv == PushInv /\ PushNext => PushInv'
<1> SUFFICES ASSUME PushInv, PushNext PROVE PushInv'
  OBVIOUS
<1>1. CASE \E p \in Pushers, c \in MaybeCommit : Advertise(p, c)
  BY <1>1, AdvertiseInv
<1>2. CASE \E p \in Pushers : PushStep(p)
  BY <1>2, SnapshotBeforeInv, ReceivePackInv, EndOfPushInv DEF PushStep
<1>3. CASE \E p \in Pushers : PushAborts(p)
  BY <1>3, EndOfPushInv
<1>4. CASE \E c \in Commits : GitHubPush(c) \/ HandlePushWebhook(c) \/ DeliveryFails(c)
  BY <1>4, GitHubPushInv, DeliveryInv
<1> QED BY <1>1, <1>2, <1>3, <1>4 DEF PushNext

LEMMA PushSame == PushInv /\ UNCHANGED pushVars => PushInv'
  BY DEF pushVars, PushInv, PushTypeOK, SinceOK, RequestsOK, PushersOK, Pushed

LEMMA NextOnItsWay == PushInv /\ OnItsWay /\ PushNext => OnItsWay'
<1> SUFFICES ASSUME PushInv, OnItsWay, PushNext PROVE OnItsWay'
  OBVIOUS
<1>1. CASE \E p \in Pushers, c \in MaybeCommit : Advertise(p, c)
  BY <1>1 DEF Advertise, OnItsWay
<1>2. CASE \E p \in Pushers : SnapshotBefore(p) \/ PushAborts(p)
  BY <1>2 DEF SnapshotBefore, PushAborts, OnItsWay
<1>3. CASE \E p \in Pushers : ReceivePack(p)
  <2>1. PICK p \in Pushers : ReceivePack(p)
    BY <1>3
  <2>2. provider = "internal"
    BY <2>1 DEF ReceivePack, PushInv, PushersOK
  <2> QED BY <2>1, <2>2 DEF ReceivePack, OnItsWay
<1>4. CASE \E p \in Pushers : TriggerDeploys(p)
  <2>1. PICK p \in Pushers : TriggerDeploys(p)
    BY <1>4
  <2>2. DiffRefs(push[p].before, SnapshotRefs) = {}
    BY DEF DiffRefs, SnapshotRefs
  <2> QED BY <2>1, <2>2 DEF TriggerDeploys, OnItsWay
<1>5. CASE \E c \in Commits : GitHubPush(c)
  BY <1>5 DEF GitHubPush, MoveHead, OnItsWay
<1>6. CASE \E c \in Commits : HandlePushWebhook(c) \/ DeliveryFails(c)
  BY <1>6 DEF HandlePushWebhook, DeliveryFails, OnItsWay
<1> QED BY <1>1, <1>2, <1>3, <1>4, <1>5, <1>6 DEF PushNext, PushStep

(* Pushes keep their types, whichever overlap, fail or arrive late.         *)
THEOREM PushTypesHold == PushSpec => []PushTypeOK
<1>1. PushInit => PushInv
  BY PushInitInv
<1>2. PushInv /\ [PushNext]_pushVars => PushInv'
  BY PushNextInv, PushSame
<1>3. PushInv => PushTypeOK
  BY DEF PushInv
<1> QED BY <1>1, <1>2, <1>3, PTL DEF PushSpec

(* At rest a head that was asked for is GitHub's, and GitHub's head was     *)
(* asked for or lost its request to a fault: whatever is pushed to the      *)
(* platform's own git server, by however many at a time, is never asked for.*)
THEOREM OnlyGitHubIsAsked == PushSpec => []OnlyGitHubAsks
<1> DEFINE I == PushInv /\ OnItsWay
<1>1. PushInit => I
  BY PushInitInv
<1>2. I /\ [PushNext]_pushVars => I'
  <2>1. OnItsWay /\ UNCHANGED pushVars => OnItsWay'
    BY DEF pushVars, OnItsWay
  <2> QED BY <2>1, PushNextInv, PushSame, NextOnItsWay
<1>3. I => OnlyGitHubAsks
  BY DEF PushInv, PushTypeOK, OnItsWay, OnlyGitHubAsks, AtRest
<1> QED BY <1>1, <1>2, <1>3, PTL DEF PushSpec

-----------------------------------------------------------------------------
(* Builds.                                                                  *)

Sourced == {"resolve", "exists", "image", "cleanup"}

(* What a build may rely on: its commit was pushed, its directory holds     *)
(* what was head since, an image it is to answer is there, and a build that *)
(* nothing has touched has at most the directory it works in.               *)
InputOK(d) ==
  /\ build[d].input # NoCommit => Pushed(build[d].input)
  /\ build[d].step \in {"ref", "skip"} => build[d].input # NoCommit

SourceOK(d) ==
  build[d].step \in Sourced =>
    /\ build[d].dir \in Dirs /\ Pushed(build[d].tag)
    /\ disk[d][build[d].dir] \in since[build[d].tag] \cup {Missing}

EndOK(d) ==
  build[d].step = "cleanup" => /\ build[d].after = "success" => image[build[d].tag] # NoCommit
                               /\ build[d].after = "again" => build[d].round = 1

LeftOK(d) ==
  d \notin touched =>
    \A k \in Dirs : disk[d][k] # Missing => build[d].step \in Sourced /\ k = build[d].dir

BuildOK(d) == InputOK(d) /\ SourceOK(d) /\ EndOK(d) /\ LeftOK(d)

ImagesOK ==
  /\ \A c \in Commits : image[c] # NoCommit => image[c] \in since[c]
  /\ \A s \in stray : s[2] \in since[s[1]]

BInv == PushInv /\ TypeOK /\ ImagesOK /\ \A d \in Builds : BuildOK(d)

(* What a build relies on beside itself only grows.                         *)
Grown ==
  /\ \A c \in Commits : since[c] \subseteq since'[c]
  /\ \A c \in Commits : image[c] # NoCommit => image'[c] # NoCommit

Same(e) ==
  /\ build'[e].step = build[e].step /\ build'[e].input = build[e].input
  /\ build'[e].round = build[e].round /\ build'[e].tag = build[e].tag
  /\ build'[e].dir = build[e].dir /\ build'[e].after = build[e].after

LEMMA PushedGrows ==
  ASSUME PushInv, \A c \in Commits : since[c] \subseteq since'[c], NEW c, Pushed(c)
  PROVE  Pushed(c)'
  BY DEF PushInv, PushTypeOK, Pushed

LEMMA Kept ==
  ASSUME BInv, Grown, NEW e \in Builds, BuildOK(e), Same(e),
         \/ disk'[e] = disk[e]
         \/ \A k \in Dirs : disk'[e][k] = Missing,
         e \in touched => e \in touched'
  PROVE  BuildOK(e)'
<1> DEFINE b == build[e]
<1>0. /\ build'[e].step = b.step /\ build'[e].tag = b.tag /\ build'[e].dir = b.dir
      /\ build'[e].after = b.after /\ build'[e].round = b.round /\ build'[e].input = b.input
  BY DEF Same
<1>1. InputOK(e)'
  BY <1>0, PushedGrows DEF BInv, Grown, BuildOK, InputOK
<1>2. SourceOK(e)'
  <2>1. ASSUME b.step \in Sourced
        PROVE  /\ b.dir \in Dirs /\ b.tag \in Commits /\ since'[b.tag] # {}
               /\ disk'[e][b.dir] \in since'[b.tag] \cup {Missing}
    <3>1. b.dir \in Dirs /\ Pushed(b.tag) /\ disk[e][b.dir] \in since[b.tag] \cup {Missing}
      BY <2>1 DEF BuildOK, SourceOK
    <3>2. b.tag \in Commits /\ since'[b.tag] # {}
      BY <3>1 DEF Pushed, Grown
    <3> QED BY <3>1, <3>2 DEF Grown
  <2> QED BY <1>0, <2>1 DEF SourceOK, Pushed
<1>3. EndOK(e)'
  <2>1. b.step = "cleanup" => b.tag \in Commits
    BY DEF BuildOK, SourceOK, Sourced, Pushed
  <2> QED BY <1>0, <2>1 DEF BuildOK, EndOK, Grown
<1>4. LeftOK(e)'
  BY <1>0 DEF BuildOK, LeftOK
<1> QED BY <1>1, <1>2, <1>3, <1>4 DEF BuildOK

(* A step of d alone.                                                       *)
OnlyBuild(d) ==
  /\ \A e \in Builds \ {d} : build'[e] = build[e] /\ disk'[e] = disk[e]
  /\ touched' \subseteq touched \cup {d} /\ touched \subseteq touched'

LEMMA OthersKept ==
  ASSUME BInv, Grown, NEW d \in Builds, OnlyBuild(d), BuildOK(d)'
  PROVE  \A e \in Builds : BuildOK(e)'
<1> SUFFICES ASSUME NEW e \in Builds PROVE BuildOK(e)'
  OBVIOUS
<1>1. CASE e = d
  BY <1>1
<1>2. CASE e # d
  <2>1. build'[e] = build[e] /\ disk'[e] = disk[e] /\ (e \in touched => e \in touched')
    BY <1>2 DEF OnlyBuild
  <2>2. Same(e) /\ BuildOK(e)
    BY <2>1 DEF Same, BInv
  <2> QED BY <2>1, <2>2, Kept
<1> QED BY <1>1, <1>2

(* The images and the strays do not change, and what was head only grows.   *)
LEMMA ImagesKept ==
  ASSUME BInv, \A c \in Commits : since[c] \subseteq since'[c],
         image' = image, stray' \subseteq stray
  PROVE  ImagesOK' /\ Grown
  BY DEF BInv, TypeOK, ImagesOK, Grown

LEMMA BuildTypes ==
  ASSUME TypeOK, NEW d \in Builds
  PROVE  /\ build[d] \in BuildType /\ build[d].input \in MaybeCommit
         /\ build[d].round \in Rounds /\ build[d].tag \in MaybeCommit
         /\ build[d].dir \in Dirs \cup {0} /\ build[d].used \in Dirs \cup {0}
         /\ build[d].tries \in 0..1 /\ build[d].after \in {"again", "success", "failed"}
         /\ disk[d] \in [Dirs -> Commits \cup {Missing}]
  BY DEF TypeOK, BuildType

LEMMA Counted ==
  ASSUME TypeOK, NEW d \in Builds, NoFault \/ Fault(d)
  PROVE  /\ faults' \in 0..MaxFaults /\ touched' \subseteq Builds
         /\ touched \subseteq touched' /\ touched' \subseteq touched \cup {d}
  BY BuildBoundsOK DEF TypeOK, NoFault, Fault

LEMMA SinceStays == UNCHANGED pushVars => \A c \in Commits : since[c] \subseteq since'[c]
  BY DEF pushVars

(* A step of d that touches no other build.                                 *)
LEMMA StepKeeps ==
  ASSUME BInv, NEW d \in Builds, NEW r \in BuildType,
         build' = [build EXCEPT ![d] = r],
         NEW k, k \in [Dirs -> Commits \cup {Missing}], disk' = [disk EXCEPT ![d] = k],
         UNCHANGED pushVars, image' \in [Commits -> MaybeCommit], collected' \subseteq Commits,
         stray' \subseteq Commits \X Commits, live' \in BOOLEAN,
         faults' \in 0..MaxFaults, touched' \subseteq Builds,
         touched \subseteq touched', touched' \subseteq touched \cup {d},
         Grown, ImagesOK', BuildOK(d)'
  PROVE  BInv'
<1>1. /\ build' \in [Builds -> BuildType] /\ disk' \in [Builds -> [Dirs -> Commits \cup {Missing}]]
      /\ \A e \in Builds \ {d} : build'[e] = build[e] /\ disk'[e] = disk[e]
  BY DEF BInv, TypeOK
<1>2. PushInv'
  BY PushSame DEF BInv
<1>3. \A e \in Builds : BuildOK(e)'
  BY <1>1, OthersKept DEF OnlyBuild
<1> QED BY <1>1, <1>2, <1>3 DEF BInv, TypeOK, PushInv

(* A step that changes the build's own state only.                          *)
LEMMA QuietStep ==
  ASSUME BInv, NEW d \in Builds, NEW r \in BuildType,
         build' = [build EXCEPT ![d] = r],
         UNCHANGED <<pushVars, disk, image, collected, stray, live>>,
         NoFault \/ Fault(d),
         r.input = build[d].input,
         r.step \in {"ref", "skip"} => build[d].step \in {"ref", "skip"},
         r.step \in Sourced => /\ build[d].step \in Sourced
                               /\ r.dir = build[d].dir /\ r.tag = build[d].tag,
         r.step = "cleanup" => /\ r.after = "success" => image[r.tag] # NoCommit
                               /\ r.after = "again" => r.round = 1,
         build[d].step \in Sourced => r.step \in Sourced \/ Fault(d)
  PROVE  BInv'
<1>1. build'[d] = r
  BY DEF BInv, TypeOK
<1>2. disk' = [disk EXCEPT ![d] = disk[d]] /\ disk[d] \in [Dirs -> Commits \cup {Missing}]
  BY DEF BInv, TypeOK
<1>3. ImagesOK' /\ Grown
  BY ImagesKept, SinceStays
<1>4. BuildOK(d)'
  <2>0. BuildOK(d) /\ disk' = disk /\ since' = since /\ image' = image
    BY DEF BInv, pushVars
  <2>1. InputOK(d)'
    BY <1>1, <2>0 DEF BuildOK, InputOK, Pushed
  <2>2. SourceOK(d)'
    BY <1>1, <2>0 DEF BuildOK, SourceOK, Pushed
  <2>3. EndOK(d)'
    BY <1>1, <2>0 DEF EndOK
  <2>4. LeftOK(d)'
    BY <1>1, <2>0 DEF BuildOK, LeftOK, NoFault, Fault
  <2> QED BY <2>1, <2>2, <2>3, <2>4 DEF BuildOK
<1>5. /\ faults' \in 0..MaxFaults /\ touched' \subseteq Builds
      /\ touched \subseteq touched' /\ touched' \subseteq touched \cup {d}
  BY Counted DEF BInv
<1>6. /\ image' \in [Commits -> MaybeCommit] /\ collected' \subseteq Commits
      /\ stray' \subseteq Commits \X Commits /\ live' \in BOOLEAN
  BY DEF BInv, TypeOK
<1>7. UNCHANGED pushVars
  OBVIOUS
<1> QED BY <1>2, <1>3, <1>4, <1>5, <1>6, <1>7, StepKeeps

(* A build stays a build when it goes on.                                   *)
LEMMA GoneOn ==
  ASSUME NEW b \in BuildType, NEW s \in {"none", "success", "failed", "terminated"} \cup Steps,
         NEW after \in {"again", "success", "failed"}
  PROVE  /\ [b EXCEPT !.step = s, !.tries = 0] \in BuildType
         /\ [b EXCEPT !.step = s, !.tries = 0, !.after = after] \in BuildType
<1> DEFINE n == [b EXCEPT !.step = s]
           m == [n EXCEPT !.tries = 0]
<1>1. n \in BuildType
  BY DEF BuildType
<1>2. /\ [b EXCEPT !.step = s, !.tries = 0] = m
      /\ [b EXCEPT !.step = s, !.tries = 0, !.after = after] = [m EXCEPT !.after = after]
  BY DEF BuildType
<1> HIDE DEF n
<1>3. m \in BuildType
  BY <1>1 DEF BuildType
<1> HIDE DEF m
<1>4. [m EXCEPT !.after = after] \in BuildType
  BY <1>3 DEF BuildType
<1> QED BY <1>2, <1>3, <1>4

LEMMA Retried ==
  ASSUME NEW b \in BuildType
  PROVE  [b EXCEPT !.tries = 1] \in BuildType
  BY DEF BuildType

(* The two ways in which a build most often goes on.                        *)
LEMMA GoStep ==
  ASSUME BInv, NEW d \in Builds, NEW s \in {"skip", "clone", "exists", "image", "failed"},
         Go(d, s), NoFault \/ Fault(d),
         UNCHANGED <<pushVars, disk, image, collected, stray, live>>,
         s = "skip" => build[d].step = "ref",
         s \in Sourced => build[d].step \in Sourced,
         build[d].step \in Sourced => s \in Sourced \/ Fault(d)
  PROVE  BInv'
<1> DEFINE r == [build[d] EXCEPT !.step = s, !.tries = 0]
<1>1. /\ r \in BuildType /\ r.step = s /\ r.input = build[d].input
      /\ r.dir = build[d].dir /\ r.tag = build[d].tag
      /\ build' = [build EXCEPT ![d] = r]
  <2>1. build[d] \in BuildType /\ build \in [Builds -> BuildType]
    BY DEF BInv, TypeOK
  <2>2. r \in BuildType
    BY <2>1, GoneOn DEF Steps
  <2>3. /\ r.step = s /\ r.input = build[d].input
        /\ r.dir = build[d].dir /\ r.tag = build[d].tag
    BY <2>1 DEF BuildType
  <2>4. build' = [build EXCEPT ![d] = r]
    BY <2>1 DEF Go
  <2> QED BY <2>2, <2>3, <2>4
<1>2. s # "cleanup"
  OBVIOUS
<1> HIDE DEF r
<1> QED BY <1>1, <1>2, QuietStep

LEMMA CleanUpStep ==
  ASSUME BInv, NEW d \in Builds, NEW after \in {"again", "success", "failed"},
         CleanUp(d, after), NoFault \/ Fault(d),
         UNCHANGED <<pushVars, disk, image, collected, stray, live>>,
         build[d].step \in Sourced,
         after = "success" => image[build[d].tag] # NoCommit,
         after = "again" => build[d].round = 1
  PROVE  BInv'
<1> DEFINE r == [build[d] EXCEPT !.step = "cleanup", !.tries = 0, !.after = after]
<1>1. /\ r \in BuildType /\ r.step = "cleanup" /\ r.input = build[d].input
      /\ r.dir = build[d].dir /\ r.tag = build[d].tag /\ r.after = after
      /\ r.round = build[d].round
      /\ build' = [build EXCEPT ![d] = r]
  <2>1. build[d] \in BuildType /\ build \in [Builds -> BuildType]
    BY DEF BInv, TypeOK
  <2>2. r \in BuildType
    BY <2>1, GoneOn DEF Steps
  <2>3. /\ r.step = "cleanup" /\ r.input = build[d].input
        /\ r.dir = build[d].dir /\ r.tag = build[d].tag /\ r.after = after
        /\ r.round = build[d].round
    BY <2>1 DEF BuildType
  <2>4. build' = [build EXCEPT ![d] = r]
    BY <2>1 DEF CleanUp
  <2> QED BY <2>2, <2>3, <2>4
<1>2. "cleanup" \in Sourced
  BY DEF Sourced
<1> HIDE DEF r
<1> QED BY <1>1, <1>2, QuietStep


LEMMA ResolveImageRefInv ==
  ASSUME BInv, NEW d \in Builds, ResolveImageRef(d)
  PROVE  BInv'
  BY GoStep DEF ResolveImageRef, NoFault, Sourced

LEMMA SkipBuildInv ==
  ASSUME BInv, NEW d \in Builds, SkipBuild(d)
  PROVE  BInv'
<1> DEFINE r == [build[d] EXCEPT !.step = "success", !.tag = build[d].input]
           n == [build[d] EXCEPT !.step = "success"]
<1>1. build[d] \in BuildType /\ build \in [Builds -> BuildType]
  BY DEF BInv, TypeOK
<1>2. n \in BuildType /\ r = [n EXCEPT !.tag = build[d].input] /\ build[d].input \in MaybeCommit
  BY <1>1 DEF BuildType
<1>3. /\ r.step = "success" /\ r.input = build[d].input
      /\ build' = [build EXCEPT ![d] = r]
  BY <1>1 DEF SkipBuild, BuildType
<1> HIDE DEF n
<1>4. r \in BuildType
  BY <1>2 DEF BuildType
<1>5. "success" \notin Sourced /\ build[d].step \notin Sourced
  BY DEF Sourced, SkipBuild
<1>6. UNCHANGED <<pushVars, disk, image, collected, stray, live>> /\ NoFault
  BY DEF SkipBuild
<1> HIDE DEF r
<1> QED BY <1>3, <1>4, <1>5, <1>6, QuietStep

LEMMA NoSkipInv ==
  ASSUME BInv, NEW d \in Builds, NoSkip(d)
  PROVE  BInv'
<1>1. /\ NoFault \/ Fault(d)
      /\ Go(d, "clone")
      /\ UNCHANGED <<pushVars, disk, image, collected, stray, live>>
      /\ build[d].step \notin Sourced /\ "clone" \notin Sourced
  BY DEF NoSkip, Sourced
<1> QED BY <1>1, GoStep

LEMMA CloneFailsInv ==
  ASSUME BInv, NEW d \in Builds, CloneFails(d)
  PROVE  BInv'
<1>1. /\ NoFault \/ Fault(d)
      /\ Go(d, "failed")
      /\ UNCHANGED <<pushVars, disk, image, collected, stray, live>>
      /\ build[d].step \notin Sourced /\ "failed" \notin Sourced
  BY DEF CloneFails, Sourced
<1> QED BY <1>1, GoStep

LEMMA ResolveBuildContextInv ==
  ASSUME BInv, NEW d \in Builds, ResolveBuildContext(d)
  PROVE  BInv'
<1>1. /\ NoFault
      /\ Go(d, "exists")
      /\ UNCHANGED <<pushVars, disk, image, collected, stray, live>>
      /\ build[d].step \in Sourced /\ "exists" \in Sourced
  BY DEF ResolveBuildContext, Sourced, NoFault
<1> QED BY <1>1, GoStep

LEMMA ResolveFailsInv ==
  ASSUME BInv, NEW d \in Builds, ResolveFails(d)
  PROVE  BInv'
<1>1. PICK after \in {"again", "success", "failed"} :
        CleanUp(d, after) /\ after # "success" /\ (after = "again" => build[d].round = 1)
  BY DEF ResolveFails, AfterMissing
<1>2. /\ NoFault \/ Fault(d)
      /\ UNCHANGED <<pushVars, disk, image, collected, stray, live>>
      /\ build[d].step \in Sourced
  BY DEF ResolveFails, Sourced
<1> QED BY <1>1, <1>2, CleanUpStep

LEMMA ImageExistsInv ==
  ASSUME BInv, NEW d \in Builds, ImageExists(d)
  PROVE  BInv'
<1>1. /\ NoFault \/ Fault(d)
      /\ UNCHANGED <<pushVars, disk, image, collected, stray, live>>
      /\ build[d].step \in Sourced /\ "image" \in Sourced
  BY DEF ImageExists, Sourced
<1>2. CASE Stored(build[d].tag) /\ CleanUp(d, "success")
  BY <1>1, <1>2, CleanUpStep DEF Stored
<1>3. CASE Go(d, "image")
  BY <1>1, <1>3, GoStep
<1> QED BY <1>2, <1>3 DEF ImageExists

LEMMA BuildFailsInv ==
  ASSUME BInv, NEW d \in Builds, BuildFails(d)
  PROVE  BInv'
<1>1. PICK after \in {"again", "success", "failed"} :
        CleanUp(d, after) /\ after # "success" /\ (after = "again" => build[d].round = 1)
  BY DEF BuildFails, AfterMissing
<1>2. /\ NoFault
      /\ UNCHANGED <<pushVars, disk, image, collected, stray, live>>
      /\ build[d].step \in Sourced
  BY DEF BuildFails, Sourced
<1> QED BY <1>1, <1>2, CleanUpStep

(* What a clone finds was head since the commit it is labelled with.        *)
LEMMA LabelOK ==
  ASSUME BInv, NEW d \in Builds, head # NoCommit
  PROVE  head \in Commits /\ Pushed(Label(d)) /\ head \in since[Label(d)]
<1>1. head \in Commits
  BY DEF BInv, PushInv, PushTypeOK, MaybeCommit
<1>2. Pushed(Label(d)) \/ Label(d) = head
  BY DEF BInv, BuildOK, InputOK, Label
<1>3. Label(d) \in Commits
  BY <1>1, <1>2 DEF Pushed
<1>4. head \in since[Label(d)]
  BY <1>2, <1>3 DEF BInv, PushInv, SinceOK
<1> QED BY <1>1, <1>3, <1>4 DEF Pushed

LEMMA CloneRepoInv ==
  ASSUME BInv, NEW d \in Builds, CloneRepo(d)
  PROVE  BInv'
<1> DEFINE b == build[d]
           n == b.used + 1
           k == [disk[d] EXCEPT ![n] = head]
<1>0. /\ b \in BuildType /\ build \in [Builds -> BuildType] /\ b.step = "clone"
      /\ b.used \in Dirs \cup {0} /\ b.tries \in 0..1
      /\ disk \in [Builds -> [Dirs -> Commits \cup {Missing}]]
      /\ disk[d] \in [Dirs -> Commits \cup {Missing}]
  BY BuildTypes DEF CloneRepo, BInv, TypeOK
<1>1. n \in Dirs
  BY <1>0 DEF CloneRepo, Dirs
<1>2. head \in Commits /\ Pushed(Label(d)) /\ head \in since[Label(d)]
  BY LabelOK DEF CloneRepo
<1>3. k \in [Dirs -> Commits \cup {Missing}] /\ disk' = [disk EXCEPT ![d] = k]
  BY <1>0, <1>1, <1>2 DEF CloneRepo
<1>4. /\ UNCHANGED pushVars /\ image' = image /\ stray' = stray /\ live' = live
      /\ collected' = collected
      /\ image' \in [Commits -> MaybeCommit] /\ collected' \subseteq Commits
      /\ stray' \subseteq Commits \X Commits /\ live' \in BOOLEAN
  BY DEF CloneRepo, BInv, TypeOK
<1>5. ImagesOK' /\ Grown
  BY <1>4, ImagesKept, SinceStays
<1>6. NoFault \/ Fault(d)
  BY DEF CloneRepo
<1>7. /\ faults' \in 0..MaxFaults /\ touched' \subseteq Builds
      /\ touched \subseteq touched' /\ touched' \subseteq touched \cup {d}
  BY <1>6, Counted DEF BInv
<1>8. since' = since /\ disk'[d] = k /\ BuildOK(d)
  BY <1>0, <1>3, <1>4 DEF pushVars, BInv
<1>9. b.step \notin Sourced
  BY <1>0 DEF Sourced
<1>10. CASE /\ build' = [build EXCEPT ![d].step = "resolve", ![d].tries = 0, ![d].used = n,
                                      ![d].dir = n, ![d].tag = Label(d)]
            /\ NoFault
  <2> DEFINE r == [b EXCEPT !.step = "resolve", !.tries = 0, !.used = n, !.dir = n,
                            !.tag = Label(d)]
             r1 == [b EXCEPT !.step = "resolve", !.tries = 0]
             r2 == [r1 EXCEPT !.used = n]
             r3 == [r2 EXCEPT !.dir = n]
  <2>1. build' = [build EXCEPT ![d] = r]
    BY <1>0, <1>10
  <2>2. r \in BuildType
    <3>1. r1 \in BuildType
      BY <1>0, GoneOn DEF Steps
    <3>2. r = [r3 EXCEPT !.tag = Label(d)]
      BY <1>0 DEF BuildType
    <3> HIDE DEF r1
    <3>3. r2 \in BuildType
      BY <1>1, <3>1 DEF BuildType
    <3> HIDE DEF r2
    <3>4. r3 \in BuildType
      BY <1>1, <3>3 DEF BuildType
    <3> HIDE DEF r3
    <3>5. Label(d) \in MaybeCommit
      BY <1>2 DEF Pushed, MaybeCommit
    <3>6. [r3 EXCEPT !.tag = Label(d)] \in BuildType
      BY <3>4, <3>5 DEF BuildType
    <3> QED BY <3>2, <3>6
  <2>3. r.step = "resolve" /\ r.dir = n /\ r.tag = Label(d) /\ r.input = b.input
    BY <1>0 DEF BuildType
  <2> HIDE DEF r
  <2>4. build'[d] = r
    BY <1>0, <2>1
  <2>5. InputOK(d)'
    BY <1>8, <2>3, <2>4 DEF BuildOK, InputOK, Pushed
  <2>6. k[n] = head
    BY <1>0, <1>1
  <2>7. SourceOK(d)'
    BY <1>1, <1>2, <1>8, <2>3, <2>4, <2>6 DEF SourceOK, Pushed
  <2>8. EndOK(d)'
    BY <2>3, <2>4 DEF EndOK
  <2>9. LeftOK(d)'
    <3>1. \A j \in Dirs : d \notin touched' /\ j # n => k[j] = Missing
      BY <1>0, <1>8, <1>9, <1>10 DEF BuildOK, LeftOK, NoFault
    <3> QED BY <1>8, <2>3, <2>4, <3>1 DEF LeftOK, Sourced
  <2>10. BuildOK(d)'
    BY <2>5, <2>7, <2>8, <2>9 DEF BuildOK
  <2> HIDE DEF k
  <2> QED BY <1>3, <1>4, <1>5, <1>7, <2>1, <2>2, <2>10, StepKeeps
<1>11. CASE Fault(d) /\ build' = [build EXCEPT ![d].tries = 1, ![d].used = n]
  <2> DEFINE r == [b EXCEPT !.tries = 1, !.used = n]
             r1 == [b EXCEPT !.tries = 1]
  <2>1. build' = [build EXCEPT ![d] = r]
    BY <1>0, <1>11
  <2>2. r \in BuildType
    <3>1. r1 \in BuildType /\ r = [r1 EXCEPT !.used = n]
      BY <1>0, Retried DEF BuildType
    <3> HIDE DEF r1
    <3>2. [r1 EXCEPT !.used = n] \in BuildType
      BY <1>1, <3>1 DEF BuildType
    <3> QED BY <3>1, <3>2
  <2>3. r.step = "clone" /\ r.input = b.input
    BY <1>0 DEF BuildType
  <2> HIDE DEF r
  <2>4. build'[d] = r
    BY <1>0, <2>1
  <2>5. BuildOK(d)'
    BY <1>8, <1>11, <2>3, <2>4
       DEF BuildOK, InputOK, SourceOK, EndOK, LeftOK, Fault, Sourced, Pushed
  <2> HIDE DEF k
  <2> QED BY <1>3, <1>4, <1>5, <1>7, <2>1, <2>2, <2>5, StepKeeps
<1> QED BY <1>10, <1>11 DEF CloneRepo

LEMMA BuildImageInv ==
  ASSUME BInv, NEW d \in Builds, BuildImage(d)
  PROVE  BInv'
<1> DEFINE b == build[d]
           source == disk[d][b.dir]
<1>0. /\ b \in BuildType /\ build \in [Builds -> BuildType] /\ b.step = "image"
      /\ disk \in [Builds -> [Dirs -> Commits \cup {Missing}]]
      /\ disk[d] \in [Dirs -> Commits \cup {Missing}] /\ BuildOK(d)
      /\ image \in [Commits -> MaybeCommit] /\ collected \subseteq Commits
      /\ since \in [Commits -> SUBSET Commits]
  BY DEF BuildImage, BInv, TypeOK, PushTypeOK
<1>1. b.step \in Sourced
  BY <1>0 DEF Sourced
<1>2. b.tag \in Commits /\ source \in since[b.tag] /\ source \in Commits
  BY <1>0, <1>1 DEF BuildOK, SourceOK, BuildImage, SourceThere, Pushed
<1>3. /\ UNCHANGED pushVars /\ stray' = stray /\ live' = live /\ disk' = disk /\ since' = since
      /\ image' = [image EXCEPT ![b.tag] = source] /\ collected' \subseteq Commits
  BY <1>0 DEF BuildImage, Store, pushVars
<1>4. /\ image' \in [Commits -> MaybeCommit] /\ image'[b.tag] # NoCommit
  BY <1>0, <1>2, <1>3, NoCommitOK DEF MaybeCommit
<1>5. ImagesOK' /\ Grown
  BY <1>0, <1>2, <1>3, <1>4 DEF BInv, ImagesOK, Grown
<1>6. NoFault \/ Fault(d)
  BY DEF BuildImage
<1>7. /\ faults' \in 0..MaxFaults /\ touched' \subseteq Builds
      /\ touched \subseteq touched' /\ touched' \subseteq touched \cup {d}
  BY <1>6, Counted DEF BInv
<1>8. stray' \subseteq Commits \X Commits /\ live' \in BOOLEAN
  BY <1>3 DEF BInv, TypeOK
<1>9. disk' = [disk EXCEPT ![d] = disk[d]]
  BY <1>0, <1>3
<1>10. PICK r \in BuildType :
         /\ build' = [build EXCEPT ![d] = r]
         /\ r.step \in Sourced /\ r.input = b.input /\ r.dir = b.dir /\ r.tag = b.tag
         /\ r.step = "cleanup" => r.after = "success"
  <2>1. CASE CleanUp(d, "success")
    <3> DEFINE r == [b EXCEPT !.step = "cleanup", !.tries = 0, !.after = "success"]
    <3>1. r \in BuildType
      BY <1>0, GoneOn DEF Steps
    <3>2. /\ build' = [build EXCEPT ![d] = r]
          /\ r.step = "cleanup" /\ r.input = b.input /\ r.dir = b.dir /\ r.tag = b.tag
          /\ r.after = "success"
      BY <1>0, <2>1 DEF CleanUp, BuildType
    <3> HIDE DEF r
    <3> QED BY <3>1, <3>2 DEF Sourced
  <2>2. CASE build' = [build EXCEPT ![d].tries = 1]
    <3> DEFINE r == [b EXCEPT !.tries = 1]
    <3>1. r \in BuildType
      BY <1>0, Retried
    <3>2. /\ build' = [build EXCEPT ![d] = r]
          /\ r.step = "image" /\ r.input = b.input /\ r.dir = b.dir /\ r.tag = b.tag
      BY <1>0, <2>2 DEF BuildType
    <3> HIDE DEF r
    <3> QED BY <3>1, <3>2 DEF Sourced
  <2> QED BY <2>1, <2>2 DEF BuildImage
<1>11. BuildOK(d)'
  <2>1. build'[d] = r
    BY <1>0, <1>10
  <2>2. InputOK(d)'
    BY <1>0, <1>3, <1>10, <2>1 DEF BuildOK, InputOK, Pushed, Sourced
  <2>3. SourceOK(d)'
    BY <1>0, <1>1, <1>3, <1>10, <2>1 DEF BuildOK, SourceOK, Pushed
  <2>4. EndOK(d)'
    BY <1>4, <1>10, <2>1 DEF EndOK
  <2>5. LeftOK(d)'
    BY <1>0, <1>3, <1>7, <1>10, <2>1 DEF BuildOK, LeftOK
  <2> QED BY <2>2, <2>3, <2>4, <2>5 DEF BuildOK
<1> QED BY <1>0, <1>3, <1>4, <1>5, <1>7, <1>8, <1>9, <1>10, <1>11, StepKeeps

LEMMA CleanupSourceInv ==
  ASSUME BInv, NEW d \in Builds, CleanupSource(d)
  PROVE  BInv'
<1> DEFINE b == build[d]
<1>0. /\ b \in BuildType /\ build \in [Builds -> BuildType] /\ b.step = "cleanup"
      /\ disk \in [Builds -> [Dirs -> Commits \cup {Missing}]]
      /\ disk[d] \in [Dirs -> Commits \cup {Missing}] /\ BuildOK(d)
      /\ image' \in [Commits -> MaybeCommit] /\ collected' \subseteq Commits
      /\ stray' \subseteq Commits \X Commits /\ live' \in BOOLEAN
      /\ UNCHANGED pushVars /\ since' = since
  BY DEF CleanupSource, BInv, TypeOK, PushTypeOK, pushVars
<1>1. ImagesOK' /\ Grown
  BY ImagesKept, SinceStays DEF CleanupSource
<1>2. /\ faults' \in 0..MaxFaults /\ touched' \subseteq Builds
      /\ touched \subseteq touched' /\ touched' \subseteq touched \cup {d}
  BY Counted DEF BInv, CleanupSource
<1>3. b.dir \in Dirs
  BY <1>0 DEF BuildOK, SourceOK, Sourced
<1>4. PICK k \in [Dirs -> Commits \cup {Missing}] :
        /\ disk' = [disk EXCEPT ![d] = k]
        /\ \/ Fault(d)
           \/ NoFault /\ k = [disk[d] EXCEPT ![b.dir] = Missing]
  <2>1. CASE disk' = disk /\ Fault(d)
    BY <1>0, <2>1
  <2>2. CASE disk' = [disk EXCEPT ![d][b.dir] = Missing] /\ NoFault
    BY <1>0, <1>3, <2>2
  <2> QED BY <2>1, <2>2 DEF CleanupSource
<1>5. PICK r \in BuildType :
        /\ build' = [build EXCEPT ![d] = r]
        /\ r.step \in {"clone", "success", "failed", "again"} /\ r.input = b.input
  <2>1. CASE b.after = "again"
    <3> DEFINE r == [b EXCEPT !.step = "clone", !.tries = 0, !.round = 2]
               r1 == [b EXCEPT !.step = "clone", !.tries = 0]
    <3>1. r1 \in BuildType
      BY <1>0, GoneOn DEF Steps
    <3>2. r = [r1 EXCEPT !.round = 2] /\ r.step = "clone" /\ r.input = b.input
      BY <1>0 DEF BuildType
    <3>3. build' = [build EXCEPT ![d] = r]
      BY <2>1 DEF CleanupSource, AfterCleanup
    <3> HIDE DEF r1
    <3>4. [r1 EXCEPT !.round = 2] \in BuildType
      BY <3>1 DEF BuildType, Rounds
    <3> HIDE DEF r
    <3> QED BY <3>2, <3>3, <3>4
  <2>2. CASE b.after # "again"
    <3> DEFINE r == [b EXCEPT !.step = b.after]
    <3>1. b.after \in {"success", "failed"}
      BY <1>0, <2>2 DEF BuildType
    <3>2. r \in BuildType /\ r.step = b.after /\ r.input = b.input
      BY <1>0, <3>1 DEF BuildType
    <3>3. build' = [build EXCEPT ![d] = r]
      BY <2>2 DEF CleanupSource, AfterCleanup
    <3> HIDE DEF r
    <3> QED BY <3>1, <3>2, <3>3
  <2> QED BY <2>1, <2>2
<1>6. BuildOK(d)'
  <2>1. build'[d] = r /\ disk'[d] = k /\ r.step \notin Sourced
    BY <1>0, <1>4, <1>5 DEF Sourced
  <2>2. InputOK(d)'
    BY <1>0, <1>5, <2>1 DEF BuildOK, InputOK, Pushed
  <2>3. SourceOK(d)' /\ EndOK(d)'
    BY <2>1 DEF SourceOK, EndOK, Sourced
  <2>4. LeftOK(d)'
    <3>1. CASE Fault(d)
      BY <3>1 DEF LeftOK, Fault
    <3>2. CASE NoFault /\ k = [disk[d] EXCEPT ![b.dir] = Missing]
      <4>1. d \notin touched => \A j \in Dirs : k[j] = Missing
        BY <1>0, <1>3, <3>2 DEF BuildOK, LeftOK
      <4> QED BY <2>1, <3>2, <4>1 DEF LeftOK, NoFault
    <3> QED BY <1>4, <3>1, <3>2
  <2> QED BY <2>2, <2>3, <2>4 DEF BuildOK
<1> QED BY <1>0, <1>1, <1>2, <1>4, <1>5, <1>6, StepKeeps

LEMMA TerminateInv ==
  ASSUME BInv, NEW d \in Builds, Terminate(d)
  PROVE  BInv'
<1> DEFINE b == build[d]
           r == [b EXCEPT !.step = "terminated"]
<1>0. /\ b \in BuildType /\ build \in [Builds -> BuildType] /\ BuildOK(d)
      /\ disk \in [Builds -> [Dirs -> Commits \cup {Missing}]]
      /\ disk[d] \in [Dirs -> Commits \cup {Missing}]
      /\ UNCHANGED pushVars /\ since' = since /\ image' = image
      /\ image' \in [Commits -> MaybeCommit] /\ collected' \subseteq Commits
      /\ live' \in BOOLEAN
      /\ faults' \in 0..MaxFaults /\ touched' = touched \cup {d} /\ touched' \subseteq Builds
  BY DEF Terminate, BInv, TypeOK, pushVars
<1>1. r \in BuildType /\ build' = [build EXCEPT ![d] = r]
      /\ r.step = "terminated" /\ r.input = b.input
  BY <1>0 DEF BuildType, Terminate
<1>2. PICK k \in [Dirs -> Commits \cup {Missing}] : disk' = [disk EXCEPT ![d] = k]
  <2>1. CASE disk' = disk
    BY <1>0, <2>1
  <2>2. CASE /\ head # NoCommit /\ b.used \in {0, 1, 2, 3}
             /\ disk' = [disk EXCEPT ![d][b.used + 1] = head]
    <3>1. head \in Commits /\ b.used + 1 \in Dirs
      BY <2>2, LabelOK DEF Dirs
    <3> QED BY <1>0, <2>2, <3>1
  <2> QED BY <2>1, <2>2 DEF Terminate
<1>3. /\ stray' \subseteq Commits \X Commits
      /\ \A s \in stray' : s[2] \in since[s[1]]
  <2>1. CASE stray' = stray
    BY <2>1 DEF BInv, TypeOK, ImagesOK
  <2>2. CASE /\ b.step = "image" /\ disk[d][b.dir] # Missing
             /\ stray' = stray \cup {<<b.tag, disk[d][b.dir]>>}
    <3>1. /\ b.tag \in Commits /\ disk[d][b.dir] \in since[b.tag]
          /\ disk[d][b.dir] \in Commits
      BY <1>0, <2>2 DEF BuildOK, SourceOK, Sourced, Pushed
    <3> QED BY <2>2, <3>1 DEF BInv, TypeOK, ImagesOK
  <2> QED BY <2>1, <2>2 DEF Terminate
<1>4. ImagesOK' /\ Grown
  BY <1>0, <1>3 DEF BInv, ImagesOK, Grown
<1> HIDE DEF r
<1>5. BuildOK(d)'
  <2>1. build'[d] = r
    BY <1>0, <1>1
  <2> QED
    BY <1>0, <1>1, <2>1
       DEF BuildOK, InputOK, SourceOK, EndOK, LeftOK, Sourced, Pushed
<1> QED BY <1>0, <1>1, <1>2, <1>3, <1>4, <1>5, StepKeeps

(* A step that leaves every build where it was.                             *)
LEMMA AllKept ==
  ASSUME BInv, Grown, \A e \in Builds : Same(e), touched \subseteq touched',
         \A e \in Builds : disk'[e] = disk[e] \/ \A k \in Dirs : disk'[e][k] = Missing
  PROVE  \A e \in Builds : BuildOK(e)'
  BY Kept DEF BInv

(* The orphans of a new build or of a deletion.                             *)
LEMMA OrphansKept ==
  ASSUME BInv, NEW e \in Builds, NEW o \in BOOLEAN,
         build'[e] = [build[e] EXCEPT !.orphan = o]
  PROVE  build'[e] \in BuildType /\ Same(e)
<1>1. build[e] \in BuildType
  BY DEF BInv, TypeOK
<1> QED BY <1>1 DEF BuildType, Same

LEMMA StartBuildInv ==
  ASSUME BInv, NEW d \in Builds, NEW c \in MaybeCommit, StartBuild(d, c)
  PROVE  BInv'
<1> DEFINE r == [NoBuild EXCEPT !.input = c,
                                !.step = IF c = NoCommit THEN "clone" ELSE "ref"]
<1>0. UNCHANGED <<pushVars, disk, image, collected, stray, live, faults, touched>>
  BY DEF StartBuild
<1>1. ImagesOK' /\ Grown
  BY <1>0, ImagesKept, SinceStays
<1>2. /\ r \in BuildType /\ r.input = c /\ r.step \in {"clone", "ref"}
      /\ r.step = "ref" => c # NoCommit
  <2> DEFINE s == IF c = NoCommit THEN "clone" ELSE "ref"
             n == [NoBuild EXCEPT !.input = c]
  <2>1. NoBuild \in BuildType /\ s \in {"clone", "ref"} /\ (s = "ref" => c # NoCommit)
    BY DEF NoBuild, BuildType, Steps, Rounds, Dirs, MaybeCommit
  <2> HIDE DEF s
  <2>2. n \in BuildType /\ n.input = c
    BY <2>1 DEF BuildType
  <2>3. r = [n EXCEPT !.step = s]
    BY <2>1 DEF BuildType, s
  <2> HIDE DEF n
  <2>4. [n EXCEPT !.step = s] \in BuildType
    BY <2>1, <2>2 DEF BuildType, Steps
  <2>5. [n EXCEPT !.step = s].input = c /\ [n EXCEPT !.step = s].step = s
    BY <2>2 DEF BuildType
  <2> HIDE DEF r
  <2> QED BY <2>1, <2>3, <2>4, <2>5
<1>3. build' = [e \in Builds |-> IF e = d THEN r ELSE Orphaned(d, e)]
  BY DEF StartBuild
<1>4. \A e \in Builds \ {d} : build'[e] \in BuildType /\ Same(e)
  <2> SUFFICES ASSUME NEW e \in Builds \ {d} PROVE build'[e] \in BuildType /\ Same(e)
    OBVIOUS
  <2>1. build[e] \in BuildType
    BY DEF BInv, TypeOK
  <2>2. build[e].orphan \/ (e # d /\ Open(e)) \in BOOLEAN
    BY <2>1 DEF BuildType
  <2>3. build'[e] = [build[e] EXCEPT !.orphan = build[e].orphan \/ (e # d /\ Open(e))]
    BY <1>3, <2>1 DEF Orphaned, BuildType
  <2> QED BY <2>2, <2>3, OrphansKept
<1>5. build'[d] = r
  BY <1>3
<1>6. build' \in [Builds -> BuildType]
  BY <1>2, <1>3, <1>4, <1>5
<1>7. BuildOK(d)'
  <2>1. BuildOK(d) /\ build[d].step \notin Sourced
    BY DEF BInv, StartBuild, Sourced
  <2>2. c # NoCommit => Pushed(c)
    BY DEF StartBuild, BInv, PushInv, RequestsOK
  <2>3. since' = since /\ disk' = disk /\ touched' = touched
    BY <1>0 DEF pushVars
  <2> HIDE DEF r
  <2> QED BY <1>2, <1>5, <2>1, <2>2, <2>3
             DEF BuildOK, InputOK, SourceOK, EndOK, LeftOK, Sourced, Pushed
<1>8. \A e \in Builds \ {d} : BuildOK(e)'
  BY <1>0, <1>1, <1>4, Kept DEF BInv
<1>9. PushInv'
  BY <1>0, PushSame DEF BInv
<1>10. TypeOK'
  BY <1>0, <1>6, <1>9 DEF BInv, TypeOK, PushInv
<1> QED BY <1>1, <1>7, <1>8, <1>9, <1>10 DEF BInv

LEMMA DeleteServiceInv ==
  ASSUME BInv, DeleteService
  PROVE  BInv'
<1>0. UNCHANGED <<pushVars, disk, image, collected, stray, faults, touched>> /\ live' = FALSE
  BY DEF DeleteService
<1>1. ImagesOK' /\ Grown
  BY <1>0, ImagesKept, SinceStays
<1>2. \A e \in Builds : build'[e] \in BuildType /\ Same(e)
  <2> SUFFICES ASSUME NEW e \in Builds PROVE build'[e] \in BuildType /\ Same(e)
    OBVIOUS
  <2>1. build[e] \in BuildType
    BY DEF BInv, TypeOK
  <2>2. build'[e] = [build[e] EXCEPT !.orphan = build[e].orphan \/ Open(e)]
    BY <2>1 DEF DeleteService, BuildType
  <2> QED BY <2>1, <2>2, OrphansKept DEF BuildType
<1>3. \A e \in Builds : BuildOK(e)'
  BY <1>0, <1>1, <1>2, AllKept
<1>4. PushInv'
  BY <1>0, PushSame DEF BInv
<1>5. build' \in [Builds -> BuildType]
  BY <1>2 DEF DeleteService
<1>6. TypeOK'
  BY <1>0, <1>4, <1>5 DEF BInv, TypeOK, PushInv
<1> QED BY <1>1, <1>3, <1>4, <1>6 DEF BInv

LEMMA StrayInv ==
  ASSUME BInv, NEW s \in stray, StrayLands(s) \/ StrayEnds(s)
  PROVE  BInv'
<1>0. /\ UNCHANGED <<pushVars, build, disk, live, faults, touched>> /\ since' = since
      /\ stray' \subseteq stray
  BY DEF StrayLands, StrayEnds, pushVars
<1>1. /\ s[1] \in Commits /\ s[2] \in since[s[1]] /\ s[2] \in Commits
      /\ image \in [Commits -> MaybeCommit]
  BY DEF BInv, TypeOK, ImagesOK, PushTypeOK
<1>2. /\ image' \in [Commits -> MaybeCommit] /\ collected' \subseteq Commits
      /\ ImagesOK' /\ Grown
  <2>1. CASE StrayLands(s)
    <3>1. image' = [image EXCEPT ![s[1]] = s[2]] /\ collected' \subseteq Commits
      BY <2>1 DEF StrayLands, Store, BInv, TypeOK
    <3>2. image' \in [Commits -> MaybeCommit]
      BY <1>1, <3>1 DEF MaybeCommit
    <3>3. s[2] # NoCommit
      BY <1>1, NoCommitOK
    <3>4. ImagesOK' /\ Grown
      BY <1>0, <1>1, <3>1, <3>3 DEF BInv, ImagesOK, Grown
    <3> QED BY <3>1, <3>2, <3>4
  <2>2. CASE StrayEnds(s)
    BY <1>0, <2>2, ImagesKept, SinceStays DEF StrayEnds, BInv, TypeOK
  <2> QED BY <2>1, <2>2
<1>3. \A e \in Builds : BuildOK(e)'
  BY <1>0, <1>2, AllKept DEF Same
<1>4. PushInv'
  BY <1>0, PushSame DEF BInv
<1>5. TypeOK'
  BY <1>0, <1>2, <1>4 DEF BInv, TypeOK, PushInv
<1> QED BY <1>2, <1>3, <1>4, <1>5 DEF BInv

LEMMA RestartWorkerInv == BInv /\ RestartWorker => BInv'
<1> SUFFICES ASSUME BInv, RestartWorker PROVE BInv'
  OBVIOUS
<1>0. UNCHANGED <<pushVars, build, image, collected, live, touched>> /\ stray' = {}
  BY DEF RestartWorker
<1>1. ImagesOK' /\ Grown
  BY <1>0, ImagesKept, SinceStays
<1>2. \A e \in Builds : \A k \in Dirs : disk'[e][k] = Missing
  BY DEF RestartWorker
<1>3. \A e \in Builds : BuildOK(e)'
  BY <1>0, <1>1, <1>2, AllKept DEF Same
<1>4. PushInv'
  BY <1>0, PushSame DEF BInv
<1>5. faults' \in 0..MaxFaults
  BY BuildBoundsOK DEF RestartWorker, BInv, TypeOK
<1>6. disk' \in [Builds -> [Dirs -> Commits \cup {Missing}]]
  BY DEF RestartWorker
<1>7. TypeOK'
  BY <1>0, <1>4, <1>5, <1>6 DEF BInv, TypeOK, PushInv
<1> QED BY <1>1, <1>3, <1>4, <1>7 DEF BInv

LEMMA CollectImageInv ==
  ASSUME BInv, NEW c \in Commits, CollectImage(c)
  PROVE  BInv'
<1>0. UNCHANGED <<pushVars, build, disk, image, stray, live, faults, touched>>
      /\ collected' \subseteq Commits
  BY DEF CollectImage, BInv, TypeOK
<1>1. ImagesOK' /\ Grown
  BY <1>0, ImagesKept, SinceStays
<1>2. \A e \in Builds : BuildOK(e)'
  BY <1>0, <1>1, AllKept DEF Same
<1>3. PushInv'
  BY <1>0, PushSame DEF BInv
<1>4. TypeOK'
  BY <1>0, <1>3 DEF BInv, TypeOK, PushInv
<1> QED BY <1>1, <1>2, <1>3, <1>4 DEF BInv

LEMMA PushedInv == BInv /\ PushNext /\ UNCHANGED buildVars => BInv'
<1> SUFFICES ASSUME BInv, PushNext, UNCHANGED buildVars PROVE BInv'
  OBVIOUS
<1>0. UNCHANGED <<build, disk, image, collected, stray, live, faults, touched>>
  BY DEF buildVars
<1>1. PushInv'
  BY PushNextInv DEF BInv
<1>2. \A c \in Commits : since[c] \subseteq since'[c]
  <2>1. CASE UNCHANGED since
    BY <2>1
  <2>2. ASSUME NEW c \in MaybeCommit, MoveHead(c)
        PROVE  \A b \in Commits : since[b] \subseteq since'[b]
    BY <2>2, HeadMoves DEF BInv
  <2>3. UNCHANGED since \/ \E c \in MaybeCommit : MoveHead(c)
    <3>1. \A p \in Pushers : push[p].commit \in MaybeCommit
      BY PushTypes DEF BInv, PushInv
    <3> QED BY <3>1 DEF PushNext, PushStep, Advertise, SnapshotBefore, ReceivePack,
                        TriggerDeploys, PushAborts, GitHubPush, HandlePushWebhook,
                        DeliveryFails, MaybeCommit
  <2> QED BY <2>1, <2>2, <2>3
<1>3. ImagesOK' /\ Grown
  BY <1>0, <1>2, ImagesKept
<1>4. \A e \in Builds : BuildOK(e)'
  BY <1>0, <1>3, AllKept DEF Same
<1>5. TypeOK'
  BY <1>0, <1>1 DEF BInv, TypeOK, PushInv
<1> QED BY <1>1, <1>3, <1>4, <1>5 DEF BInv

LEMMA BuildsInit == Init => BInv
<1> SUFFICES ASSUME Init PROVE BInv
  OBVIOUS
<1>1. PushInv
  BY PushInitInv DEF Init
<1>2. NoBuild \in BuildType /\ NoBuild.step = "none" /\ NoBuild.input = NoCommit
  BY DEF NoBuild, BuildType, Steps, Rounds, Dirs, MaybeCommit
<1>3. TypeOK
  BY <1>1, <1>2, BuildBoundsOK DEF Init, BuildInit, TypeOK, PushInv, MaybeCommit
<1>4. ImagesOK
  BY DEF Init, BuildInit, ImagesOK
<1>5. \A d \in Builds : BuildOK(d)
  BY <1>2 DEF Init, BuildInit, BuildOK, InputOK, SourceOK, EndOK, LeftOK, Sourced
<1> QED BY <1>1, <1>3, <1>4, <1>5 DEF BInv

LEMMA BuildsNext == BInv /\ [Next]_vars => BInv'
<1> SUFFICES ASSUME BInv, [Next]_vars PROVE BInv'
  OBVIOUS
<1>1. ASSUME NEW d \in Builds, BuildStep(d) PROVE BInv'
  BY <1>1, ResolveImageRefInv, SkipBuildInv, NoSkipInv, CloneRepoInv, CloneFailsInv,
     ResolveBuildContextInv, ResolveFailsInv, ImageExistsInv, BuildImageInv, BuildFailsInv,
     CleanupSourceInv DEF BuildStep
<1>2. ASSUME NEW d \in Builds, NEW c \in MaybeCommit, StartBuild(d, c) PROVE BInv'
  BY <1>2, StartBuildInv
<1>3. ASSUME NEW d \in Builds, Terminate(d) PROVE BInv'
  BY <1>3, TerminateInv
<1>4. CASE \E s \in stray : StrayLands(s) \/ StrayEnds(s)
  BY <1>4, StrayInv
<1>5. CASE RestartWorker
  BY <1>5, RestartWorkerInv
<1>6. CASE \E c \in Commits : CollectImage(c)
  BY <1>6, CollectImageInv
<1>7. CASE DeleteService
  BY <1>7, DeleteServiceInv
<1>8. CASE PushNext /\ UNCHANGED buildVars
  BY <1>8, PushedInv
<1>9. CASE UNCHANGED vars
  <2>1. UNCHANGED <<pushVars, build, disk, image, collected, stray, live, faults, touched>>
    BY <1>9 DEF vars, buildVars
  <2>2. ImagesOK' /\ Grown
    BY <2>1, ImagesKept, SinceStays
  <2>3. \A e \in Builds : BuildOK(e)'
    BY <2>1, <2>2, AllKept DEF Same
  <2>4. PushInv'
    BY <2>1, PushSame DEF BInv
  <2>5. TypeOK'
    BY <2>1, <2>4 DEF BInv, TypeOK, PushInv
  <2> QED BY <2>2, <2>3, <2>4, <2>5 DEF BInv
<1> QED BY <1>1, <1>2, <1>3, <1>4, <1>5, <1>6, <1>7, <1>8, <1>9 DEF Next, BuildNext

(* Every variable has its type.                                             *)
THEOREM TypesHold == Spec => []TypeOK
<1>1. BInv => TypeOK
  BY DEF BInv
<1> QED BY <1>1, BuildsInit, BuildsNext, PTL DEF Spec

(* An image tagged with a commit was built from what the branch held when   *)
(* that commit was pushed or later, also when its build had been terminated.*)
THEOREM ImagesAreOfTheBranch == Spec => []ImageFromBranch
<1>1. BInv => ImageFromBranch
  BY DEF BInv, ImagesOK, ImageFromBranch, Stored
<1> QED BY <1>1, BuildsInit, BuildsNext, PTL DEF Spec

(* A build that has closed leaves no directory on the worker, unless a fault*)
(* or a termination has hit it.                                             *)
THEOREM WorkspacesAreRemoved == Spec => []WorkspaceRemoved
<1>1. BInv => WorkspaceRemoved
  BY DEF BInv, BuildOK, LeftOK, WorkspaceRemoved, Open, Steps, Sourced
<1> QED BY <1>1, BuildsInit, BuildsNext, PTL DEF Spec

-----------------------------------------------------------------------------
(* What the builds answer.                                                  *)

LEMMA AnswerIs ==
  ASSUME NEW d \in Builds
  PROVE  /\ build[d].step = "none" => Answer[d] = "none"
         /\ build[d].step = "success" => Answer[d] = build[d].tag
         /\ build[d].step \in Steps => Answer[d] = "open"
         /\ build[d].step \in {"failed", "terminated"} => Answer[d] = "failed"
  BY DEF Answer, Open, Steps

LEMMA AnswerIsNext ==
  ASSUME NEW d \in Builds
  PROVE  /\ (build[d].step)' = "none" => Answer'[d] = "none"
         /\ (build[d].step)' = "success" => Answer'[d] = (build[d].tag)'
         /\ (build[d].step)' \in Steps => Answer'[d] = "open"
         /\ (build[d].step)' \in {"failed", "terminated"} => Answer'[d] = "failed"
  BY DEF Answer, Open, Steps

(* A build whose step and tag are as they were answers as it did.           *)
LEMMA SameAnswer ==
  ASSUME NEW e \in Builds, build'[e].step = build[e].step, build'[e].tag = build[e].tag
  PROVE  Answer'[e] = Answer[e]
  BY DEF Answer, Open

LEMMA AnswersStay ==
  ASSUME \A e \in Builds : Answer'[e] = Answer[e]
  PROVE  Answer' = Answer
  BY DEF Answer

(* What is new in the answers is the answer of d.                           *)
LEMMA OneAnswers ==
  ASSUME NEW d \in Builds, NEW w, Answer'[d] = w,
         \A e \in Builds \ {d} : Answer'[e] = Answer[e]
  PROVE  Answer' = [Answer EXCEPT ![d] = w]
<1>1. Answer = [e \in Builds |-> Answer[e]] /\ Answer' = [e \in Builds |-> Answer'[e]]
  BY DEF Answer
<1> QED BY <1>1

LEMMA OnlyOneAnswers ==
  ASSUME TypeOK, NEW d \in Builds, NEW r, build' = [build EXCEPT ![d] = r]
  PROVE  /\ build'[d] = r
         /\ \A e \in Builds \ {d} : Answer'[e] = Answer[e]
<1>1. build'[d] = r /\ \A e \in Builds \ {d} : build'[e] = build[e]
  BY DEF TypeOK
<1> QED BY <1>1, SameAnswer

LEMMA PublishedStays == image' = image => Published' = Published
  BY DEF Published

LEMMA PublishedGrows ==
  ASSUME TypeOK, NEW c \in Commits, NEW s, s # NoCommit, Store(c, s)
  PROVE  Published' = Published \cup {c}
  BY DEF TypeOK, Published, Store

(* A step of d that ends where build[d] is r.                               *)
LEMMA OpenStays ==
  ASSUME TypeOK, NEW d \in Builds, NEW r, build' = [build EXCEPT ![d] = r],
         build[d].step \in Steps, r.step \in Steps
  PROVE  Answer' = Answer
<1>1. build'[d] = r /\ \A e \in Builds \ {d} : Answer'[e] = Answer[e]
  BY OnlyOneAnswers
<1>2. Answer'[d] = Answer[d]
  BY <1>1, AnswerIs, AnswerIsNext
<1> QED BY <1>1, <1>2, AnswersStay

LEMMA Ends ==
  ASSUME TypeOK, NEW d \in Builds, NEW r, build' = [build EXCEPT ![d] = r],
         build[d].step \in Steps, r.step \in {"success", "failed", "terminated"},
         image' = image, r.step = "success" => r.tag \in Published /\ r.tag \in Commits
  PROVE  Cache!CacheNext
<1>1. build'[d] = r /\ \A e \in Builds \ {d} : Answer'[e] = Answer[e]
  BY OnlyOneAnswers
<1>2. Answer[d] = "open" /\ Published' = Published
  BY AnswerIs, PublishedStays
<1>3. CASE r.step = "success"
  <2>1. Answer'[d] = r.tag
    BY <1>1, <1>3, AnswerIsNext
  <2>2. Answer' = [Answer EXCEPT ![d] = r.tag]
    BY <1>1, <2>1, OneAnswers
  <2>3. Cache!Return(d, r.tag)
    BY <1>2, <1>3, <2>2 DEF Cache!Return
  <2> QED BY <1>3, <2>3 DEF Cache!CacheNext
<1>4. CASE r.step # "success"
  <2>1. Answer'[d] = "failed"
    BY <1>1, <1>4, AnswerIsNext
  <2>2. Answer' = [Answer EXCEPT ![d] = "failed"]
    BY <1>1, <2>1, OneAnswers
  <2>3. Cache!GiveUp(d)
    BY <1>2, <2>2 DEF Cache!GiveUp
  <2> QED BY <2>3 DEF Cache!CacheNext
<1> QED BY <1>3, <1>4

(* Nothing that is asked of a build changes.                                *)
LEMMA Stutters ==
  ASSUME Answer' = Answer, image' = image
  PROVE  UNCHANGED Cache!cacheVars
  BY PublishedStays DEF Cache!cacheVars

LEMMA GoCache ==
  ASSUME TypeOK, NEW d \in Builds, NEW s \in Steps \cup {"failed"}, Go(d, s),
         build[d].step \in Steps, image' = image
  PROVE  [Cache!CacheNext]_(Cache!cacheVars)
<1> DEFINE r == [build[d] EXCEPT !.step = s, !.tries = 0]
<1>1. build' = [build EXCEPT ![d] = r] /\ r.step = s
  BY DEF Go, TypeOK, BuildType
<1> HIDE DEF r
<1>2. CASE s \in Steps
  BY <1>1, <1>2, OpenStays, Stutters
<1>3. CASE s = "failed"
  BY <1>1, <1>3, Ends
<1> QED BY <1>2, <1>3

LEMMA CleanUpAnswer ==
  ASSUME TypeOK, NEW d \in Builds, NEW after, CleanUp(d, after), build[d].step \in Steps
  PROVE  Answer' = Answer
<1> DEFINE r == [build[d] EXCEPT !.step = "cleanup", !.tries = 0, !.after = after]
<1>1. build' = [build EXCEPT ![d] = r] /\ r.step = "cleanup"
  BY DEF CleanUp, TypeOK, BuildType
<1> HIDE DEF r
<1> QED BY <1>1, OpenStays DEF Steps

LEMMA BuildStepCache ==
  ASSUME BInv, NEW d \in Builds, BuildStep(d)
  PROVE  [Cache!CacheNext]_(Cache!cacheVars)
<1> USE DEF BInv
<1> DEFINE b == build[d]
<1>0. /\ TypeOK /\ b \in BuildType /\ build \in [Builds -> BuildType]
  BY DEF TypeOK
<1>1. CASE ResolveImageRef(d)
  BY <1>0, <1>1, GoCache DEF ResolveImageRef, Steps
<1>2. CASE SkipBuild(d)
  <2> DEFINE r == [b EXCEPT !.step = "success", !.tag = b.input]
  <2>1. /\ build' = [build EXCEPT ![d] = r] /\ r.step = "success" /\ r.tag = b.input
        /\ image' = image /\ b.step \in Steps
    BY <1>0, <1>2 DEF SkipBuild, BuildType, Steps
  <2>2. b.input \in Commits /\ b.input \in Published
    BY <1>0, <1>2 DEF SkipBuild, Stored, Published, BuildOK, InputOK, BuildType, TypeOK,
                      MaybeCommit, LeftOK
  <2> HIDE DEF r
  <2> QED BY <1>0, <2>1, <2>2, Ends
<1>3. CASE NoSkip(d)
  BY <1>0, <1>3, GoCache DEF NoSkip, Steps
<1>4. CASE CloneRepo(d)
  <2>1. PICK r : build' = [build EXCEPT ![d] = r] /\ r.step \in Steps
    <3> DEFINE r1 == [b EXCEPT !.step = "resolve", !.tries = 0, !.used = b.used + 1,
                               !.dir = b.used + 1, !.tag = Label(d)]
               r2 == [b EXCEPT !.tries = 1, !.used = b.used + 1]
    <3>1. r1.step = "resolve" /\ r2.step = "clone"
      BY <1>0, <1>4 DEF CloneRepo, BuildType
    <3>2. build' = [build EXCEPT ![d] = r1] \/ build' = [build EXCEPT ![d] = r2]
      BY <1>0, <1>4 DEF CloneRepo
    <3> HIDE DEF r1, r2
    <3> QED BY <3>1, <3>2 DEF Steps
  <2> QED BY <1>0, <1>4, <2>1, OpenStays, Stutters DEF CloneRepo, Steps
<1>5. CASE CloneFails(d)
  BY <1>0, <1>5, GoCache DEF CloneFails, Steps
<1>6. CASE ResolveBuildContext(d)
  BY <1>0, <1>6, GoCache DEF ResolveBuildContext, Steps
<1>7. CASE ResolveFails(d)
  BY <1>0, <1>7, CleanUpAnswer, Stutters DEF ResolveFails, Steps
<1>8. CASE ImageExists(d)
  <2>1. image' = image /\ b.step \in Steps
    BY <1>8 DEF ImageExists, Steps
  <2>2. CASE CleanUp(d, "success")
    BY <1>0, <2>1, <2>2, CleanUpAnswer, Stutters
  <2>3. CASE Go(d, "image")
    BY <1>0, <2>1, <2>3, GoCache DEF Steps
  <2> QED BY <1>8, <2>2, <2>3 DEF ImageExists
<1>9. CASE BuildImage(d)
  <2>1. Answer' = Answer
    <3>1. CASE CleanUp(d, "success")
      BY <1>0, <1>9, <3>1, CleanUpAnswer DEF BuildImage, Steps
    <3>2. CASE build' = [build EXCEPT ![d].tries = 1]
      <4> DEFINE r == [b EXCEPT !.tries = 1]
      <4>1. build' = [build EXCEPT ![d] = r] /\ r.step = "image"
        BY <1>0, <1>9, <3>2 DEF BuildImage, BuildType
      <4> HIDE DEF r
      <4> QED BY <1>0, <1>9, <4>1, OpenStays DEF BuildImage, Steps
    <3> QED BY <1>9, <3>1, <3>2 DEF BuildImage
  <2>2. b.tag \in Commits /\ disk[d][b.dir] # NoCommit /\ Store(b.tag, disk[d][b.dir])
    <3>1. b.step \in Sourced
      BY <1>9 DEF BuildImage, Sourced
    <3>2. b.tag \in Commits /\ disk[d][b.dir] \in since[b.tag]
      BY <1>9, <3>1 DEF BuildOK, SourceOK, BuildImage, SourceThere, Pushed
    <3> QED BY <1>9, <3>2, NoCommitOK DEF TypeOK, PushTypeOK, BuildImage
  <2>3. Published' = Published \cup {b.tag}
    BY <1>0, <2>2, PublishedGrows
  <2> QED BY <2>1, <2>2, <2>3 DEF Cache!CacheNext, Cache!Publish
<1>10. CASE BuildFails(d)
  BY <1>0, <1>10, CleanUpAnswer, Stutters DEF BuildFails, Steps
<1>11. CASE CleanupSource(d)
  <2>0. image' = image /\ b.step = "cleanup" /\ b.step \in Steps
    BY <1>11 DEF CleanupSource, Steps
  <2>1. CASE b.after = "again"
    <3> DEFINE r == [b EXCEPT !.step = "clone", !.tries = 0, !.round = 2]
    <3>1. build' = [build EXCEPT ![d] = r] /\ r.step = "clone"
      BY <1>0, <1>11, <2>1 DEF CleanupSource, AfterCleanup, BuildType
    <3> HIDE DEF r
    <3> QED BY <1>0, <2>0, <3>1, OpenStays, Stutters DEF Steps
  <2>2. CASE b.after # "again"
    <3> DEFINE r == [b EXCEPT !.step = b.after]
    <3>1. build' = [build EXCEPT ![d] = r] /\ r.step = b.after /\ r.tag = b.tag
          /\ b.after \in {"success", "failed"}
      BY <1>0, <1>11, <2>2 DEF CleanupSource, AfterCleanup, BuildType
    <3>2. b.after = "success" => b.tag \in Published /\ b.tag \in Commits
      BY <2>0 DEF BuildOK, EndOK, SourceOK, Sourced, Published, Pushed
    <3> HIDE DEF r
    <3> QED BY <1>0, <2>0, <3>1, <3>2, Ends
  <2> QED BY <2>1, <2>2
<1> QED BY <1>1, <1>2, <1>3, <1>4, <1>5, <1>6, <1>7, <1>8, <1>9, <1>10, <1>11 DEF BuildStep

LEMMA StartBuildCache ==
  ASSUME BInv, NEW d \in Builds, NEW c \in MaybeCommit, StartBuild(d, c)
  PROVE  Cache!CacheNext
<1>1. \A e \in Builds : build[e] \in BuildType
  BY DEF BInv, TypeOK
<1>2. \A e \in Builds \ {d} : Answer'[e] = Answer[e]
  <2> SUFFICES ASSUME NEW e \in Builds \ {d} PROVE Answer'[e] = Answer[e]
    OBVIOUS
  <2>1. build'[e] = Orphaned(d, e)
    BY DEF StartBuild
  <2>2. build'[e].step = build[e].step /\ build'[e].tag = build[e].tag
    BY <1>1, <2>1 DEF Orphaned, BuildType
  <2> QED BY <2>2, SameAnswer
<1>3. build'[d].step \in {"clone", "ref"}
  BY DEF StartBuild, NoBuild
<1>4. Answer[d] = "none" /\ Answer'[d] = "open"
  BY <1>3, AnswerIs, AnswerIsNext DEF StartBuild, Steps
<1>5. Answer' = [Answer EXCEPT ![d] = "open"]
  BY <1>2, <1>4, OneAnswers
<1>6. Published' = Published
  BY PublishedStays DEF StartBuild
<1> QED BY <1>4, <1>5, <1>6 DEF Cache!CacheNext, Cache!Begin

LEMMA TerminateCache ==
  ASSUME BInv, NEW d \in Builds, Terminate(d)
  PROVE  Cache!CacheNext
<1> DEFINE r == [build[d] EXCEPT !.step = "terminated"]
<1>1. /\ build' = [build EXCEPT ![d] = r] /\ r.step = "terminated"
      /\ build[d].step \in Steps /\ image' = image /\ TypeOK
  BY DEF Terminate, Open, BInv, TypeOK, BuildType
<1> HIDE DEF r
<1> QED BY <1>1, Ends

LEMMA NextIsOfTheCache == BInv /\ [Next]_vars => [Cache!CacheNext]_(Cache!cacheVars)
<1> SUFFICES ASSUME BInv, [Next]_vars PROVE [Cache!CacheNext]_(Cache!cacheVars)
  OBVIOUS
<1>1. ASSUME NEW d \in Builds, BuildStep(d) PROVE [Cache!CacheNext]_(Cache!cacheVars)
  BY <1>1, BuildStepCache
<1>2. ASSUME NEW d \in Builds, NEW c \in MaybeCommit, StartBuild(d, c)
      PROVE  [Cache!CacheNext]_(Cache!cacheVars)
  BY <1>2, StartBuildCache
<1>3. ASSUME NEW d \in Builds, Terminate(d) PROVE [Cache!CacheNext]_(Cache!cacheVars)
  BY <1>3, TerminateCache
<1>4. ASSUME NEW s \in stray, StrayLands(s) \/ StrayEnds(s)
      PROVE  [Cache!CacheNext]_(Cache!cacheVars)
  <2>0. Answer' = Answer
    BY <1>4, SameAnswer, AnswersStay DEF StrayLands, StrayEnds
  <2>1. CASE StrayLands(s)
    <3>1. s[1] \in Commits /\ s[2] # NoCommit /\ Store(s[1], s[2])
      BY <2>1, NoCommitOK DEF StrayLands, BInv, TypeOK
    <3>2. Published' = Published \cup {s[1]}
      BY <3>1, PublishedGrows DEF BInv
    <3> QED BY <2>0, <3>1, <3>2 DEF Cache!CacheNext, Cache!Publish
  <2>2. CASE StrayEnds(s)
    BY <2>0, <2>2, Stutters DEF StrayEnds
  <2> QED BY <1>4, <2>1, <2>2
<1>5. CASE /\ image' = image
           /\ \A e \in Builds :
                build'[e].step = build[e].step /\ build'[e].tag = build[e].tag
  BY <1>5, SameAnswer, AnswersStay, Stutters
<1>6. CASE DeleteService
  <2>1. image' = image
    BY <1>6 DEF DeleteService
  <2>2. \A e \in Builds : build'[e].step = build[e].step /\ build'[e].tag = build[e].tag
    <3> SUFFICES ASSUME NEW e \in Builds
                 PROVE  build'[e].step = build[e].step /\ build'[e].tag = build[e].tag
      OBVIOUS
    <3>1. build[e] \in BuildType
      BY DEF BInv, TypeOK
    <3>2. build'[e] = [build[e] EXCEPT !.orphan = build[e].orphan \/ Open(e)]
      BY <1>6, <3>1 DEF DeleteService, BuildType
    <3> QED BY <3>1, <3>2 DEF BuildType
  <2> QED BY <1>5, <2>1, <2>2
<1>7. CASE \/ RestartWorker \/ \E c \in Commits : CollectImage(c)
           \/ (PushNext /\ UNCHANGED buildVars) \/ UNCHANGED vars
  BY <1>5, <1>7 DEF RestartWorker, CollectImage, buildVars, vars
<1> QED BY <1>1, <1>2, <1>3, <1>4, <1>6, <1>7 DEF Next, BuildNext

LEMMA InitIsOfTheCache == Init => Cache!CacheInit
<1> SUFFICES ASSUME Init PROVE Cache!CacheInit
  OBVIOUS
<1>1. Published = {}
  BY DEF Init, BuildInit, Published
<1>2. \A d \in Builds : build[d].step = "none"
  BY DEF Init, BuildInit, NoBuild
<1>3. \A d \in Builds : Answer[d] = "none"
  BY <1>2, AnswerIs
<1>4. Answer = [d \in Builds |-> "none"]
  <2>1. Answer = [d \in Builds |-> Answer[d]]
    BY DEF Answer
  <2> QED BY <1>3, <2>1
<1> QED BY <1>1, <1>4 DEF Cache!CacheInit

(* Builds implement ImageCache: a deployment is only given images that were *)
(* built, and a build answers once.                                         *)
THEOREM BuildsImplementTheCache == Spec => ImplementsCache
<1> QED BY BuildsInit, BuildsNext, InitIsOfTheCache, NextIsOfTheCache, PTL
           DEF Spec, ImplementsCache, Cache!CacheSpec

-----------------------------------------------------------------------------
(* Builds end.                                                              *)

LEMMA StepsLeftOf ==
  ASSUME NEW b \in BuildType
  PROVE  /\ b.step \notin Steps => StepsLeft(b) = 0
         /\ b.step = "cleanup" => StepsLeft(b) = 14 * (2 - b.round) + 2 - b.tries
         /\ b.step = "image"   => StepsLeft(b) = 14 * (2 - b.round) + 4 - b.tries
         /\ b.step = "exists"  => StepsLeft(b) = 14 * (2 - b.round) + 6 - b.tries
         /\ b.step = "resolve" => StepsLeft(b) = 14 * (2 - b.round) + 8 - b.tries
         /\ b.step = "clone"   => StepsLeft(b) = 14 * (2 - b.round) + 10 - b.tries
         /\ b.step = "skip"    => StepsLeft(b) = 14 * (2 - b.round) + 12 - b.tries
         /\ b.step = "ref"     => StepsLeft(b) = 14 * (2 - b.round) + 14 - b.tries
         /\ b.round \in 1..2 /\ b.tries \in 0..1
  BY DEF StepsLeft, Steps, BuildType, Rounds

(* One build goes on: either it comes nearer to its end, or only its        *)
(* deployment has closed.                                                   *)
Descends(d) ==
  \/ StepsLeft(build'[d]) < StepsLeft(build[d])
  \/ build'[d] = [build[d] EXCEPT !.orphan = build'[d].orphan]

LEMMA OrphanDescends ==
  ASSUME NEW d \in Builds, build[d] \in BuildType, NEW o,
         build'[d] = [build[d] EXCEPT !.orphan = o]
  PROVE  Descends(d)
<1>1. build'[d].orphan = o
  BY DEF BuildType
<1> QED BY <1>1 DEF Descends

LEMMA UnchangedDescends ==
  ASSUME NEW d \in Builds, build[d] \in BuildType, build'[d] = build[d]
  PROVE  Descends(d)
<1>1. build[d] = [build[d] EXCEPT !.orphan = build[d].orphan]
  BY DEF BuildType
<1> QED BY <1>1, OrphanDescends

LEMMA OtherDescends ==
  ASSUME TypeOK, NEW d \in Builds, NEW e \in Builds \ {d}, NEW r,
         build' = [build EXCEPT ![d] = r]
  PROVE  Descends(e)
<1>1. build'[e] = build[e] /\ build[e] \in BuildType
  BY DEF TypeOK
<1> QED BY <1>1, UnchangedDescends

(* The steps at which a build may be, from the last to the first.           *)
Later(s) ==
  CASE s = "ref"     -> {"skip", "clone", "resolve", "exists", "image", "cleanup"}
    [] s = "skip"    -> {"clone", "resolve", "exists", "image", "cleanup"}
    [] s = "clone"   -> {"resolve", "exists", "image", "cleanup"}
    [] s = "resolve" -> {"exists", "image", "cleanup"}
    [] s = "exists"  -> {"image", "cleanup"}
    [] s = "image"   -> {"cleanup"}
    [] OTHER         -> {}

(* A build that goes on to a later step, or ends, or begins its second round*)
(* or attempts its step again, comes nearer to its end.                     *)
LEMMA Nearer ==
  ASSUME NEW b \in BuildType, NEW r \in BuildType, b.step \in Steps,
         \/ r.step \in Later(b.step) /\ r.round = b.round
         \/ r.step \notin Steps
         \/ r.step = b.step /\ r.round = b.round /\ b.tries = 0 /\ r.tries = 1
         \/ b.step = "cleanup" /\ r.step = "clone" /\ b.round = 1 /\ r.round = 2
  PROVE  StepsLeft(r) < StepsLeft(b)
<1>1. /\ b.round \in 1..2 /\ b.tries \in 0..1 /\ r.round \in 1..2 /\ r.tries \in 0..1
  BY StepsLeftOf
<1>2. CASE r.step \notin Steps
  BY <1>1, <1>2, StepsLeftOf DEF Steps
<1>3. CASE r.step = b.step /\ r.round = b.round /\ b.tries = 0 /\ r.tries = 1
  BY <1>1, <1>3, StepsLeftOf DEF Steps
<1>4. CASE b.step = "cleanup" /\ r.step = "clone" /\ b.round = 1 /\ r.round = 2
  BY <1>1, <1>4, StepsLeftOf
<1>5. CASE r.step \in Later(b.step) /\ r.round = b.round
  <2>1. CASE b.step = "ref"
    BY <1>1, <1>5, <2>1, StepsLeftOf DEF Later
  <2>2. CASE b.step = "skip"
    BY <1>1, <1>5, <2>2, StepsLeftOf DEF Later
  <2>3. CASE b.step = "clone"
    BY <1>1, <1>5, <2>3, StepsLeftOf DEF Later
  <2>4. CASE b.step = "resolve"
    BY <1>1, <1>5, <2>4, StepsLeftOf DEF Later
  <2>5. CASE b.step = "exists"
    BY <1>1, <1>5, <2>5, StepsLeftOf DEF Later
  <2>6. CASE b.step \in {"image", "cleanup"}
    BY <1>1, <1>5, <2>6, StepsLeftOf DEF Later
  <2> QED BY <2>1, <2>2, <2>3, <2>4, <2>5, <2>6 DEF Steps
<1> QED BY <1>2, <1>3, <1>4, <1>5

LEMMA GoDescends ==
  ASSUME TypeOK, NEW d \in Builds, NEW s, Go(d, s), build[d].step \in Steps,
         build'[d] \in BuildType, s \in Later(build[d].step) \cup {"failed"}
  PROVE  StepsLeft(build'[d]) < StepsLeft(build[d])
<1>1. build[d] \in BuildType /\ build'[d].step = s /\ build'[d].round = build[d].round
  BY DEF TypeOK, BuildType, Go
<1>2. "failed" \notin Steps
  BY DEF Steps
<1> QED BY <1>1, <1>2, Nearer

LEMMA CleanUpDescends ==
  ASSUME TypeOK, NEW d \in Builds, NEW after, CleanUp(d, after),
         build[d].step \in {"resolve", "exists", "image"}, build'[d] \in BuildType
  PROVE  StepsLeft(build'[d]) < StepsLeft(build[d])
<1>1. /\ build[d] \in BuildType /\ build'[d].step = "cleanup"
      /\ build'[d].round = build[d].round
  BY DEF TypeOK, BuildType, CleanUp
<1>2. build[d].step \in Steps /\ "cleanup" \in Later(build[d].step)
  BY DEF Steps, Later
<1> QED BY <1>1, <1>2, Nearer

LEMMA StepDescends ==
  ASSUME BInv, BInv', NEW d \in Builds, BuildStep(d)
  PROVE  /\ StepsLeft(build'[d]) < StepsLeft(build[d])
         /\ \A e \in Builds \ {d} : build'[e] = build[e]
<1> DEFINE b == build[d]
<1>0. /\ TypeOK /\ b \in BuildType /\ build \in [Builds -> BuildType] /\ build'[d] \in BuildType
  BY DEF BInv, TypeOK
<1>1. \A e \in Builds \ {d} : build'[e] = build[e]
  BY <1>0 DEF BuildStep, Go, CleanUp, ResolveImageRef, SkipBuild, NoSkip, CloneRepo, CloneFails,
              ResolveBuildContext, ResolveFails, ImageExists, BuildImage, BuildFails,
              CleanupSource, AfterCleanup
<1>2. CASE SkipBuild(d)
  <2>1. b.step \in Steps /\ build'[d].step = "success" /\ "success" \notin Steps
    BY <1>0, <1>2 DEF SkipBuild, BuildType, Steps
  <2> QED BY <1>0, <1>1, <2>1, Nearer
<1>3. CASE ResolveImageRef(d) \/ NoSkip(d) \/ CloneFails(d) \/ ResolveBuildContext(d)
  <2>1. PICK s : Go(d, s) /\ b.step \in Steps /\ s \in Later(b.step) \cup {"failed"}
    BY <1>3 DEF ResolveImageRef, NoSkip, CloneFails, ResolveBuildContext, Steps, Later
  <2> QED BY <1>0, <1>1, <2>1, GoDescends
<1>4. CASE CloneRepo(d)
  <2>1. b.step = "clone" /\ b.step \in Steps /\ "resolve" \in Later("clone")
    BY <1>4 DEF CloneRepo, Steps, Later
  <2>2. \/ build'[d].step = "resolve" /\ build'[d].round = b.round
        \/ /\ build'[d].step = "clone" /\ build'[d].round = b.round
           /\ b.tries = 0 /\ build'[d].tries = 1
    BY <1>0, <1>4 DEF CloneRepo, BuildType
  <2> QED BY <1>0, <1>1, <2>1, <2>2, Nearer
<1>5. CASE ResolveFails(d) \/ BuildFails(d)
  <2>1. PICK after : CleanUp(d, after) /\ b.step \in {"resolve", "exists", "image"}
    BY <1>5 DEF ResolveFails, BuildFails
  <2> QED BY <1>0, <1>1, <2>1, CleanUpDescends
<1>6. CASE ImageExists(d)
  <2>1. b.step = "exists" /\ b.step \in Steps /\ "image" \in Later("exists")
    BY <1>6 DEF ImageExists, Steps, Later
  <2>2. CASE CleanUp(d, "success")
    BY <1>0, <1>1, <2>1, <2>2, CleanUpDescends
  <2>3. CASE Go(d, "image")
    BY <1>0, <1>1, <2>1, <2>3, GoDescends
  <2> QED BY <1>6, <2>2, <2>3 DEF ImageExists
<1>7. CASE BuildImage(d)
  <2>1. b.step = "image" /\ b.step \in Steps
    BY <1>7 DEF BuildImage, Steps
  <2>2. CASE CleanUp(d, "success")
    BY <1>0, <1>1, <2>1, <2>2, CleanUpDescends
  <2>3. CASE b.tries = 0 /\ build' = [build EXCEPT ![d].tries = 1]
    <3>1. build'[d].step = b.step /\ build'[d].round = b.round /\ build'[d].tries = 1
      BY <1>0, <2>3 DEF BuildType
    <3> QED BY <1>0, <1>1, <2>1, <2>3, <3>1, Nearer
  <2> QED BY <1>7, <2>2, <2>3 DEF BuildImage
<1>8. CASE CleanupSource(d)
  <2>1. b.step = "cleanup" /\ b.step \in Steps /\ (b.after = "again" => b.round = 1)
    BY <1>8 DEF CleanupSource, BInv, BuildOK, EndOK, Steps
  <2>2. CASE b.after = "again"
    <3>1. build'[d].step = "clone" /\ build'[d].round = 2
      BY <1>0, <1>8, <2>2 DEF CleanupSource, AfterCleanup, BuildType
    <3> QED BY <1>0, <1>1, <2>1, <2>2, <3>1, Nearer
  <2>3. CASE b.after # "again"
    <3>1. build'[d].step \notin Steps
      BY <1>0, <1>8, <2>3 DEF CleanupSource, AfterCleanup, BuildType, Steps
    <3> QED BY <1>0, <1>1, <2>1, <3>1, Nearer
  <2> QED BY <2>2, <2>3
<1> QED BY <1>1, <1>2, <1>3, <1>4, <1>5, <1>6, <1>7, <1>8 DEF BuildStep

LEMMA NextDescends ==
  ASSUME BInv, BInv', Next, NEW e \in Builds, Open(e)
  PROVE  Descends(e)
<1>0. build \in [Builds -> BuildType] /\ build[e] \in BuildType /\ build'[e] \in BuildType
  BY DEF BInv, TypeOK
<1>1. ASSUME NEW d \in Builds, BuildStep(d) PROVE Descends(e)
  <2>1. CASE e = d
    BY <1>1, <2>1, StepDescends DEF Descends
  <2>2. CASE e # d
    BY <1>0, <1>1, <2>2, StepDescends, UnchangedDescends
  <2> QED BY <2>1, <2>2
<1>2. ASSUME NEW d \in Builds, NEW c \in MaybeCommit, StartBuild(d, c) PROVE Descends(e)
  <2>1. e # d
    BY <1>2 DEF StartBuild, Open, Steps
  <2>2. build'[e] = [build[e] EXCEPT !.orphan = build[e].orphan \/ (e # d /\ Open(e))]
    BY <1>0, <1>2, <2>1 DEF StartBuild, Orphaned, BuildType
  <2> QED BY <1>0, <2>2, OrphanDescends
<1>3. ASSUME NEW d \in Builds, Terminate(d) PROVE Descends(e)
  <2>1. CASE e = d
    <3>1. build'[e].step \notin Steps
      BY <1>0, <1>3, <2>1 DEF Terminate, BuildType, Steps
    <3> QED BY <1>0, <3>1, Nearer DEF Open, Descends
  <2>2. CASE e # d
    <3>1. build'[e] = build[e]
      BY <1>0, <1>3, <2>2 DEF Terminate
    <3> QED BY <1>0, <3>1, UnchangedDescends
  <2> QED BY <2>1, <2>2
<1>4. CASE DeleteService
  <2>1. build'[e] = [build[e] EXCEPT !.orphan = build[e].orphan \/ Open(e)]
    BY <1>0, <1>4 DEF DeleteService, BuildType
  <2> QED BY <1>0, <2>1, OrphanDescends
<1>5. CASE UNCHANGED build
  BY <1>0, <1>5, UnchangedDescends
<1> QED BY <1>1, <1>2, <1>3, <1>4, <1>5
       DEF Next, BuildNext, StrayLands, StrayEnds, RestartWorker, CollectImage, buildVars

(* Every step of an open build brings it nearer to its end.                 *)
THEOREM BuildsDescend == Spec => OpenBuildsDescend
<1> DEFINE D == \A d \in Builds : Open(d) => Descends(d)
<1>1. BInv /\ BInv' /\ [Next]_vars => [D]_vars
  BY NextDescends
<1>2. D => \A d \in Builds : Open(d) =>
             \/ StepsLeft(build'[d]) < StepsLeft(build[d])
             \/ build'[d] = [build[d] EXCEPT !.orphan = build'[d].orphan]
  BY DEF Descends
<1> HIDE DEF D
<1> QED BY <1>1, <1>2, BuildsInit, BuildsNext, PTL DEF Spec, OpenBuildsDescend

-----------------------------------------------------------------------------
(* The directories of a build.                                              *)

(* A round makes at most two of them, the second when the report of the     *)
(* first attempt was lost.                                                  *)
RoomOK(b) ==
  /\ b.step \in {"none", "ref", "skip"} => b.used = 0 /\ b.tries = 0
  /\ b.step = "clone" => b.used <= 2 * (b.round - 1) + b.tries
  /\ b.step \in Sourced => b.used <= 2 * b.round

Room == \A d \in Builds : RoomOK(build[d])

LEMMA OrphanRoom ==
  ASSUME NEW b \in BuildType, RoomOK(b), NEW o
  PROVE  RoomOK([b EXCEPT !.orphan = o])
<1> DEFINE r == [b EXCEPT !.orphan = o]
<1>1. /\ r.step = b.step /\ r.used = b.used /\ r.tries = b.tries /\ r.round = b.round
  BY DEF BuildType
<1> HIDE DEF r
<1> QED BY <1>1 DEF RoomOK

LEMMA StepRoom ==
  ASSUME BInv, Room, NEW d \in Builds, BuildStep(d)
  PROVE  RoomOK(build'[d])
<1> DEFINE b == build[d]
           r == build'[d]
<1>0. /\ b \in BuildType /\ build \in [Builds -> BuildType] /\ RoomOK(b)
      /\ b.used \in 0..4 /\ b.tries \in 0..1 /\ b.round \in 1..2
  BY DEF BInv, TypeOK, Room, BuildType, Rounds, Dirs
<1>1. CASE ResolveImageRef(d) \/ NoSkip(d)
  <2>1. /\ b.step \in {"ref", "skip"} /\ r.step \in {"skip", "clone"}
        /\ r.used = b.used /\ r.tries = 0 /\ r.round = b.round
    BY <1>0, <1>1 DEF ResolveImageRef, NoSkip, Go, BuildType
  <2> QED BY <1>0, <2>1 DEF RoomOK, Sourced
<1>2. CASE SkipBuild(d) \/ CloneFails(d)
  <2>1. r.step \in {"success", "failed"}
    BY <1>0, <1>2 DEF SkipBuild, CloneFails, Go, BuildType
  <2> QED BY <2>1 DEF RoomOK, Sourced
<1>3. CASE CloneRepo(d)
  <2>1. /\ b.step = "clone" /\ r.used = b.used + 1 /\ r.round = b.round
        /\ \/ r.step = "resolve"
           \/ r.step = "clone" /\ r.tries = 1 /\ b.tries = 0
    BY <1>0, <1>3 DEF CloneRepo, BuildType
  <2> QED BY <1>0, <2>1 DEF RoomOK, Sourced
<1>4. CASE ResolveBuildContext(d) \/ ResolveFails(d) \/ ImageExists(d) \/ BuildImage(d)
           \/ BuildFails(d)
  <2>1. /\ b.step \in Sourced /\ r.step \in Sourced
        /\ r.used = b.used /\ r.round = b.round
    BY <1>0, <1>4 DEF ResolveBuildContext, ResolveFails, ImageExists, BuildImage, BuildFails,
                      Go, CleanUp, BuildType, Sourced
  <2> QED BY <1>0, <2>1 DEF RoomOK, Sourced
<1>5. CASE CleanupSource(d)
  <2>1. b.step = "cleanup" /\ (b.after = "again" => b.round = 1)
    BY <1>5 DEF CleanupSource, BInv, BuildOK, EndOK
  <2>2. CASE b.after = "again"
    <3>1. r.step = "clone" /\ r.used = b.used /\ r.tries = 0 /\ r.round = 2
      BY <1>0, <1>5, <2>2 DEF CleanupSource, AfterCleanup, BuildType
    <3> QED BY <1>0, <2>1, <2>2, <3>1 DEF RoomOK, Sourced
  <2>3. CASE b.after # "again"
    <3>1. r.step \in {"success", "failed"}
      BY <1>0, <1>5, <2>3 DEF CleanupSource, AfterCleanup, BuildType
    <3> QED BY <3>1 DEF RoomOK, Sourced
  <2> QED BY <2>2, <2>3
<1> QED BY <1>1, <1>2, <1>3, <1>4, <1>5 DEF BuildStep

LEMMA NextRoom == BInv /\ BInv' /\ Room /\ [Next]_vars => Room'
<1> SUFFICES ASSUME BInv, BInv', Room, [Next]_vars, NEW e \in Builds PROVE RoomOK(build'[e])
  BY DEF Room
<1>0. build \in [Builds -> BuildType] /\ build[e] \in BuildType /\ RoomOK(build[e])
  BY DEF BInv, TypeOK, Room
<1>1. ASSUME NEW d \in Builds, BuildStep(d) PROVE RoomOK(build'[e])
  BY <1>0, <1>1, StepRoom, StepDescends
<1>2. ASSUME NEW d \in Builds, NEW c \in MaybeCommit, StartBuild(d, c)
      PROVE  RoomOK(build'[e])
  <2>1. CASE e = d
    <3>1. /\ build'[e].step \in {"clone", "ref"} /\ build'[e].used = 0
          /\ build'[e].tries = 0 /\ build'[e].round = 1
      BY <1>2, <2>1 DEF StartBuild, NoBuild
    <3> QED BY <3>1 DEF RoomOK, Sourced
  <2>2. CASE e # d
    <3>1. build'[e] = [build[e] EXCEPT !.orphan = build[e].orphan \/ (e # d /\ Open(e))]
      BY <1>0, <1>2, <2>2 DEF StartBuild, Orphaned, BuildType
    <3> QED BY <1>0, <3>1, OrphanRoom
  <2> QED BY <2>1, <2>2
<1>3. ASSUME NEW d \in Builds, Terminate(d) PROVE RoomOK(build'[e])
  <2>1. CASE e = d
    <3>1. build'[e].step = "terminated"
      BY <1>0, <1>3, <2>1 DEF Terminate, BuildType
    <3> QED BY <3>1 DEF RoomOK, Sourced
  <2>2. CASE e # d
    BY <1>0, <1>3, <2>2 DEF Terminate
  <2> QED BY <2>1, <2>2
<1>4. CASE DeleteService
  <2>1. build'[e] = [build[e] EXCEPT !.orphan = build[e].orphan \/ Open(e)]
    BY <1>0, <1>4 DEF DeleteService, BuildType
  <2> QED BY <1>0, <2>1, OrphanRoom
<1>5. CASE UNCHANGED build
  BY <1>0, <1>5
<1> QED BY <1>1, <1>2, <1>3, <1>4, <1>5
       DEF Next, BuildNext, StrayLands, StrayEnds, RestartWorker, CollectImage, buildVars, vars

LEMMA InitRoom == Init => Room
  BY DEF Init, BuildInit, NoBuild, Room, RoomOK, Sourced

(* A build makes at most two directories in a round, and one that is to     *)
(* clone has made fewer than four: the bound Dirs never keeps CloneRepo from*)
(* an attempt.  It is the one condition of BuildStep whose opposite lets no *)
(* other step of the build be taken, of which OpenBuildsGoOn speaks.        *)
CloneHasRoom ==
  \A d \in Builds :
    /\ build[d].used <= 4
    /\ build[d].step = "clone" => build[d].used < 4
    /\ build[d].step \in Sourced => build[d].used <= 2 * build[d].round

THEOREM BuildsHaveRoom == Spec => []CloneHasRoom
<1>1. BInv /\ Room => CloneHasRoom
  <2> SUFFICES ASSUME BInv, Room, NEW d \in Builds
               PROVE  /\ build[d].used <= 4
                      /\ build[d].step = "clone" => build[d].used < 4
                      /\ build[d].step \in Sourced => build[d].used <= 2 * build[d].round
    BY DEF CloneHasRoom
  <2>1. /\ RoomOK(build[d])
        /\ build[d].used \in 0..4 /\ build[d].tries \in 0..1 /\ build[d].round \in 1..2
    BY DEF BInv, TypeOK, Room, BuildType, Rounds, Dirs
  <2> QED BY <2>1 DEF RoomOK
<1> QED BY <1>1, BuildsInit, BuildsNext, InitRoom, NextRoom, PTL DEF Spec

=============================================================================
