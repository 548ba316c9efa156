-------------------------- MODULE SelfUpdateProofs --------------------------
(***************************************************************************)
(* For any number of updaters, releases and helper attempts: what is       *)
(* installed is the release its updater selected, on evidence that nothing *)
(* but the absence of a stronger one can weaken; an update that failed     *)
(* installs nothing; updates are atomic, as AtomicUpdates says; and every   *)
(* step of an update uses something up.                                    *)
(***************************************************************************)
EXTENDS SelfUpdate, TLAPS

Run == [pc : Working \cup Finished \cup {"idle", "staged"}, running : Versions,
        chosen : Versions, offered : Offer, candidate : Image \cup {NoFile},
        digest : Image \cup {NoFile}, evidence : Evidence]
HelperRun == [state : {"none", "waiting", "trying", "installed", "failed", "killed"},
              attempts : 0..MaxAttempts, copy : Image \cup {NoFile}, status : BOOLEAN]

(* The selection is newer than what runs, and nothing that was offered of   *)
(* it has changed since.                                                    *)
Selected(r) == /\ r.chosen \in 2..MaxRelease
               /\ r.chosen > r.running
               /\ Extends(r.offered, origin[r.chosen])
Underway == Working \cup {"staged", "updated", "exited", "recovery", "interrupted"}
NoManifest(r) == r.offered.manifest = "absent"
NoAsset(r)    == NoManifest(r) /\ r.offered.binary = "absent"

RunOK(r) ==
  /\ r.pc \in Underway => Selected(r)
  /\ r.pc \in {"binary", "checksum"} => NoManifest(r)
  /\ r.pc = "cargo" /\ supported => NoAsset(r)
  /\ r.pc = "prepare" => r.digest \in Image /\ r.digest.intact = TRUE
  /\ r.pc \in {"commit", "staged", "updated", "exited", "recovery", "interrupted"} =>
       r.candidate = Release(r.chosen) /\ r.digest = Release(r.chosen)
  /\ r.evidence = "sidecar" => NoManifest(r)
  /\ r.evidence = "cargo" /\ supported => NoAsset(r)

Installed(u) == author = u => /\ up[u].pc \in {"updated", "exited", "recovery", "interrupted"}
                              /\ target = Release(up[u].chosen)
HelperOK(u)  == helper[u].state # "none" => up[u].pc \in {"staged", "exited"}

Genuine(file) == file.intact = TRUE /\ file.version >= 1

UpdateInv ==
  /\ TypeOK
  /\ target = NoFile \/ Genuine(target)
  /\ \A u \in Updaters : RunOK(up[u]) /\ Installed(u) /\ HelperOK(u)

-----------------------------------------------------------------------------
LEMMA RunType == TypeOK <=>
  /\ windows \in BOOLEAN /\ supported \in BOOLEAN
  /\ latest \in 1..MaxRelease /\ origin \in [2..MaxRelease -> Origins]
  /\ target \in Image \cup {NoFile} /\ author \in Updaters \cup {Nobody}
  /\ locked \in BOOLEAN
  /\ up \in [Updaters -> Run] /\ helper \in [Updaters -> HelperRun]
BY DEF TypeOK, Run, HelperRun

LEMMA ReleaseFacts ==
  ASSUME NEW v \in Versions
  PROVE  Release(v) \in Image /\ Release(v).intact = TRUE /\ Release(v).version = v
BY DEF Release, Image

(* Assets only ever appear.                                                 *)
LEMMA ExtendsTransitive ==
  ASSUME NEW o, NEW p, NEW q, Extends(o, p), Extends(p, q)
  PROVE  Extends(o, q)
BY DEF Extends

LEMMA ExtendsAbsent ==
  ASSUME NEW o \in Offer, NEW p \in Offer, Extends(o, p)
  PROVE  /\ p.manifest = "absent" => o.manifest = "absent"
         /\ p.binary = "absent" => o.binary = "absent"
<1>1. o["manifest"] \in {"absent", p["manifest"]} /\ o["binary"] \in {"absent", p["binary"]}
  BY DEF Extends
<1> QED BY <1>1

(* A fresh run is in order in any of the states that end one.               *)
LEMMA FreshRunFacts == FreshRun \in Run /\ FreshRun.evidence = "none"
<1>1. 0 \in Versions
  BY UpdateAssumption DEF Versions
<1>2. [manifest |-> "absent", binary |-> "absent", checksum |-> "absent"] \in Offer
  BY DEF Offer
<1>3. "idle" \in Working \cup Finished \cup {"idle", "staged"} /\ "none" \in Evidence
  BY DEF Finished, Evidence
<1>4. FreshRun \in Run
  BY <1>1, <1>2, <1>3 DEF FreshRun, Run
<1>5. FreshRun.evidence = "none"
  BY DEF FreshRun
<1> QED BY <1>4, <1>5

LEMMA FailedRunOK ==
  /\ [FreshRun EXCEPT !.pc = "failed"] \in Run
  /\ RunOK([FreshRun EXCEPT !.pc = "failed"])
  /\ [FreshRun EXCEPT !.pc = "failed"].pc = "failed"
<1> DEFINE r == [FreshRun EXCEPT !.pc = "failed"]
<1>1. "failed" \in Working \cup Finished \cup {"idle", "staged"}
  BY DEF Finished
<1>2. r \in Run /\ r.pc = "failed" /\ r.evidence = "none"
  BY <1>1, FreshRunFacts DEF Run
<1> HIDE DEF r
<1>3. RunOK(r)
  BY <1>2 DEF RunOK, Underway, Working
<1> QED BY <1>2, <1>3 DEF r

LEMMA KilledRunOK ==
  /\ [FreshRun EXCEPT !.pc = "killed"] \in Run
  /\ RunOK([FreshRun EXCEPT !.pc = "killed"])
<1> DEFINE r == [FreshRun EXCEPT !.pc = "killed"]
<1>1. "killed" \in Working \cup Finished \cup {"idle", "staged"}
  BY DEF Finished
<1>2. r \in Run /\ r.pc = "killed" /\ r.evidence = "none"
  BY <1>1, FreshRunFacts DEF Run
<1> HIDE DEF r
<1>3. RunOK(r)
  BY <1>2 DEF RunOK, Underway, Working
<1> QED BY <1>2, <1>3 DEF r

(* When one updater takes a step of its own, the others are as they were.   *)
LEMMA OneMoves ==
  ASSUME UpdateInv, NEW u \in Updaters, External,
         up' \in [Updaters -> Run],
         \A d \in Updaters \ {u} : up'[d] = up[d],
         RunOK(up'[u]),
         author # u, helper[u].state = "none"
  PROVE  UpdateInv'
<1>1. /\ windows' = windows /\ supported' = supported /\ latest' = latest /\ origin' = origin
      /\ target' = target /\ author' = author /\ locked' = locked /\ helper' = helper
  BY DEF External, facts, world, disk
<1>2. TypeOK'
  <2>1. TypeOK /\ up' \in [Updaters -> Run]
    BY DEF UpdateInv
  <2> QED BY <2>1, <1>1 DEF TypeOK, Run
<1>3. ASSUME NEW d \in Updaters
      PROVE  RunOK(up[d])' /\ Installed(d)' /\ HelperOK(d)'
  <2>1. RunOK(up[d]) /\ Installed(d) /\ HelperOK(d)
    BY DEF UpdateInv
  <2>2. CASE d # u
    <3>1. up'[d] = up[d]
      BY <2>2
    <3> QED BY <1>1, <2>1, <3>1 DEF RunOK, Installed, HelperOK, Selected
  <2>3. CASE d = u
    <3>1. RunOK(up[d])'
      BY <1>1, <2>3 DEF RunOK, Selected
    <3> QED BY <1>1, <2>3, <3>1 DEF Installed, HelperOK
  <2> QED BY <2>2, <2>3
<1> QED BY <1>1, <1>2, <1>3 DEF UpdateInv

(* An updater that is still at work has installed nothing yet.              *)
LEMMA AtWork ==
  ASSUME UpdateInv, NEW u \in Updaters, up[u].pc \in Working \cup {"idle"}
  PROVE  author # u /\ helper[u].state = "none"
BY DEF UpdateInv, Installed, HelperOK, Working

(* A failure, and an interruption, as a step of one updater.                *)
LEMMA Fails ==
  ASSUME UpdateInv, NEW u \in Updaters, Failed(u)
  PROVE  /\ up' \in [Updaters -> Run] /\ \A d \in Updaters \ {u} : up'[d] = up[d]
         /\ RunOK(up'[u]) /\ up'[u].pc = "failed"
<1>1. up \in [Updaters -> Run]
  BY RunType DEF UpdateInv
<1>2. up' = [up EXCEPT ![u] = [FreshRun EXCEPT !.pc = "failed"]]
  BY DEF Failed
<1> DEFINE r == [FreshRun EXCEPT !.pc = "failed"]
<1>3. r \in Run /\ RunOK(r) /\ r.pc = "failed"
  BY FailedRunOK
<1>4. up' = [up EXCEPT ![u] = r]
  BY <1>2
<1> HIDE DEF r
<1> QED BY <1>1, <1>3, <1>4

-----------------------------------------------------------------------------
(* The steps of one updater.                                                *)

SameSelection(r, o) ==
  r.running = o.running /\ r.chosen = o.chosen /\ r.offered = o.offered

LEMMA SelectionKept ==
  ASSUME NEW r, NEW o, SameSelection(r, o)
  PROVE  /\ Selected(o) => Selected(r)
         /\ NoManifest(o) => NoManifest(r)
         /\ NoAsset(o) => NoAsset(r)
BY DEF SameSelection, Selected, NoManifest, NoAsset

(* What is known of the release while an update of it is under way.         *)
LEMMA OfTheRelease ==
  ASSUME UpdateInv, NEW u \in Updaters, up[u].pc \in Underway
  PROVE  /\ Selected(up[u]) /\ up[u].chosen \in Versions
         /\ Release(up[u].chosen) \in Image
         /\ Offered(u).manifest = "absent" => NoManifest(up[u])
         /\ Offered(u).binary = "absent" => up[u].offered.binary = "absent"
         /\ Binary(u) \in Image /\ Binary(u).intact = TRUE
<1>1. Selected(up[u]) /\ up[u] \in Run /\ origin \in [2..MaxRelease -> Origins]
  BY RunType DEF UpdateInv, RunOK
<1>2. /\ up[u].chosen \in 2..MaxRelease /\ MaxRelease \in Nat
      /\ up[u].chosen \in Versions /\ up[u].chosen - 1 \in Versions
      /\ up[u].chosen - 0 \in Versions
  BY <1>1, UpdateAssumption DEF Selected, Versions
<1>3. /\ Offered(u) \in Offer /\ up[u].offered \in Offer
      /\ Extends(up[u].offered, Offered(u))
  <2>1. origin[up[u].chosen] \in Offer
    BY <1>1, <1>2, UpdateAssumption
  <2> QED BY <1>1, <2>1 DEF Offered, Selected, Run
<1>4. Release(up[u].chosen) \in Image
  BY <1>2, ReleaseFacts
<1>5. Binary(u) \in Image /\ Binary(u).intact = TRUE
  <2>1. CASE Offered(u).binary = "stale"
    <3>1. Binary(u) = Release(up[u].chosen - 1)
      BY <2>1 DEF Binary
    <3> QED BY <1>2, <3>1, ReleaseFacts
  <2>2. CASE Offered(u).binary # "stale"
    <3>1. Binary(u) = Release(up[u].chosen - 0)
      BY <2>2 DEF Binary
    <3> QED BY <1>2, <3>1, ReleaseFacts
  <2> QED BY <2>1, <2>2
<1> QED BY <1>1, <1>2, <1>3, <1>4, <1>5, ExtendsAbsent DEF NoManifest

Moved(u) == /\ up' \in [Updaters -> Run]
            /\ \A d \in Updaters \ {u} : up'[d] = up[d]
            /\ RunOK(up'[u])

LEMMA GoingTo ==
  ASSUME UpdateInv, NEW u \in Updaters,
         NEW p \in Working \cup Finished \cup {"idle", "staged"}, GoTo(u, p)
  PROVE  /\ up' \in [Updaters -> Run]
         /\ \A d \in Updaters \ {u} : up'[d] = up[d]
         /\ up'[u].pc = p /\ SameSelection(up'[u], up[u])
         /\ up'[u].candidate = up[u].candidate /\ up'[u].digest = up[u].digest
         /\ up'[u].evidence = up[u].evidence
<1>1. up \in [Updaters -> Run] /\ up[u] \in Run
  BY RunType DEF UpdateInv
<1> DEFINE r == [up[u] EXCEPT !.pc = p]
<1>2. /\ r \in Run /\ r.pc = p /\ SameSelection(r, up[u])
      /\ r.candidate = up[u].candidate /\ r.digest = up[u].digest
      /\ r.evidence = up[u].evidence
  BY <1>1 DEF Run, SameSelection
<1>3. up' = [up EXCEPT ![u] = r]
  BY DEF GoTo
<1> HIDE DEF r
<1> QED BY <1>1, <1>2, <1>3

LEMMA StartMoves ==
  ASSUME UpdateInv, NEW u \in Updaters, Start(u)
  PROVE  Moved(u)
<1>1. /\ up \in [Updaters -> Run] /\ up[u] \in Run /\ RunOK(up[u]) /\ up[u].pc = "idle"
      /\ target \in Image /\ latest \in 1..MaxRelease /\ MaxRelease \in Nat
      /\ origin \in [2..MaxRelease -> Origins] /\ supported \in BOOLEAN
  BY RunType, UpdateAssumption DEF UpdateInv, Start
<1>2. target.version \in Versions /\ target.version \in Nat /\ latest \in Versions
  BY <1>1 DEF Image, Versions
<1>3. CASE is_already_current(target.version, latest)
  <2> DEFINE r == [up[u] EXCEPT !.pc = "current", !.running = target.version]
  <2>1. /\ r \in Run /\ r.pc = "current" /\ r.evidence = up[u].evidence
        /\ r.offered = up[u].offered
    BY <1>1, <1>2 DEF Run, Finished
  <2>2. up' = [up EXCEPT ![u] = r]
    BY <1>3 DEF Start
  <2> HIDE DEF r
  <2>3. RunOK(r)
    BY <1>1, <2>1 DEF RunOK, Underway, Working, NoManifest, NoAsset
  <2> QED BY <1>1, <2>1, <2>2, <2>3 DEF Moved
<1>4. CASE ~is_already_current(target.version, latest)
  <2>1. latest > target.version /\ latest \in 2..MaxRelease
    <3>1. target.version >= 1
      BY <1>1, UpdateAssumption DEF UpdateInv, Genuine
    <3> QED BY <1>1, <1>2, <1>4, <3>1 DEF is_already_current
  <2>2. origin[latest] \in Offer
    BY <1>1, <2>1, UpdateAssumption
  <2> DEFINE p == IF supported THEN "manifest" ELSE "cargo"
             r == [FreshRun EXCEPT !.pc = p, !.running = target.version, !.chosen = latest,
                                   !.offered = origin[latest]]
  <2>3. p \in Working /\ (supported => p = "manifest") /\ p \in {"manifest", "cargo"}
        /\ (p = "cargo" => ~supported)
    BY <1>1 DEF Working
  <2>4. up' = [up EXCEPT ![u] = r]
    BY <1>4 DEF Start
  <2> HIDE DEF p
  <2>5. /\ r \in Run /\ r.pc = p /\ r.evidence = "none"
        /\ r.running = target.version /\ r.chosen = latest /\ r.offered = origin[latest]
    BY <1>2, <2>2, <2>3, FreshRunFacts DEF Run
  <2> HIDE DEF r
  <2>6. Selected(r)
    BY <2>1, <2>5 DEF Selected, Extends
  <2>7. RunOK(r)
    BY <2>3, <2>5, <2>6 DEF RunOK, Underway
  <2> QED BY <1>1, <2>4, <2>5, <2>7 DEF Moved
<1> QED BY <1>3, <1>4

LEMMA FailedMoves ==
  ASSUME UpdateInv, NEW u \in Updaters, Failed(u)
  PROVE  Moved(u)
BY Fails DEF Moved

LEMMA StartGoes ==
  ASSUME UpdateInv, NEW u \in Updaters, Start(u)
  PROVE  \/ /\ is_already_current(target.version, latest) /\ up'[u].pc = "current"
         \/ /\ ~is_already_current(target.version, latest)
            /\ up'[u].pc \in {"manifest", "cargo"} /\ up'[u].chosen = latest
<1>1. up \in [Updaters -> Run]
  BY RunType DEF UpdateInv
<1>2. CASE is_already_current(target.version, latest)
  BY <1>1, <1>2 DEF Start, Run
<1>3. CASE ~is_already_current(target.version, latest)
  <2> DEFINE p == IF supported THEN "manifest" ELSE "cargo"
             r == [FreshRun EXCEPT !.pc = p, !.running = target.version, !.chosen = latest,
                                   !.offered = origin[latest]]
  <2>1. up' = [up EXCEPT ![u] = r]
    BY <1>3 DEF Start
  <2>2. r.pc = p /\ r.chosen = latest
    BY DEF FreshRun
  <2>3. p \in {"manifest", "cargo"}
    OBVIOUS
  <2> HIDE DEF r, p
  <2> QED BY <1>1, <1>3, <2>1, <2>2, <2>3
<1> QED BY <1>2, <1>3

LEMMA ManifestMoves ==
  ASSUME UpdateInv, NEW u \in Updaters, prepare_candidate_async(u)
  PROVE  Moved(u)
<1>1. /\ up[u].pc = "manifest" /\ up[u].pc \in Underway /\ RunOK(up[u])
  BY DEF prepare_candidate_async, Underway, Working, UpdateInv
<1>2. Selected(up[u]) /\ (Offered(u).manifest = "absent" => NoManifest(up[u]))
  BY <1>1, OfTheRelease
<1>3. CASE Failed(u)
  BY <1>3, FailedMoves
<1>4. CASE Offered(u).manifest = "absent" /\ GoTo(u, "binary")
  <2>1. "binary" \in Working
    BY DEF Working
  <2>2. /\ up' \in [Updaters -> Run] /\ \A d \in Updaters \ {u} : up'[d] = up[d]
        /\ up'[u].pc = "binary" /\ SameSelection(up'[u], up[u])
        /\ up'[u].evidence = up[u].evidence
    BY <1>4, <2>1, GoingTo
  <2>3. Selected(up'[u]) /\ NoManifest(up'[u]) /\ (NoAsset(up[u]) => NoAsset(up'[u]))
    BY <1>2, <1>4, <2>2, SelectionKept
  <2>4. RunOK(up'[u])
    BY <1>1, <2>1, <2>2, <2>3 DEF RunOK
  <2> QED BY <2>2, <2>4 DEF Moved
<1>5. CASE GoTo(u, "artifact")
  <2>1. "artifact" \in Working
    BY DEF Working
  <2>2. /\ up' \in [Updaters -> Run] /\ \A d \in Updaters \ {u} : up'[d] = up[d]
        /\ up'[u].pc = "artifact" /\ SameSelection(up'[u], up[u])
        /\ up'[u].evidence = up[u].evidence
    BY <1>5, <2>1, GoingTo
  <2>3. /\ Selected(up'[u]) /\ (NoAsset(up[u]) => NoAsset(up'[u]))
        /\ (NoManifest(up[u]) => NoManifest(up'[u]))
    BY <1>2, <2>2, SelectionKept
  <2>4. RunOK(up'[u])
    BY <1>1, <2>1, <2>2, <2>3 DEF RunOK
  <2> QED BY <2>2, <2>4 DEF Moved
<1> QED BY <1>3, <1>4, <1>5 DEF prepare_candidate_async

LEMMA ArtifactMoves ==
  ASSUME UpdateInv, NEW u \in Updaters, acquire_manifest_artifact(u)
  PROVE  Moved(u)
<1>1. /\ up[u].pc = "artifact" /\ up[u].pc \in Underway /\ RunOK(up[u])
      /\ up \in [Updaters -> Run] /\ up[u] \in Run
  BY RunType DEF acquire_manifest_artifact, Underway, Working, UpdateInv
<1>2. Selected(up[u]) /\ Binary(u) \in Image /\ Binary(u).intact = TRUE
  BY <1>1, OfTheRelease
<1>3. CASE Failed(u)
  BY <1>3, FailedMoves
<1>4. ASSUME NEW ok \in BOOLEAN,
             up' = [up EXCEPT ![u].pc = "prepare", ![u].evidence = "manifest",
                              ![u].candidate = [Binary(u) EXCEPT !.intact = ok],
                              ![u].digest = Binary(u)]
      PROVE  Moved(u)
  <2> DEFINE c == [Binary(u) EXCEPT !.intact = ok]
             b == Binary(u)
             r == [up[u] EXCEPT !.pc = "prepare", !.evidence = "manifest",
                                !.candidate = c, !.digest = b]
  <2>1. c \in Image /\ b \in Image /\ b.intact = TRUE
    BY <1>2 DEF Image
  <2>2. "prepare" \in Working /\ "manifest" \in Evidence
    BY DEF Working, Evidence
  <2>3. up' = [up EXCEPT ![u] = r]
    BY <1>1, <1>4 DEF Run
  <2> HIDE DEF c, b
  <2>4. /\ r \in Run /\ r.pc = "prepare" /\ r.evidence = "manifest" /\ r.digest = b
        /\ SameSelection(r, up[u])
    BY <1>1, <2>1, <2>2 DEF Run, SameSelection
  <2> HIDE DEF r
  <2>5. Selected(r)
    BY <1>2, <2>4, SelectionKept
  <2>6. RunOK(r)
    BY <2>1, <2>2, <2>4, <2>5 DEF RunOK
  <2> QED BY <1>1, <2>3, <2>4, <2>6 DEF Moved
<1> QED BY <1>3, <1>4 DEF acquire_manifest_artifact

LEMMA BinaryMoves ==
  ASSUME UpdateInv, NEW u \in Updaters, fetch_legacy_binary(u)
  PROVE  Moved(u)
<1>1. /\ up[u].pc = "binary" /\ up[u].pc \in Underway /\ RunOK(up[u])
      /\ up \in [Updaters -> Run] /\ up[u] \in Run
  BY RunType DEF fetch_legacy_binary, Underway, Working, UpdateInv
<1>2. /\ Selected(up[u]) /\ NoManifest(up[u])
      /\ Offered(u).binary = "absent" => up[u].offered.binary = "absent"
      /\ Binary(u) \in Image
  BY <1>1, OfTheRelease DEF RunOK
<1>3. CASE Offered(u).binary = "absent" /\ GoTo(u, "cargo")
  <2>1. "cargo" \in Working
    BY DEF Working
  <2>2. /\ up' \in [Updaters -> Run] /\ \A d \in Updaters \ {u} : up'[d] = up[d]
        /\ up'[u].pc = "cargo" /\ SameSelection(up'[u], up[u])
        /\ up'[u].evidence = up[u].evidence
    BY <1>3, <2>1, GoingTo
  <2>3. Selected(up'[u]) /\ NoManifest(up'[u]) /\ NoAsset(up'[u])
    BY <1>2, <1>3, <2>2, SelectionKept DEF NoAsset
  <2>4. RunOK(up'[u])
    BY <1>1, <2>1, <2>2, <2>3 DEF RunOK
  <2> QED BY <2>2, <2>4 DEF Moved
<1>4. ASSUME NEW ok \in BOOLEAN,
             up' = [up EXCEPT ![u].pc = "checksum",
                              ![u].candidate = [Binary(u) EXCEPT !.intact = ok]]
      PROVE  Moved(u)
  <2> DEFINE c == [Binary(u) EXCEPT !.intact = ok]
             r == [up[u] EXCEPT !.pc = "checksum", !.candidate = c]
  <2>1. c \in Image /\ "checksum" \in Working
    BY <1>2 DEF Image, Working
  <2>2. up' = [up EXCEPT ![u] = r]
    BY <1>1, <1>4 DEF Run
  <2> HIDE DEF c
  <2>3. /\ r \in Run /\ r.pc = "checksum" /\ r.evidence = up[u].evidence
        /\ SameSelection(r, up[u])
    BY <1>1, <2>1 DEF Run, SameSelection
  <2> HIDE DEF r
  <2>4. Selected(r) /\ NoManifest(r) /\ (NoAsset(up[u]) => NoAsset(r))
    BY <1>2, <2>3, SelectionKept
  <2>5. RunOK(r)
    BY <1>1, <2>1, <2>3, <2>4 DEF RunOK
  <2> QED BY <1>1, <2>2, <2>3, <2>5 DEF Moved
<1> QED BY <1>3, <1>4 DEF fetch_legacy_binary, Download

LEMMA ChecksumMoves ==
  ASSUME UpdateInv, NEW u \in Updaters, verify_legacy_checksum(u)
  PROVE  Moved(u)
<1>1. /\ up[u].pc = "checksum" /\ up[u].pc \in Underway /\ RunOK(up[u])
      /\ up \in [Updaters -> Run] /\ up[u] \in Run
  BY RunType DEF verify_legacy_checksum, Underway, Working, UpdateInv
<1>2. /\ Selected(up[u]) /\ NoManifest(up[u])
      /\ Binary(u) \in Image /\ Binary(u).intact = TRUE
  BY <1>1, OfTheRelease DEF RunOK
<1>3. CASE Failed(u)
  BY <1>3, FailedMoves
<1>4. CASE up' = [up EXCEPT ![u].pc = "prepare", ![u].evidence = "sidecar",
                            ![u].digest = Binary(u)]
  <2> DEFINE b == Binary(u)
             r == [up[u] EXCEPT !.pc = "prepare", !.evidence = "sidecar", !.digest = b]
  <2>1. b \in Image /\ b.intact = TRUE /\ "prepare" \in Working /\ "sidecar" \in Evidence
    BY <1>2 DEF Working, Evidence
  <2>2. up' = [up EXCEPT ![u] = r]
    BY <1>1, <1>4 DEF Run
  <2> HIDE DEF b
  <2>3. /\ r \in Run /\ r.pc = "prepare" /\ r.evidence = "sidecar" /\ r.digest = b
        /\ SameSelection(r, up[u])
    BY <1>1, <2>1 DEF Run, SameSelection
  <2> HIDE DEF r
  <2>4. Selected(r) /\ NoManifest(r)
    BY <1>2, <2>3, SelectionKept
  <2>5. RunOK(r)
    BY <2>1, <2>3, <2>4 DEF RunOK
  <2> QED BY <1>1, <2>2, <2>3, <2>5 DEF Moved
<1> QED BY <1>3, <1>4 DEF verify_legacy_checksum

LEMMA CargoMoves ==
  ASSUME UpdateInv, NEW u \in Updaters, cargo_candidate(u)
  PROVE  Moved(u)
<1>1. /\ up[u].pc = "cargo" /\ up[u].pc \in Underway /\ RunOK(up[u])
      /\ up \in [Updaters -> Run] /\ up[u] \in Run
  BY RunType DEF cargo_candidate, Underway, Working, UpdateInv
<1>2. /\ Selected(up[u]) /\ (supported => NoAsset(up[u]))
      /\ Release(up[u].chosen) \in Image /\ Release(up[u].chosen).intact = TRUE
  BY <1>1, OfTheRelease, ReleaseFacts DEF RunOK
<1> DEFINE b == Release(up[u].chosen)
           r == [up[u] EXCEPT !.pc = "prepare", !.evidence = "cargo",
                              !.candidate = b, !.digest = b]
<1>3. b \in Image /\ b.intact = TRUE /\ "prepare" \in Working /\ "cargo" \in Evidence
  BY <1>2 DEF Working, Evidence
<1>4. up' = [up EXCEPT ![u] = r]
  BY <1>1 DEF Run, cargo_candidate
<1> HIDE DEF b
<1>5. /\ r \in Run /\ r.pc = "prepare" /\ r.evidence = "cargo" /\ r.digest = b
      /\ SameSelection(r, up[u])
  BY <1>1, <1>3 DEF Run, SameSelection
<1> HIDE DEF r
<1>6. Selected(r) /\ (supported => NoAsset(r))
  BY <1>2, <1>5, SelectionKept
<1>7. RunOK(r)
  BY <1>3, <1>5, <1>6 DEF RunOK
<1> QED BY <1>1, <1>4, <1>5, <1>7 DEF Moved

(* Where an updater goes when it does not fail. *)
LEMMA ProceedsTo ==
  ASSUME UpdateInv, NEW u \in Updaters, ~Failed(u),
         \/ prepare_candidate_async(u) \/ acquire_manifest_artifact(u)
         \/ fetch_legacy_binary(u) \/ verify_legacy_checksum(u) \/ cargo_candidate(u)
         \/ validate_staged(u)
  PROVE  /\ \A d \in Updaters \ {u} : up'[d] = up[d]
         /\ up'[u].chosen = up[u].chosen
         /\ \/ up[u].pc = "manifest" /\ up'[u].pc \in {"artifact", "binary"}
            \/ up[u].pc = "binary" /\ up'[u].pc \in {"checksum", "cargo"}
            \/ up[u].pc \in {"artifact", "checksum", "cargo"} /\ up'[u].pc = "prepare"
            \/ up[u].pc = "prepare" /\ up'[u].pc = "commit"
<1>1. up \in [Updaters -> Run] /\ up[u] \in Run
  BY RunType DEF UpdateInv
<1>2. CASE prepare_candidate_async(u)
  BY <1>1, <1>2 DEF prepare_candidate_async, GoTo, Run
<1>3. CASE acquire_manifest_artifact(u)
  <2>1. PICK ok \in BOOLEAN :
          up' = [up EXCEPT ![u].pc = "prepare", ![u].evidence = "manifest",
                           ![u].candidate = [Binary(u) EXCEPT !.intact = ok],
                           ![u].digest = Binary(u)]
    BY <1>3 DEF acquire_manifest_artifact
  <2> DEFINE c == [Binary(u) EXCEPT !.intact = ok]
             b == Binary(u)
             r == [up[u] EXCEPT !.pc = "prepare", !.evidence = "manifest",
                                !.candidate = c, !.digest = b]
  <2> HIDE DEF c, b
  <2>2. r.pc = "prepare" /\ r.chosen = up[u].chosen
    BY <1>1 DEF Run
  <2>3. up' = [up EXCEPT ![u] = r]
    BY <1>1, <2>1 DEF Run, c, b
  <2> HIDE DEF r
  <2> QED BY <1>1, <1>3, <2>2, <2>3 DEF acquire_manifest_artifact
<1>4. CASE fetch_legacy_binary(u)
  BY <1>1, <1>4 DEF fetch_legacy_binary, GoTo, Download, Run
<1>5. CASE verify_legacy_checksum(u) \/ cargo_candidate(u)
  BY <1>1, <1>5 DEF verify_legacy_checksum, cargo_candidate, Run
<1>6. CASE validate_staged(u)
  BY <1>1, <1>6 DEF validate_staged, Run
<1> QED BY <1>2, <1>3, <1>4, <1>5, <1>6

(* Whatever was acquired, only the release selected passes.                 *)
LEMMA PrepareMoves ==
  ASSUME UpdateInv, NEW u \in Updaters, validate_staged(u)
  PROVE  Moved(u)
<1>1. /\ up[u].pc = "prepare" /\ up[u].pc \in Underway /\ RunOK(up[u])
      /\ up \in [Updaters -> Run] /\ up[u] \in Run
  BY RunType DEF validate_staged, Underway, Working, UpdateInv
<1>2. /\ Selected(up[u]) /\ up[u].digest \in Image /\ up[u].digest.intact = TRUE
  BY <1>1, OfTheRelease DEF RunOK
<1>3. CASE Failed(u)
  BY <1>3, FailedMoves
<1>4. ASSUME NEW staged, staged = up[u].digest, staged.version = up[u].chosen,
             up' = [up EXCEPT ![u].pc = "commit", ![u].candidate = staged]
      PROVE  Moved(u)
  <2> DEFINE r == [up[u] EXCEPT !.pc = "commit", !.candidate = staged]
  <2>1. staged \in Image /\ staged = Release(up[u].chosen)
    BY <1>2, <1>4 DEF Image, Release
  <2>2. up' = [up EXCEPT ![u] = r]
    BY <1>1, <1>4 DEF Run
  <2>3. /\ r \in Run /\ r.pc = "commit" /\ r.candidate = staged /\ r.digest = staged
        /\ r.evidence = up[u].evidence /\ SameSelection(r, up[u])
    BY <1>1, <1>4, <2>1 DEF Run, SameSelection, Working
  <2> HIDE DEF r
  <2>4. /\ Selected(r) /\ (NoManifest(up[u]) => NoManifest(r))
        /\ (NoAsset(up[u]) => NoAsset(r))
    BY <1>2, <2>3, SelectionKept
  <2>5. r.candidate = Release(r.chosen) /\ r.digest = Release(r.chosen)
    BY <2>1, <2>3 DEF SameSelection
  <2>6. RunOK(r)
    BY <1>1, <2>3, <2>4, <2>5 DEF RunOK, Working
  <2> QED BY <1>1, <2>2, <2>3, <2>6 DEF Moved
<1> QED BY <1>3, <1>4 DEF validate_staged

-----------------------------------------------------------------------------
(* The commit, and what outlives the updater.                               *)

(* An updater leaves its commit with what it verified.                      *)
LEMMA LeavesCommit ==
  ASSUME UpdateInv, NEW u \in Updaters, up[u].pc = "commit",
         NEW p \in {"staged", "updated", "recovery", "interrupted"}, GoTo(u, p)
  PROVE  /\ up' \in [Updaters -> Run] /\ \A d \in Updaters \ {u} : up'[d] = up[d]
         /\ RunOK(up'[u]) /\ up'[u].pc = p /\ up'[u].chosen = up[u].chosen
         /\ up[u].candidate = Release(up[u].chosen)
         /\ Release(up[u].chosen) \in Image /\ Genuine(Release(up[u].chosen))
<1>1. up[u].pc \in Underway /\ RunOK(up[u])
  BY DEF Underway, Working, UpdateInv
<1>2. /\ Selected(up[u]) /\ up[u].candidate = Release(up[u].chosen)
      /\ up[u].digest = Release(up[u].chosen)
      /\ Release(up[u].chosen) \in Image /\ up[u].chosen \in Versions
  BY <1>1, OfTheRelease DEF RunOK
<1>3. p \in Working \cup Finished \cup {"idle", "staged"}
  BY DEF Finished
<1>4. /\ up' \in [Updaters -> Run]
      /\ \A d \in Updaters \ {u} : up'[d] = up[d]
      /\ up'[u].pc = p /\ SameSelection(up'[u], up[u])
      /\ up'[u].candidate = up[u].candidate /\ up'[u].digest = up[u].digest
      /\ up'[u].evidence = up[u].evidence
  BY <1>3, GoingTo
<1>5. /\ Selected(up'[u]) /\ (NoManifest(up[u]) => NoManifest(up'[u]))
      /\ (NoAsset(up[u]) => NoAsset(up'[u]))
  BY <1>2, <1>4, SelectionKept
<1>6. up'[u].candidate = Release(up'[u].chosen) /\ up'[u].digest = Release(up'[u].chosen)
  BY <1>2, <1>4 DEF SameSelection
<1>7. RunOK(up'[u])
  BY <1>1, <1>4, <1>5, <1>6 DEF RunOK
<1>8. Genuine(Release(up[u].chosen))
  <2>1. up[u].chosen >= 1
    BY <1>2, UpdateAssumption DEF Selected
  <2> QED BY <1>2, <2>1, ReleaseFacts DEF Genuine
<1> QED BY <1>2, <1>4, <1>7, <1>8 DEF SameSelection

(* The transaction has installed the candidate, or nobody can tell.         *)
LEMMA DiskKeeps ==
  ASSUME UpdateInv, NEW u \in Updaters, up[u].pc = "commit",
         NEW p \in {"updated", "recovery", "interrupted"}, GoTo(u, p),
         UNCHANGED <<facts, world, helper>>, locked' \in BOOLEAN,
         \/ target' = up[u].candidate /\ author' = u
         \/ target' = target /\ author' = author
         \/ target' = NoFile /\ author' = Nobody
  PROVE  UpdateInv'
<1>1. /\ windows' = windows /\ supported' = supported /\ latest' = latest
      /\ origin' = origin /\ helper' = helper
      /\ TypeOK /\ \A d \in Updaters : RunOK(up[d]) /\ Installed(d) /\ HelperOK(d)
  BY DEF UpdateInv, facts, world
<1>2. author # u /\ helper[u].state = "none"
  BY AtWork DEF Working
<1>3. /\ up' \in [Updaters -> Run] /\ \A d \in Updaters \ {u} : up'[d] = up[d]
      /\ RunOK(up'[u]) /\ up'[u].pc = p /\ up'[u].chosen = up[u].chosen
      /\ up[u].candidate = Release(up[u].chosen)
      /\ Release(up[u].chosen) \in Image /\ Genuine(Release(up[u].chosen))
  BY LeavesCommit
<1>4. target' \in Image \cup {NoFile} /\ author' \in Updaters \cup {Nobody}
      /\ (target' = NoFile \/ Genuine(target'))
  BY <1>1, <1>3 DEF TypeOK, UpdateInv
<1>5. TypeOK'
  BY <1>1, <1>3, <1>4 DEF TypeOK, Run
<1>6. ASSUME NEW d \in Updaters
      PROVE  RunOK(up[d])' /\ Installed(d)' /\ HelperOK(d)'
  <2>1. RunOK(up[d]) /\ Installed(d) /\ HelperOK(d)
    BY <1>1
  <2>2. RunOK(up[d])'
    BY <1>1, <1>3 DEF RunOK, Selected
  <2>3. HelperOK(d)'
    BY <1>1, <1>2, <1>3 DEF HelperOK
  <2>4. Installed(d)'
    BY <1>2, <1>3, <2>1, UpdateAssumption DEF Installed
  <2> QED BY <2>2, <2>3, <2>4
<1> QED BY <1>4, <1>5, <1>6 DEF UpdateInv

LEMMA UndecidedDisk ==
  ASSUME NEW u \in Updaters, NEW p, Undecided(u, p)
  PROVE  /\ GoTo(u, p)
         /\ \/ target' = up[u].candidate /\ author' = u
            \/ target' = target /\ author' = author
            \/ target' = NoFile /\ author' = Nobody
BY DEF Undecided

LEMMA CommittedKeeps ==
  ASSUME UpdateInv, NEW u \in Updaters, commit_artifact_set(u)
  PROVE  UpdateInv'
<1>1. up[u].pc = "commit" /\ UNCHANGED <<facts, world, helper>> /\ locked \in BOOLEAN
  BY DEF commit_artifact_set, UpdateInv, TypeOK
<1>2. CASE /\ target' = up[u].candidate /\ author' = u
           /\ GoTo(u, "updated") /\ UNCHANGED locked
  BY <1>1, <1>2, DiskKeeps
<1>3. CASE Failed(u) /\ UNCHANGED disk
  <2>1. External
    BY <1>1, <1>3 DEF External
  <2> QED BY <1>1, <1>3, <2>1, Fails, AtWork, OneMoves DEF Working
<1>4. CASE Undecided(u, "recovery") /\ locked' = TRUE
  <2>1. locked' \in BOOLEAN
    BY <1>4
  <2> QED BY <1>1, <1>4, <2>1, UndecidedDisk, DiskKeeps
<1> QED BY <1>2, <1>3, <1>4 DEF commit_artifact_set, Transact

(* The helper of one updater changes, its updater at most with it.          *)
LEMMA OneIsHelped ==
  ASSUME UpdateInv, NEW u \in Updaters,
         UNCHANGED <<facts, world, disk>>,
         up' \in [Updaters -> Run], \A d \in Updaters \ {u} : up'[d] = up[d],
         helper' \in [Updaters -> HelperRun],
         \A d \in Updaters \ {u} : helper'[d] = helper[d],
         RunOK(up'[u]), author # u \/ up' = up,
         helper'[u].state = "none" \/ up'[u].pc \in {"staged", "exited"}
  PROVE  UpdateInv'
<1>1. /\ windows' = windows /\ supported' = supported /\ latest' = latest /\ origin' = origin
      /\ target' = target /\ author' = author /\ locked' = locked
  BY DEF facts, world, disk
<1>2. TypeOK'
  <2>1. TypeOK
    BY DEF UpdateInv
  <2> QED BY <1>1, <2>1 DEF TypeOK, Run, HelperRun
<1>3. ASSUME NEW d \in Updaters
      PROVE  RunOK(up[d])' /\ Installed(d)' /\ HelperOK(d)'
  <2>1. RunOK(up[d]) /\ Installed(d) /\ HelperOK(d)
    BY DEF UpdateInv
  <2>2. CASE d # u
    <3>1. up'[d] = up[d] /\ helper'[d] = helper[d]
      BY <2>2
    <3> QED BY <1>1, <2>1, <3>1 DEF RunOK, Installed, HelperOK, Selected
  <2>3. CASE d = u
    <3>1. RunOK(up[d])' /\ HelperOK(d)'
      BY <1>1, <2>3 DEF RunOK, Selected, HelperOK
    <3>2. Installed(d)'
      BY <1>1, <2>1, <2>3 DEF Installed
    <3> QED BY <3>1, <3>2
  <2> QED BY <2>2, <2>3
<1> QED BY <1>1, <1>2, <1>3 DEF UpdateInv

(* A copy that was made in vain, or half made.                              *)
LEMMA CopyLeavesHelper ==
  ASSUME UpdateInv, NEW u \in Updaters, up[u].pc = "commit", LeavesCopy(u)
  PROVE  /\ helper' \in [Updaters -> HelperRun] /\ helper'[u].state = "none"
         /\ \A d \in Updaters \ {u} : helper'[d] = helper[d]
<1>1. /\ helper \in [Updaters -> HelperRun] /\ helper[u].state = "none"
      /\ up[u].pc \in Underway /\ RunOK(up[u])
  BY RunType, AtWork DEF UpdateInv, Underway, Working
<1>2. up[u].candidate \in Image
  BY <1>1, OfTheRelease DEF RunOK
<1>3. PICK c \in {NoFile, [up[u].candidate EXCEPT !.intact = FALSE], up[u].candidate} :
        helper' = [helper EXCEPT ![u].copy = c]
  BY DEF LeavesCopy
<1>4. c \in Image \cup {NoFile}
  BY <1>2, <1>3 DEF Image
<1> QED BY <1>1, <1>3, <1>4 DEF HelperRun

LEMMA ReplaceKeeps ==
  ASSUME UpdateInv, NEW u \in Updaters, replace_current(u)
  PROVE  UpdateInv'
<1>1. /\ up[u].pc = "commit" /\ up[u].pc \in Underway /\ RunOK(up[u])
      /\ up \in [Updaters -> Run] /\ up[u] \in Run
      /\ helper \in [Updaters -> HelperRun] /\ helper[u] \in HelperRun
      /\ UNCHANGED <<facts, world, disk>>
  BY RunType DEF replace_current, Underway, Working, UpdateInv
<1>2. /\ Selected(up[u]) /\ up[u].candidate = Release(up[u].chosen)
      /\ up[u].candidate \in Image
  BY <1>1, OfTheRelease DEF RunOK
<1>3. author # u /\ helper[u].state = "none"
  BY <1>1, AtWork DEF Working
<1>4. CASE LeavesCopy(u) /\ Failed(u)
  <2>1. /\ helper' \in [Updaters -> HelperRun] /\ helper'[u].state = "none"
        /\ \A d \in Updaters \ {u} : helper'[d] = helper[d]
    BY <1>1, <1>4, CopyLeavesHelper
  <2> QED BY <1>1, <1>3, <1>4, <2>1, Fails, OneIsHelped
<1>5. CASE /\ helper' = [helper EXCEPT ![u].copy = up[u].candidate, ![u].state = "waiting"]
           /\ GoTo(u, "staged")
  <2>1. /\ helper' \in [Updaters -> HelperRun]
        /\ \A d \in Updaters \ {u} : helper'[d] = helper[d]
    BY <1>1, <1>2, <1>5 DEF HelperRun
  <2>2. /\ up' \in [Updaters -> Run] /\ \A d \in Updaters \ {u} : up'[d] = up[d]
        /\ RunOK(up'[u]) /\ up'[u].pc = "staged"
    BY <1>1, <1>5, LeavesCommit
  <2> QED BY <1>1, <1>3, <2>1, <2>2, OneIsHelped
<1> QED BY <1>4, <1>5 DEF replace_current

LEMMA ExitKeeps ==
  ASSUME UpdateInv, NEW u \in Updaters, Exit(u)
  PROVE  UpdateInv'
<1>1. /\ up[u].pc = "staged" /\ up[u].pc \in Underway /\ RunOK(up[u])
      /\ "exited" \in Finished /\ GoTo(u, "exited")
      /\ UNCHANGED <<facts, world, disk>> /\ helper' = helper
      /\ helper \in [Updaters -> HelperRun]
  BY RunType DEF Exit, External, Underway, Finished, UpdateInv
<1>2. author # u
  BY <1>1 DEF UpdateInv, Installed
<1>3. /\ up' \in [Updaters -> Run] /\ \A d \in Updaters \ {u} : up'[d] = up[d]
      /\ up'[u].pc = "exited" /\ SameSelection(up'[u], up[u])
      /\ up'[u].candidate = up[u].candidate /\ up'[u].digest = up[u].digest
      /\ up'[u].evidence = up[u].evidence
  BY <1>1, GoingTo
<1>4. /\ Selected(up'[u]) /\ (NoManifest(up[u]) => NoManifest(up'[u]))
      /\ (NoAsset(up[u]) => NoAsset(up'[u]))
  BY <1>1, <1>3, OfTheRelease, SelectionKept
<1>5. /\ up'[u].candidate = Release(up'[u].chosen)
      /\ up'[u].digest = Release(up'[u].chosen)
  BY <1>1, <1>3 DEF SameSelection, RunOK
<1>6. RunOK(up'[u])
  BY <1>1, <1>2, <1>3, <1>4, <1>5 DEF RunOK
<1> QED BY <1>1, <1>2, <1>3, <1>6, OneIsHelped

LEMMA KillKeeps ==
  ASSUME UpdateInv, NEW u \in Updaters, Kill(u)
  PROVE  UpdateInv'
<1>1. /\ up \in [Updaters -> Run] /\ helper \in [Updaters -> HelperRun]
      /\ author # u /\ helper[u].state = "none" /\ UNCHANGED <<facts, world>>
  BY RunType, AtWork DEF Kill, UpdateInv
<1>2. CASE /\ up' = [up EXCEPT ![u] = [FreshRun EXCEPT !.pc = "killed"]]
           /\ \/ UNCHANGED helper
              \/ up[u].pc = "commit" /\ windows /\ LeavesCopy(u)
           /\ UNCHANGED disk
  <2> DEFINE r == [FreshRun EXCEPT !.pc = "killed"]
  <2>1. r \in Run /\ RunOK(r)
    BY KilledRunOK
  <2>2. up' = [up EXCEPT ![u] = r]
    BY <1>2
  <2> HIDE DEF r
  <2>3. /\ up' \in [Updaters -> Run] /\ up'[u] = r
        /\ \A d \in Updaters \ {u} : up'[d] = up[d]
    BY <1>1, <2>1, <2>2
  <2>4. /\ helper' \in [Updaters -> HelperRun] /\ helper'[u].state = "none"
        /\ \A d \in Updaters \ {u} : helper'[d] = helper[d]
    BY <1>1, <1>2, CopyLeavesHelper
  <2> QED BY <1>1, <1>2, <2>1, <2>3, <2>4, OneIsHelped
<1>3. CASE /\ up[u].pc = "commit" /\ Undecided(u, "interrupted")
           /\ locked' \in BOOLEAN /\ UNCHANGED helper
  BY <1>1, <1>3, UndecidedDisk, DiskKeeps
<1> QED BY <1>2, <1>3 DEF Kill

(* The helper installs what its updater verified.                           *)
LEMMA MoveIntoKeeps ==
  ASSUME UpdateInv, NEW u \in Updaters, MoveInto(u)
  PROVE  UpdateInv'
<1>1. /\ helper \in [Updaters -> HelperRun] /\ helper[u] \in HelperRun /\ RunOK(up[u])
      /\ windows' = windows /\ supported' = supported /\ latest' = latest
      /\ origin' = origin /\ locked' = locked /\ up' = up
      /\ author' = u /\ target' = up[u].digest
      /\ up[u].pc \in {"staged", "exited"} /\ up[u].pc \in Underway /\ up[u].pc # "staged"
  <2>1. helper[u].state = "trying" /\ ~InUse
    BY DEF MoveInto
  <2> QED BY RunType, <2>1 DEF MoveInto, UpdateInv, HelperOK, InUse, Underway, facts, world
<1>2. /\ up[u].digest = Release(up[u].chosen) /\ Release(up[u].chosen) \in Image
      /\ up[u].chosen \in Versions /\ Selected(up[u])
  BY <1>1, OfTheRelease DEF RunOK
<1>3. Genuine(target') /\ target' \in Image
  <2>1. up[u].chosen >= 1
    BY <1>2, UpdateAssumption DEF Selected
  <2> QED BY <1>1, <1>2, <2>1, ReleaseFacts DEF Genuine
<1>4. /\ helper' \in [Updaters -> HelperRun]
      /\ \A d \in Updaters \ {u} : helper'[d] = helper[d]
  BY <1>1 DEF MoveInto, HelperRun
<1>5. TypeOK'
  <2>1. TypeOK
    BY DEF UpdateInv
  <2> QED BY <1>1, <1>3, <1>4, <2>1 DEF TypeOK, HelperRun
<1>6. ASSUME NEW d \in Updaters
      PROVE  RunOK(up[d])' /\ Installed(d)' /\ HelperOK(d)'
  <2>1. RunOK(up[d]) /\ HelperOK(d)
    BY DEF UpdateInv
  <2>2. Installed(d)'
    BY <1>1, <1>2 DEF Installed
  <2>3. HelperOK(d)'
    BY <1>1, <1>4, <2>1 DEF HelperOK
  <2> QED BY <1>1, <2>1, <2>2, <2>3 DEF RunOK, Selected
<1> QED BY <1>3, <1>5, <1>6 DEF UpdateInv

(* The other steps of a helper, and what befalls its copy.                  *)
LEMMA HelperStepKeeps ==
  ASSUME UpdateInv, NEW u \in Updaters,
         \/ ParentGone(u) \/ MoveFails(u) \/ WriteStatus(u) \/ Disturb(u) \/ KillHelper(u)
  PROVE  UpdateInv'
<1>1. /\ helper \in [Updaters -> HelperRun] /\ helper[u] \in HelperRun
      /\ up \in [Updaters -> Run] /\ RunOK(up[u]) /\ HelperOK(u)
      /\ UNCHANGED <<facts, world, disk>> /\ up' = up
  BY RunType DEF UpdateInv, ParentGone, MoveFails, WriteStatus, Disturb, KillHelper, HelperOnly
<1>2. ASSUME NEW h \in HelperRun, helper' = [helper EXCEPT ![u] = h],
             h.state = helper[u].state \/ helper[u].state # "none"
      PROVE  UpdateInv'
  <2>1. /\ helper' \in [Updaters -> HelperRun] /\ helper'[u] = h
        /\ \A d \in Updaters \ {u} : helper'[d] = helper[d]
    BY <1>1, <1>2
  <2>2. h.state = "none" \/ up[u].pc \in {"staged", "exited"}
    BY <1>1, <1>2 DEF HelperOK
  <2> QED BY <1>1, <2>1, <2>2, OneIsHelped
<1>3. CASE ParentGone(u)
  <2> DEFINE h == [helper[u] EXCEPT !.state = "trying"]
  <2>1. h \in HelperRun /\ helper[u].state # "none"
    BY <1>1, <1>3 DEF HelperRun, ParentGone
  <2>2. helper' = [helper EXCEPT ![u] = h]
    BY <1>3 DEF ParentGone
  <2> HIDE DEF h
  <2> QED BY <1>2, <2>1, <2>2
<1>4. CASE MoveFails(u)
  <2> DEFINE h == [helper[u] EXCEPT !.attempts = @ + 1]
  <2>1. helper[u].attempts + 1 \in 0..MaxAttempts
    BY <1>1, <1>4, UpdateAssumption DEF MoveFails, HelperRun
  <2>2. h \in HelperRun /\ helper[u].state # "none"
    BY <1>1, <1>4, <2>1 DEF HelperRun, MoveFails
  <2>3. helper' = [helper EXCEPT ![u] = h]
    BY <1>4 DEF MoveFails
  <2> HIDE DEF h
  <2> QED BY <1>2, <2>2, <2>3
<1>5. CASE WriteStatus(u)
  <2> PICK written \in BOOLEAN :
        helper' = [helper EXCEPT ![u].state = "failed", ![u].status = written]
    BY <1>5 DEF WriteStatus
  <2> DEFINE h == [helper[u] EXCEPT !.state = "failed", !.status = written]
  <2>1. h \in HelperRun /\ helper[u].state # "none"
    BY <1>1, <1>5 DEF HelperRun, WriteStatus
  <2>2. helper' = [helper EXCEPT ![u] = h]
    BY <1>1 DEF HelperRun
  <2> HIDE DEF h
  <2> QED BY <1>2, <2>1, <2>2
<1>6. CASE Disturb(u)
  <2> PICK c \in {NoFile, [helper[u].copy EXCEPT !.intact = FALSE]} \ {helper[u].copy} :
        helper' = [helper EXCEPT ![u].copy = c]
    BY <1>6 DEF Disturb
  <2> DEFINE h == [helper[u] EXCEPT !.copy = c]
  <2>1. helper[u].copy \in Image
    BY <1>1, <1>6 DEF HelperRun, Disturb
  <2>2. c \in Image \cup {NoFile}
    BY <2>1 DEF Image
  <2>3. h \in HelperRun /\ h.state = helper[u].state
    BY <1>1, <2>2 DEF HelperRun
  <2>4. helper' = [helper EXCEPT ![u] = h]
    OBVIOUS
  <2> HIDE DEF h
  <2> QED BY <1>2, <2>3, <2>4
<1>7. CASE KillHelper(u)
  <2> DEFINE h == [helper[u] EXCEPT !.state = "killed"]
  <2>1. h \in HelperRun /\ helper[u].state # "none"
    BY <1>1, <1>7 DEF HelperRun, KillHelper
  <2>2. helper' = [helper EXCEPT ![u] = h]
    BY <1>7 DEF KillHelper
  <2> HIDE DEF h
  <2> QED BY <1>2, <2>1, <2>2
<1> QED BY <1>3, <1>4, <1>5, <1>6, <1>7

-----------------------------------------------------------------------------
(* The world around the updaters.                                           *)

LEMMA PublishKeeps == ASSUME UpdateInv, Publish PROVE UpdateInv'
<1>1. /\ windows' = windows /\ supported' = supported /\ origin' = origin /\ up' = up
      /\ target' = target /\ author' = author /\ locked' = locked /\ helper' = helper
      /\ latest < MaxRelease /\ latest' = latest + 1 /\ TypeOK
  BY DEF Publish, facts, disk, UpdateInv
<1>2. latest' \in 1..MaxRelease
  BY <1>1, UpdateAssumption DEF TypeOK
<1>3. TypeOK'
  BY <1>1, <1>2 DEF TypeOK
<1>4. \A d \in Updaters : RunOK(up[d])' /\ Installed(d)' /\ HelperOK(d)'
  BY <1>1 DEF UpdateInv, RunOK, Selected, Installed, HelperOK
<1> QED BY <1>1, <1>3, <1>4 DEF UpdateInv

LEMMA UploadKeeps == ASSUME UpdateInv, NEW v, Upload(v) PROVE UpdateInv'
<1>1. /\ windows' = windows /\ supported' = supported /\ latest' = latest /\ up' = up
      /\ target' = target /\ author' = author /\ locked' = locked /\ helper' = helper
      /\ v \in 2..MaxRelease /\ TypeOK
  BY DEF Upload, facts, disk, UpdateInv
<1>2. PICK p \in Origins : Extends(origin[v], p) /\ origin' = [origin EXCEPT ![v] = p]
  BY DEF Upload
<1>3. origin \in [2..MaxRelease -> Origins] /\ origin' \in [2..MaxRelease -> Origins]
  BY <1>1, <1>2 DEF TypeOK
<1>4. TypeOK'
  BY <1>1, <1>3 DEF TypeOK
<1>5. ASSUME NEW d \in Updaters
      PROVE  RunOK(up[d])' /\ Installed(d)' /\ HelperOK(d)'
  <2>1. RunOK(up[d]) /\ Installed(d) /\ HelperOK(d)
    BY DEF UpdateInv
  <2>2. Selected(up[d]) => Selected(up[d])'
    <3> SUFFICES ASSUME Selected(up[d]) PROVE Selected(up[d])'
      OBVIOUS
    <3>1. Extends(up[d].offered, origin'[up[d].chosen])
      BY <1>2, <1>3, ExtendsTransitive DEF Selected
    <3> QED BY <1>1, <3>1 DEF Selected
  <2> QED BY <1>1, <2>1, <2>2 DEF RunOK, Installed, HelperOK
<1> QED BY <1>1, <1>4, <1>5 DEF UpdateInv

LEMMA UninstallKeeps == ASSUME UpdateInv, Uninstall PROVE UpdateInv'
<1>1. /\ windows' = windows /\ supported' = supported /\ latest' = latest /\ origin' = origin
      /\ up' = up /\ target' = NoFile /\ author' = Nobody /\ locked' = locked
      /\ helper' = helper /\ TypeOK
  BY DEF Uninstall, facts, world, UpdateInv
<1>2. TypeOK'
  BY <1>1 DEF TypeOK
<1>3. \A d \in Updaters : RunOK(up[d])' /\ Installed(d)' /\ HelperOK(d)'
  BY <1>1, UpdateAssumption DEF UpdateInv, RunOK, Selected, Installed, HelperOK
<1> QED BY <1>1, <1>2, <1>3 DEF UpdateInv

-----------------------------------------------------------------------------
LEMMA InitUpdate == Init => UpdateInv
<1> SUFFICES ASSUME Init PROVE UpdateInv
  OBVIOUS
<1>1. 1 \in Versions /\ 0 \in Versions
  BY UpdateAssumption DEF Versions
<1>2. Release(1) \in Image /\ Genuine(Release(1))
  <2>1. Release(1) \in Image /\ Release(1).intact = TRUE /\ Release(1).version = 1
    BY <1>1, ReleaseFacts
  <2>2. 1 >= 1
    OBVIOUS
  <2> QED BY <2>1, <2>2 DEF Genuine
<1>3. NoHelper \in HelperRun /\ NoHelper.state = "none"
  BY UpdateAssumption DEF NoHelper, HelperRun
<1>4. /\ up \in [Updaters -> Run] /\ helper \in [Updaters -> HelperRun]
      /\ \A d \in Updaters : up[d] = FreshRun /\ helper[d].state = "none"
  BY <1>3, FreshRunFacts DEF Init
<1>5. TypeOK
  BY <1>2, <1>4 DEF Init, TypeOK, Run, HelperRun
<1>6. FreshRun.pc = "idle"
  BY DEF FreshRun
<1>7. RunOK(FreshRun)
  BY <1>6, FreshRunFacts DEF RunOK, Underway, Working
<1>8. \A d \in Updaters : RunOK(up[d]) /\ Installed(d) /\ HelperOK(d)
  BY <1>4, <1>7, UpdateAssumption DEF Init, Installed, HelperOK
<1> QED BY <1>2, <1>5, <1>8 DEF Init, UpdateInv

LEMMA UpdateStepKeeps ==
  ASSUME UpdateInv, NEW u \in Updaters, Update(u)
  PROVE  UpdateInv'
<1>1. ASSUME Moved(u), External, up[u].pc \in Working \cup {"idle"}
      PROVE  UpdateInv'
  BY <1>1, AtWork, OneMoves DEF Moved
<1>2. CASE Start(u)
  BY <1>1, <1>2, StartMoves DEF Start
<1>3. CASE GiveUp(u)
  BY <1>1, <1>3, FailedMoves DEF GiveUp
<1>4. CASE prepare_candidate_async(u)
  BY <1>1, <1>4, ManifestMoves DEF prepare_candidate_async, Working
<1>5. CASE acquire_manifest_artifact(u)
  BY <1>1, <1>5, ArtifactMoves DEF acquire_manifest_artifact, Working
<1>6. CASE fetch_legacy_binary(u)
  BY <1>1, <1>6, BinaryMoves DEF fetch_legacy_binary, Working
<1>7. CASE verify_legacy_checksum(u)
  BY <1>1, <1>7, ChecksumMoves DEF verify_legacy_checksum, Working
<1>8. CASE cargo_candidate(u)
  BY <1>1, <1>8, CargoMoves DEF cargo_candidate, Working
<1>9. CASE validate_staged(u)
  BY <1>1, <1>9, PrepareMoves DEF validate_staged, Working
<1>10. CASE commit_denied(u)
  BY <1>1, <1>10, FailedMoves DEF commit_denied, Working
<1> QED BY <1>2, <1>3, <1>4, <1>5, <1>6, <1>7, <1>8, <1>9, <1>10,
           CommittedKeeps, ReplaceKeeps, ExitKeeps DEF Update

LEMMA StepUpdate == UpdateInv /\ [Next]_vars => UpdateInv'
<1> SUFFICES ASSUME UpdateInv, [Next]_vars PROVE UpdateInv'
  OBVIOUS
<1>1. ASSUME NEW u \in Updaters, Update(u) \/ Help(u) \/ Faults(u)
      PROVE  UpdateInv'
  BY <1>1, UpdateStepKeeps, MoveIntoKeeps, HelperStepKeeps, KillKeeps DEF Help, Faults
<1>2. CASE UNCHANGED vars
  BY <1>2 DEF vars, facts, world, disk, UpdateInv, TypeOK, RunOK, Selected, Installed, HelperOK
<1> QED BY <1>1, <1>2, PublishKeeps, UploadKeeps, UninstallKeeps DEF Next

LEMMA UpdateInvariant == Spec => []UpdateInv
BY InitUpdate, StepUpdate, PTL DEF Spec

-----------------------------------------------------------------------------
(* Every variable stays within its type.                                    *)
THEOREM UpdateTypes == Spec => []TypeOK
<1>1. UpdateInv => TypeOK
  BY DEF UpdateInv
<1> QED BY <1>1, UpdateInvariant, PTL

(* What is installed was built, is the release its updater selected, and is *)
(* newer than the one that updater ran from.                                *)
THEOREM InstallsTheChosenRelease == Spec => []InstalledIsTheChosenRelease
<1>1. UpdateInv => InstalledIsTheChosenRelease
  BY DEF UpdateInv, InstalledIsTheChosenRelease, Genuine, Installed, RunOK, Underway, Selected
<1> QED BY <1>1, UpdateInvariant, PTL

(* Weaker evidence is accepted only where there was no stronger one.        *)
THEOREM EvidenceIsNeverWeakened == Spec => []WeakEvidenceOnlyWhenAbsent
<1>1. UpdateInv => WeakEvidenceOnlyWhenAbsent
  BY DEF UpdateInv, WeakEvidenceOnlyWhenAbsent, RunOK, NoManifest, NoAsset
<1> QED BY <1>1, UpdateInvariant, PTL

-----------------------------------------------------------------------------
(* The lock belongs to the Unix commit, the helper to Windows, and a lock   *)
(* that a transaction has kept lets no other transaction begin.             *)
LockInv ==
  /\ locked => ~windows
  /\ \A u \in Updaters :
       /\ helper[u].state # "none" => windows
       /\ up[u].pc = "recovery" => locked /\ \A d \in Updaters \ {u} : up[d].pc # "recovery"

(* A step in which nobody asks for recovery, and no lock is given back. *)
LEMMA LockUntouched ==
  ASSUME LockInv, windows' = windows, locked' = locked \/ (~locked /\ ~windows),
         locked' \in BOOLEAN,
         \A d \in Updaters : up'[d].pc = "recovery" => up[d].pc = "recovery",
         \A d \in Updaters : helper'[d].state # "none" => helper[d].state # "none" \/ windows
  PROVE  LockInv'
BY DEF LockInv

LEMMA LockStepKeeps ==
  ASSUME UpdateInv, LockInv, [Next]_vars
  PROVE  LockInv'
<1>0. /\ up \in [Updaters -> Run] /\ helper \in [Updaters -> HelperRun] /\ locked \in BOOLEAN
  BY RunType DEF UpdateInv
<1>1. ASSUME NEW u \in Updaters, Update(u), ~commit_artifact_set(u), ~replace_current(u)
      PROVE  LockInv'
  <2>1. windows' = windows /\ locked' = locked /\ helper' = helper
    BY <1>1 DEF Update, Start, GiveUp, prepare_candidate_async,
       acquire_manifest_artifact, fetch_legacy_binary, Download, verify_legacy_checksum,
       cargo_candidate, validate_staged, commit_denied, Exit, External, facts, disk
  <2>2. up'[u].pc # "recovery" /\ \A d \in Updaters \ {u} : up'[d] = up[d]
    <3>1. CASE Failed(u)
      BY <1>0, <3>1, Fails
    <3>2. CASE Start(u) /\ ~Failed(u)
      BY <1>0, <3>2, StartMoves, StartGoes DEF Moved
    <3>3. CASE Exit(u)
      BY <1>0, <3>3 DEF Exit, GoTo, Run
    <3>4. CASE ~Failed(u) /\ ~Start(u) /\ ~Exit(u)
      <4>1. \/ prepare_candidate_async(u) \/ acquire_manifest_artifact(u)
            \/ fetch_legacy_binary(u) \/ verify_legacy_checksum(u) \/ cargo_candidate(u)
            \/ validate_staged(u)
        BY <1>1, <3>4 DEF Update, GiveUp, commit_denied
      <4> QED BY <3>4, <4>1, ProceedsTo
    <3> QED BY <3>1, <3>2, <3>3, <3>4
  <2> QED BY <1>0, <2>1, <2>2, LockUntouched
<1>2. ASSUME NEW u \in Updaters, commit_artifact_set(u)
      PROVE  LockInv'
  <2>1. /\ windows' = windows /\ ~windows /\ ~locked /\ helper' = helper /\ up[u].pc = "commit"
    BY <1>2 DEF commit_artifact_set, facts
  <2>2. CASE GoTo(u, "updated") /\ UNCHANGED locked
    <3>1. up'[u].pc = "updated" /\ \A d \in Updaters \ {u} : up'[d] = up[d]
      BY <2>1, <2>2, LeavesCommit
    <3> QED BY <1>0, <2>1, <2>2, <3>1, LockUntouched
  <2>3. CASE Failed(u) /\ UNCHANGED disk
    BY <1>0, <2>1, <2>3, Fails, LockUntouched DEF disk
  <2>4. CASE Undecided(u, "recovery") /\ locked' = TRUE
    <3>1. up'[u].pc = "recovery" /\ \A d \in Updaters \ {u} : up'[d] = up[d]
      BY <2>1, <2>4, UndecidedDisk, LeavesCommit
    <3> QED BY <2>1, <2>4, <3>1 DEF LockInv
  <2> QED BY <1>2, <2>2, <2>3, <2>4 DEF commit_artifact_set, Transact
<1>3. ASSUME NEW u \in Updaters, replace_current(u)
      PROVE  LockInv'
  <2>1. windows' = windows /\ windows /\ locked' = locked /\ up[u].pc = "commit"
    BY <1>3 DEF replace_current, facts, disk
  <2>2. up'[u].pc # "recovery" /\ \A d \in Updaters \ {u} : up'[d] = up[d]
    BY <1>3, <2>1, Fails, LeavesCommit DEF replace_current
  <2> QED BY <1>0, <2>1, <2>2, LockUntouched
<1>4. ASSUME NEW u \in Updaters, Kill(u)
      PROVE  LockInv'
  <2>1. windows' = windows
    BY <1>4 DEF Kill, facts
  <2>2. CASE /\ up' = [up EXCEPT ![u] = [FreshRun EXCEPT !.pc = "killed"]]
             /\ \/ UNCHANGED helper
                \/ up[u].pc = "commit" /\ windows /\ LeavesCopy(u)
             /\ UNCHANGED disk
    <3>1. up'[u].pc = "killed" /\ \A d \in Updaters \ {u} : up'[d] = up[d]
      BY <1>0, <2>2 DEF FreshRun
    <3> QED BY <1>0, <2>1, <2>2, <3>1, LockUntouched DEF disk
  <2>3. CASE /\ up[u].pc = "commit" /\ ~windows /\ ~locked
             /\ Undecided(u, "interrupted") /\ locked' \in BOOLEAN /\ UNCHANGED helper
    <3>1. up'[u].pc = "interrupted" /\ \A d \in Updaters \ {u} : up'[d] = up[d]
      BY <2>3, UndecidedDisk, LeavesCommit
    <3> QED BY <1>0, <2>1, <2>3, <3>1, LockUntouched
  <2> QED BY <1>4, <2>2, <2>3 DEF Kill
<1>5. ASSUME NEW u \in Updaters, Help(u) \/ Disturb(u) \/ KillHelper(u)
      PROVE  LockInv'
  <2>1. /\ windows' = windows /\ locked' = locked /\ up' = up
        /\ \A d \in Updaters \ {u} : helper'[d] = helper[d]
        /\ helper[u].state = "none" => helper'[u].state = "none"
    BY <1>0, <1>5 DEF Help, ParentGone, MoveInto, MoveFails, WriteStatus, Disturb, KillHelper,
       HelperOnly, HelperRun, facts, disk
  <2> QED BY <1>0, <2>1, LockUntouched
<1>6. CASE Publish \/ Uninstall \/ (\E v \in 2..MaxRelease : Upload(v)) \/ UNCHANGED vars
  <2>1. windows' = windows /\ locked' = locked /\ up' = up /\ helper' = helper
    BY <1>6 DEF Publish, Uninstall, Upload, vars, facts, disk
  <2> QED BY <2>1 DEF LockInv
<1> QED BY <1>1, <1>2, <1>3, <1>4, <1>5, <1>6 DEF Next, Faults, Update

LEMMA LockInvariant == Spec => []LockInv
<1>1. Init => LockInv
  BY DEF Init, LockInv, NoHelper, FreshRun
<1> QED BY <1>1, LockStepKeeps, UpdateInvariant, PTL DEF Spec

(* An update that ended with an error installed nothing and leaves nobody   *)
(* who will, except that the one whose transaction asked for manual         *)
(* recovery may have; it has kept the lock, and is the only one.            *)
THEOREM FailuresInstallNothing == Spec => []FailedUpdateInstallsNothing
<1>1. UpdateInv /\ LockInv => FailedUpdateInstallsNothing
  BY DEF UpdateInv, LockInv, FailedUpdateInstallsNothing, Installed, HelperOK, Finished
<1> QED BY <1>1, UpdateInvariant, LockInvariant, PTL

-----------------------------------------------------------------------------
(* The refinement: what the steps of an updater, of its helper and of the   *)
(* world amount to for whoever runs the executable.                         *)

Fates   == [d \in Updaters |-> Fate(d)]
Choices == [d \in Updaters |-> ChosenBy(d)]
Seen    == <<InstalledVersion, locked, Choices, Fates>>

OthersStay(u) == \A d \in Updaters \ {u} : up'[d] = up[d] /\ helper'[d] = helper[d]

LEMMA SeenOfOthers ==
  ASSUME NEW u \in Updaters, OthersStay(u)
  PROVE  /\ Fates' = [Fates EXCEPT ![u] = Fate(u)']
         /\ Choices' = [Choices EXCEPT ![u] = ChosenBy(u)']
<1>1. ASSUME NEW d \in Updaters, d # u
      PROVE  Fate(d)' = Fate(d) /\ ChosenBy(d)' = ChosenBy(d)
  <2>1. up'[d] = up[d] /\ helper'[d] = helper[d]
    BY <1>1 DEF OthersStay
  <2> QED BY <2>1 DEF Fate, ChosenBy
<1> QED BY <1>1 DEF Fates, Choices

(* A step that the promise does not see. *)
LEMMA Unseen ==
  ASSUME NEW u \in Updaters, OthersStay(u), target' = target, locked' = locked,
         Fate(u)' = Fate(u), up'[u].chosen = up[u].chosen
  PROVE  UNCHANGED Seen
<1>1. ChosenBy(u)' = ChosenBy(u)
  BY DEF ChosenBy
<1>2. Fates' = Fates /\ Choices' = Choices
  BY <1>1, SeenOfOthers DEF Fates, Choices
<1> QED BY <1>2 DEF Seen, InstalledVersion

LEMMA FateAtWork ==
  ASSUME UpdateInv, NEW u \in Updaters
  PROVE  /\ up[u].pc \in Working => Fate(u) = "open"
         /\ up[u].pc = "idle" => Fate(u) = "idle"
BY AtWork DEF Fate, Working

(* An update that is over. *)
LEMMA Closing ==
  ASSUME NEW u \in Updaters, OthersStay(u), Fate(u) \in {"idle", "open"}, Fate(u)' = "over",
         target' = target, locked' = locked
  PROVE  Promise!Close(u)
<1>1. ChosenBy(u)' = 0
  BY DEF ChosenBy
<1>2. Fates[u] = Fate(u)
  BY DEF Fates
<1>3. InstalledVersion' = InstalledVersion
  BY DEF InstalledVersion
<1> QED BY <1>1, <1>2, <1>3, SeenOfOthers DEF Promise!Close, Promise!Ends, Fates, Choices

(* A transaction that ends without knowing what it has done. *)
LEMMA Doubting ==
  ASSUME UpdateInv, NEW u \in Updaters, up[u].pc = "commit", ~locked, locked' \in BOOLEAN,
         NEW p \in {"recovery", "interrupted"}, Undecided(u, p), helper' = helper
  PROVE  Promise!Doubt(u)
<1>1. /\ up'[u].pc = p /\ \A d \in Updaters \ {u} : up'[d] = up[d]
      /\ up[u].candidate = Release(up[u].chosen) /\ Release(up[u].chosen) \in Image
  BY UndecidedDisk, LeavesCommit
<1>2. helper[u].state = "none" /\ Fate(u) = "open" /\ OthersStay(u)
  BY <1>1, AtWork, FateAtWork DEF Working, OthersStay
<1>3. Fate(u)' = "unsure" /\ ChosenBy(u)' = 0 /\ ChosenBy(u) = up[u].chosen
  BY <1>1, <1>2 DEF Fate, ChosenBy
<1>4. Fates[u] = "open" /\ Choices[u] = up[u].chosen
  BY <1>2, <1>3 DEF Fates, Choices
<1>5. InstalledVersion' \in {InstalledVersion, 0, up[u].chosen}
  <2>1. target' \in {target, NoFile, Release(up[u].chosen)}
    BY <1>1 DEF Undecided
  <2>2. Release(up[u].chosen) # NoFile /\ Release(up[u].chosen).version = up[u].chosen
    BY <1>1, UpdateAssumption DEF Release
  <2> QED BY <2>1, <2>2 DEF InstalledVersion
<1> QED BY <1>2, <1>3, <1>4, <1>5, SeenOfOthers
        DEF Promise!Doubt, Promise!Ends, Fates, Choices

(* The executable is replaced by the release that was chosen. *)
LEMMA Installing ==
  ASSUME NEW u \in Updaters, OthersStay(u), Fate(u) = "open", Fate(u)' = "done",
         up'[u].chosen = up[u].chosen, up[u].chosen \in Versions,
         target' = Release(up[u].chosen), ~locked, locked' = locked, UpdateInv'
  PROVE  Promise!Install(u)
<1>1. ChosenBy(u)' = ChosenBy(u) /\ ChosenBy(u) = up[u].chosen
  BY DEF ChosenBy
<1>2. Fates[u] = Fate(u) /\ Choices[u] = ChosenBy(u)
  BY DEF Fates, Choices
<1>3. InstalledVersion' = up[u].chosen
  <2>1. target' # NoFile
    BY ReleaseFacts, UpdateAssumption
  <2> QED BY <2>1, ReleaseFacts DEF InstalledVersion
<1>4. Choices' = Choices
  BY <1>1, SeenOfOthers DEF Choices
<1> QED BY <1>1, <1>2, <1>3, <1>4, SeenOfOthers DEF Promise!Install, Fates, Choices

LEMMA FailingCloses ==
  ASSUME UpdateInv, NEW u \in Updaters, Failed(u), OthersStay(u),
         up[u].pc \in Working \cup {"idle"}, helper'[u].state = "none",
         target' = target, locked' = locked
  PROVE  Promise!Close(u)
<1>1. Fate(u)' = "over"
  BY Fails DEF Fate
<1> QED BY <1>1, FateAtWork, Closing

LEMMA StartSeen ==
  ASSUME UpdateInv, NEW u \in Updaters, Start(u)
  PROVE  Promise!Next
<1>1. /\ up \in [Updaters -> Run] /\ up[u].pc = "idle" /\ helper[u].state = "none"
      /\ target \in Image /\ target # NoFile /\ Genuine(target)
      /\ latest \in 1..MaxRelease /\ MaxRelease \in Nat
      /\ target' = target /\ locked' = locked /\ helper' = helper
  BY RunType, AtWork, UpdateAssumption DEF UpdateInv, Start, External, disk
<1>2. OthersStay(u)
  BY <1>1 DEF Start, OthersStay
<1>3. CASE is_already_current(target.version, latest)
  <2>1. up'[u].pc = "current"
    BY <1>1, <1>3 DEF Start, Run
  <2>2. Fate(u)' = "over"
    BY <1>1, <2>1 DEF Fate
  <2> QED BY <1>1, <1>2, <2>2, FateAtWork, Closing DEF Promise!Next
<1>4. CASE ~is_already_current(target.version, latest)
  <2>1. target.version \in Versions /\ latest > target.version /\ target.version \in Nat
    BY <1>1, <1>4 DEF is_already_current, Image, Versions
  <2>2. up'[u].pc \in {"manifest", "cargo"} /\ up'[u].chosen = latest
    BY <1>4, StartGoes
  <2>3. Fate(u)' = "open" /\ Fate(u) = "idle"
    BY <1>1, <2>2, FateAtWork DEF Fate
  <2>4. ChosenBy(u)' = latest /\ Fates[u] = "idle"
    BY <2>2, <2>3 DEF ChosenBy, Fates
  <2>5. InstalledVersion = target.version /\ InstalledVersion' = InstalledVersion
        /\ InstalledVersion # 0
    BY <1>1, <2>1 DEF InstalledVersion, Genuine
  <2>6. Promise!Choose(u)
    BY <1>1, <1>2, <2>1, <2>3, <2>4, <2>5, SeenOfOthers DEF Promise!Choose, Fates, Choices
  <2> QED BY <2>6 DEF Promise!Next
<1> QED BY <1>3, <1>4

(* Between its start and its commit an updater shows nothing.               *)
LEMMA Proceeding ==
  ASSUME UpdateInv, NEW u \in Updaters,
         \/ prepare_candidate_async(u) \/ acquire_manifest_artifact(u)
         \/ fetch_legacy_binary(u) \/ verify_legacy_checksum(u) \/ cargo_candidate(u)
         \/ validate_staged(u)
  PROVE  Promise!Next \/ UNCHANGED Seen
<1>1. /\ up[u].pc \in Working /\ External
      /\ up \in [Updaters -> Run] /\ up[u] \in Run
  BY RunType DEF prepare_candidate_async, acquire_manifest_artifact, fetch_legacy_binary,
     verify_legacy_checksum, cargo_candidate, validate_staged, Working, UpdateInv
<1>2. /\ target' = target /\ locked' = locked /\ helper' = helper /\ helper[u].state = "none"
  BY <1>1, AtWork DEF External, disk
<1>3. CASE Failed(u)
  <2>1. OthersStay(u)
    BY <1>2, <1>3, Fails DEF OthersStay
  <2> QED BY <1>1, <1>2, <1>3, <2>1, FailingCloses DEF Promise!Next
<1>4. CASE ~Failed(u)
  <2>1. /\ up'[u].pc \in {"binary", "artifact", "prepare", "cargo", "checksum", "commit"}
        /\ up'[u].chosen = up[u].chosen
        /\ \A d \in Updaters \ {u} : up'[d] = up[d]
    BY <1>4, ProceedsTo
  <2>2. Fate(u)' = "open" /\ Fate(u) = "open"
    BY <1>1, <1>2, <2>1, FateAtWork DEF Fate
  <2>3. OthersStay(u)
    BY <1>2, <2>1 DEF OthersStay
  <2> QED BY <1>2, <2>1, <2>2, <2>3, Unseen
<1> QED BY <1>3, <1>4

LEMMA CommitSeen ==
  ASSUME UpdateInv, UpdateInv', NEW u \in Updaters, commit_artifact_set(u)
  PROVE  Promise!Next
<1>1. /\ up[u].pc = "commit" /\ up[u].pc \in Working /\ ~locked /\ helper' = helper
      /\ helper[u].state = "none" /\ up[u].chosen \in Versions
  <2>1. up[u].pc = "commit" /\ up[u].pc \in Underway
    BY DEF commit_artifact_set, Underway, Working
  <2> QED BY <2>1, AtWork, OfTheRelease DEF commit_artifact_set, Working
<1>2. CASE Failed(u) /\ UNCHANGED disk
  <2>1. OthersStay(u)
    BY <1>1, <1>2, Fails DEF OthersStay
  <2> QED BY <1>1, <1>2, <2>1, FailingCloses DEF Promise!Next, disk
<1>3. CASE Undecided(u, "recovery") /\ locked' = TRUE
  <2>1. locked' \in BOOLEAN
    BY <1>3
  <2> QED BY <1>1, <1>3, <2>1, Doubting DEF Promise!Next
<1>4. CASE target' = up[u].candidate /\ GoTo(u, "updated") /\ UNCHANGED locked
  <2>1. /\ up'[u].pc = "updated" /\ up'[u].chosen = up[u].chosen
        /\ \A d \in Updaters \ {u} : up'[d] = up[d]
        /\ up[u].candidate = Release(up[u].chosen)
    BY <1>1, <1>4, LeavesCommit
  <2>2. OthersStay(u) /\ Fate(u) = "open" /\ Fate(u)' = "done"
    BY <1>1, <2>1, FateAtWork DEF OthersStay, Fate
  <2> QED BY <1>1, <1>4, <2>1, <2>2, Installing DEF Promise!Next
<1> QED BY <1>2, <1>3, <1>4 DEF commit_artifact_set, Transact

LEMMA ReplaceSeen ==
  ASSUME UpdateInv, NEW u \in Updaters, replace_current(u)
  PROVE  Promise!Next \/ UNCHANGED Seen
<1>1. /\ up[u].pc = "commit" /\ up[u].pc \in Working
      /\ helper \in [Updaters -> HelperRun]
      /\ helper[u].state = "none" /\ target' = target /\ locked' = locked
  BY RunType, AtWork DEF replace_current, Working, UpdateInv, disk
<1>2. CASE LeavesCopy(u) /\ Failed(u)
  <2>1. OthersStay(u) /\ helper'[u].state = "none"
    BY <1>1, <1>2, Fails, CopyLeavesHelper DEF OthersStay
  <2> QED BY <1>1, <1>2, <2>1, FailingCloses DEF Promise!Next
<1>3. CASE /\ helper' = [helper EXCEPT ![u].copy = up[u].candidate, ![u].state = "waiting"]
           /\ GoTo(u, "staged")
  <2>1. /\ up'[u].pc = "staged" /\ up'[u].chosen = up[u].chosen
        /\ \A d \in Updaters \ {u} : up'[d] = up[d]
    BY <1>1, <1>3, LeavesCommit
  <2>2. helper'[u].state = "waiting" /\ OthersStay(u)
    BY <1>1, <1>3, <2>1 DEF HelperRun, OthersStay
  <2>3. Fate(u) = "open" /\ Fate(u)' = "open"
    BY <1>1, <2>1, <2>2, FateAtWork DEF Fate
  <2> QED BY <1>1, <2>1, <2>2, <2>3, Unseen
<1> QED BY <1>2, <1>3 DEF replace_current

LEMMA HelperSeen ==
  ASSUME UpdateInv, UpdateInv', LockInv, NEW u \in Updaters,
         \/ Exit(u) \/ ParentGone(u) \/ MoveInto(u) \/ MoveFails(u) \/ WriteStatus(u)
         \/ Disturb(u) \/ KillHelper(u)
  PROVE  Promise!Next \/ UNCHANGED Seen
<1>1. /\ up \in [Updaters -> Run] /\ helper \in [Updaters -> HelperRun]
      /\ RunOK(up[u]) /\ HelperOK(u)
  BY RunType DEF UpdateInv
<1>2. OthersStay(u)
  BY <1>1 DEF Exit, GoTo, External, ParentGone, MoveInto, MoveFails, WriteStatus, Disturb,
     KillHelper, HelperOnly, OthersStay
<1>0. locked' = locked
  BY DEF Exit, External, ParentGone, MoveInto, MoveFails, WriteStatus, Disturb,
     KillHelper, HelperOnly, disk
<1>3. CASE Exit(u)
  <2>1. /\ up[u].pc = "staged" /\ up'[u].pc = "exited" /\ up'[u].chosen = up[u].chosen
        /\ helper' = helper /\ target' = target
    BY <1>1, <1>3 DEF Exit, GoTo, External, Run, disk
  <2>2. Fate(u)' = Fate(u)
    BY <2>1 DEF Fate
  <2> QED BY <1>0, <1>2, <2>1, <2>2, Unseen
<1>4. CASE ParentGone(u) \/ MoveFails(u) \/ Disturb(u)
  <2>1. /\ up' = up /\ target' = target
        /\ \/ helper'[u].state = helper[u].state
           \/ helper[u].state = "waiting" /\ helper'[u].state = "trying"
    BY <1>1, <1>4 DEF ParentGone, MoveFails, Disturb, HelperOnly, HelperRun, disk
  <2>2. Fate(u)' = Fate(u)
    BY <2>1 DEF Fate
  <2> QED BY <1>0, <1>2, <2>1, <2>2, Unseen
<1>5. CASE WriteStatus(u) \/ KillHelper(u)
  <2>1. /\ up' = up /\ target' = target /\ helper[u].state \in {"waiting", "trying"}
        /\ helper'[u].state \in {"failed", "killed"}
        /\ up[u].pc \in {"staged", "exited"}
    BY <1>1, <1>5 DEF WriteStatus, KillHelper, HelperOnly, HelperRun, HelperOK, disk
  <2>2. Fate(u) = "open" /\ Fate(u)' = "over"
    BY <2>1 DEF Fate
  <2> QED BY <1>0, <1>2, <2>1, <2>2, Closing DEF Promise!Next
<1>6. CASE MoveInto(u)
  <2>1. /\ up' = up /\ helper[u].state = "trying" /\ helper'[u].state = "installed"
        /\ up[u].pc \in {"staged", "exited"} /\ target' = up[u].digest
    BY <1>1, <1>6 DEF MoveInto, HelperRun, HelperOK
  <2>2. up[u].digest = Release(up[u].chosen) /\ up[u].chosen \in Versions
    BY <1>1, <2>1, OfTheRelease DEF RunOK, Underway
  <2>3. Fate(u) = "open" /\ Fate(u)' = "done"
    BY <2>1 DEF Fate
  <2>4. ~locked
    BY <2>1 DEF LockInv
  <2> QED BY <1>0, <1>2, <2>1, <2>2, <2>3, <2>4, Installing DEF Promise!Next
<1> QED BY <1>3, <1>4, <1>5, <1>6

LEMMA InitSeen ==
  ASSUME Init
  PROVE  Promise!Init
<1>1. 1 \in Versions /\ 1 \in 1..MaxRelease
  BY UpdateAssumption DEF Versions
<1>2. InstalledVersion = 1 /\ locked = FALSE
  BY <1>1, ReleaseFacts, UpdateAssumption DEF Init, InstalledVersion
<1>3. \A d \in Updaters : Fate(d) = "idle" /\ ChosenBy(d) = 0
  BY DEF Init, FreshRun, NoHelper, Fate, ChosenBy
<1> QED BY <1>1, <1>2, <1>3 DEF Promise!Init

LEMMA StepSeen ==
  ASSUME UpdateInv, UpdateInv', LockInv, [Next]_vars
  PROVE  [Promise!Next]_(Promise!vars)
<1> SUFFICES Promise!Next \/ UNCHANGED Seen
  BY DEF Promise!vars, Seen, Fates, Choices
<1>1. ASSUME NEW u \in Updaters, GiveUp(u) \/ commit_denied(u)
      PROVE  Promise!Next
  <2>1. /\ Failed(u) /\ up[u].pc \in Working \cup {"idle"} /\ helper' = helper
        /\ target' = target /\ locked' = locked
    BY <1>1 DEF GiveUp, commit_denied, External, disk, Working
  <2>2. OthersStay(u) /\ helper'[u].state = "none"
    BY <2>1, Fails, AtWork DEF OthersStay
  <2> QED BY <2>1, <2>2, FailingCloses DEF Promise!Next
<1>2. ASSUME NEW u \in Updaters, Kill(u)
      PROVE  Promise!Next
  <2>1. /\ up[u].pc \in Working /\ up \in [Updaters -> Run] /\ helper[u].state = "none"
    BY <1>2, RunType, AtWork DEF Kill, UpdateInv
  <2>2. CASE /\ up' = [up EXCEPT ![u] = [FreshRun EXCEPT !.pc = "killed"]]
             /\ \/ UNCHANGED helper
                \/ up[u].pc = "commit" /\ windows /\ LeavesCopy(u)
             /\ UNCHANGED disk
    <3>1. up'[u].pc = "killed" /\ \A d \in Updaters \ {u} : up'[d] = up[d]
      BY <2>1, <2>2 DEF FreshRun
    <3>2. OthersStay(u) /\ helper'[u].state = "none"
      BY <2>1, <2>2, <3>1, CopyLeavesHelper DEF OthersStay
    <3>3. Fate(u)' = "over" /\ Fate(u) = "open"
      BY <2>1, <3>1, <3>2, FateAtWork DEF Fate
    <3> QED BY <2>2, <3>2, <3>3, Closing DEF Promise!Next, disk
  <2>3. CASE /\ up[u].pc = "commit" /\ ~locked /\ Undecided(u, "interrupted")
             /\ locked' \in BOOLEAN /\ UNCHANGED helper
    BY <2>3, Doubting DEF Promise!Next
  <2> QED BY <1>2, <2>2, <2>3 DEF Kill
<1>3. ASSUME NEW u \in Updaters, Update(u) \/ Help(u) \/ Faults(u)
      PROVE  Promise!Next \/ UNCHANGED Seen
  BY <1>1, <1>2, <1>3, StartSeen, Proceeding, CommitSeen, ReplaceSeen, HelperSeen
  DEF Update, Help, Faults
<1>4. CASE Uninstall
  <2>1. InstalledVersion' = 0 /\ locked' = locked /\ up' = up /\ helper' = helper
    BY <1>4 DEF Uninstall, InstalledVersion
  <2>2. \A d \in Updaters : Fate(d)' = Fate(d) /\ ChosenBy(d)' = ChosenBy(d)
    BY <2>1 DEF Fate, ChosenBy
  <2> QED BY <2>1, <2>2 DEF Promise!Next, Promise!Remove
<1>5. CASE Publish \/ (\E v \in 2..MaxRelease : Upload(v)) \/ UNCHANGED vars
  <2>1. target' = target /\ locked' = locked /\ up' = up /\ helper' = helper
    BY <1>5 DEF Publish, Upload, vars, disk
  <2>2. \A d \in Updaters : Fate(d)' = Fate(d) /\ ChosenBy(d)' = ChosenBy(d)
    BY <2>1 DEF Fate, ChosenBy
  <2> QED BY <2>1, <2>2 DEF Seen, Fates, Choices, InstalledVersion
<1> QED BY <1>3, <1>4, <1>5 DEF Next

(* Every behaviour of the updaters and their helpers is one of the abstract *)
(* specification: each update installs what it chose in one step, once, or  *)
(* is over and never installs anything; only a transaction that asked for   *)
(* recovery or was killed leaves that open, and once one has kept the lock  *)
(* nothing is installed any more.                                           *)
THEOREM UpdatesAreAtomic == Spec => UpdatesAtomically
<1>1. Init => Promise!Init
  BY InitSeen
<1>2. UpdateInv /\ UpdateInv' /\ LockInv /\ [Next]_vars => [Promise!Next]_(Promise!vars)
  BY StepSeen
<1> QED BY <1>1, <1>2, UpdateInvariant, LockInvariant, PTL DEF Spec, UpdatesAtomically, Promise!Spec
-----------------------------------------------------------------------------
(* Termination.  There is an end to what an update, its helper with its     *)
(* retries, and the world around them can still do: with a process that     *)
(* takes its next step (UpdatesSettle assumes no more) every update ends.   *)

RunSteps == [idle |-> 7, manifest |-> 6, binary |-> 5, artifact |-> 4, checksum |-> 4,
             cargo |-> 4, prepare |-> 3, commit |-> 2, staged |-> 1,
             current |-> 0, updated |-> 0, failed |-> 0, exited |-> 0, killed |-> 0,
             recovery |-> 0, interrupted |-> 0]
RunLeft(u)    == RunSteps[up[u].pc]
HelperLeft(u) == CASE helper[u].state = "none" -> MaxAttempts + 3
                   [] helper[u].state = "waiting" -> MaxAttempts + 2
                   [] helper[u].state = "trying" -> MaxAttempts + 1 - helper[u].attempts
                   [] OTHER -> 0
AtWorkYet(u)  == up[u].pc \in Working \cup {"idle"}
CopyLeft(u)   == IF AtWorkYet(u) THEN 3
                 ELSE IF helper[u].copy = NoFile THEN 0
                 ELSE IF helper[u].copy.intact THEN 2 ELSE 1
ReleasesLeft  == MaxRelease - latest
AssetLeft(v, a) == IF origin[v][a] = "absent" THEN 1 ELSE 0
Assets        == {"manifest", "binary", "checksum"}

Counters ==
  /\ \A u \in Updaters : RunLeft(u) \in Nat /\ HelperLeft(u) \in Nat /\ CopyLeft(u) \in Nat
  /\ ReleasesLeft \in Nat
  /\ \A v \in 2..MaxRelease, a \in Assets : AssetLeft(v, a) \in Nat
NoMore ==
  /\ \A u \in Updaters : /\ RunLeft(u)' <= RunLeft(u)
                         /\ HelperLeft(u)' <= HelperLeft(u)
                         /\ CopyLeft(u)' <= CopyLeft(u)
  /\ ReleasesLeft' <= ReleasesLeft
  /\ \A v \in 2..MaxRelease, a \in Assets : AssetLeft(v, a)' <= AssetLeft(v, a)
Fewer ==
  \/ \E u \in Updaters : \/ RunLeft(u)' < RunLeft(u)
                         \/ HelperLeft(u)' < HelperLeft(u)
                         \/ CopyLeft(u)' < CopyLeft(u)
  \/ ReleasesLeft' < ReleasesLeft
  \/ \E v \in 2..MaxRelease, a \in Assets : AssetLeft(v, a)' < AssetLeft(v, a)

(* The executable may be removed again whenever a helper has put it back;   *)
(* but putting it back uses up the helper.                                  *)
Removed == target # NoFile /\ target' = NoFile
EveryStepCounts == [][NoMore /\ (Fewer \/ Removed)]_vars

(* An updater that has not come to its end has no adjacent copy yet. *)
CopyInv == \A u \in Updaters : AtWorkYet(u) => helper[u].copy = NoFile

LEMMA RunRanks ==
  ASSUME UpdateInv, NEW u \in Updaters
  PROVE  RunLeft(u) \in Nat
BY DEF UpdateInv, TypeOK, Working, Finished, RunSteps, RunLeft

LEMMA LeftTypes == UpdateInv => Counters
<1> SUFFICES ASSUME UpdateInv PROVE Counters
  OBVIOUS
<1>1. ASSUME NEW u \in Updaters
      PROVE  HelperLeft(u) \in Nat
  BY UpdateAssumption DEF UpdateInv, TypeOK, HelperLeft
<1>2. ReleasesLeft \in Nat
  BY UpdateAssumption DEF UpdateInv, TypeOK, ReleasesLeft
<1> QED BY <1>1, <1>2, RunRanks DEF Counters, CopyLeft, AssetLeft

LEMMA LeftTypesNext == UpdateInv' => Counters'
BY LeftTypes, PTL

(* A step of one updater or of its helper: its counters do not go up, one   *)
(* of them goes down, and the world stands still.                           *)
LEMMA OneUpdaterCounts ==
  ASSUME UpdateInv, UpdateInv', NEW u \in Updaters, OthersStay(u), UNCHANGED world,
         RunLeft(u)' < RunLeft(u) \/ RunLeft(u)' = RunLeft(u),
         HelperLeft(u)' < HelperLeft(u) \/ HelperLeft(u)' = HelperLeft(u),
         CopyLeft(u)' < CopyLeft(u) \/ CopyLeft(u)' = CopyLeft(u),
         \/ RunLeft(u)' < RunLeft(u)
         \/ HelperLeft(u)' < HelperLeft(u)
         \/ CopyLeft(u)' < CopyLeft(u)
  PROVE  NoMore /\ Fewer
<1>1. Counters /\ Counters'
  BY LeftTypes, LeftTypesNext
<1>2. ASSUME NEW d \in Updaters, d # u
      PROVE  /\ RunLeft(d)' = RunLeft(d) /\ HelperLeft(d)' = HelperLeft(d)
             /\ CopyLeft(d)' = CopyLeft(d)
  <2>1. up'[d] = up[d] /\ helper'[d] = helper[d]
    BY <1>2 DEF OthersStay
  <2> QED BY <2>1 DEF RunLeft, HelperLeft, CopyLeft, AtWorkYet
<1>3. /\ ReleasesLeft' = ReleasesLeft
      /\ \A v \in 2..MaxRelease, a \in Assets : AssetLeft(v, a)' = AssetLeft(v, a)
  BY DEF world, ReleasesLeft, AssetLeft
<1>4. \A d \in Updaters : /\ RunLeft(d)' <= RunLeft(d)
                          /\ HelperLeft(d)' <= HelperLeft(d)
                          /\ CopyLeft(d)' <= CopyLeft(d)
  BY <1>1, <1>2 DEF Counters
<1>5. /\ ReleasesLeft' <= ReleasesLeft
      /\ \A v \in 2..MaxRelease, a \in Assets : AssetLeft(v, a)' <= AssetLeft(v, a)
  BY <1>1, <1>3 DEF Counters
<1> QED BY <1>4, <1>5 DEF NoMore, Fewer

(* An updater that moves on, or ends, without having made a copy. *)
LEMMA MovingOnCounts ==
  ASSUME UpdateInv, UpdateInv', CopyInv, NEW u \in Updaters, AtWorkYet(u),
         External, \A d \in Updaters \ {u} : up'[d] = up[d],
         RunSteps[up'[u].pc] < RunSteps[up[u].pc]
  PROVE  NoMore /\ Fewer
<1>1. helper' = helper /\ UNCHANGED world
  BY DEF External
<1>2. OthersStay(u) /\ RunLeft(u)' < RunLeft(u) /\ HelperLeft(u)' = HelperLeft(u)
  BY <1>1 DEF OthersStay, RunLeft, HelperLeft
<1>3. CopyLeft(u)' = 3 \/ CopyLeft(u)' = 0
  BY <1>1 DEF CopyLeft, CopyInv
<1>4. CopyLeft(u)' < CopyLeft(u) \/ CopyLeft(u)' = CopyLeft(u)
  BY <1>3 DEF CopyLeft
<1> QED BY <1>1, <1>2, <1>4, OneUpdaterCounts

LEMMA Ranks ==
  ASSUME NEW p, NEW q,
         \/ p \in Working \cup {"idle"} /\ q \in Finished
         \/ p = "idle" /\ q \in {"manifest", "cargo"}
         \/ p = "manifest" /\ q \in {"artifact", "binary"}
         \/ p = "binary" /\ q \in {"checksum", "cargo"}
         \/ p \in {"artifact", "checksum", "cargo"} /\ q = "prepare"
         \/ p = "prepare" /\ q = "commit"
         \/ p = "commit" /\ q = "staged"
  PROVE  RunSteps[q] < RunSteps[p]
BY DEF RunSteps, Working, Finished

LEMMA StartCounts ==
  ASSUME UpdateInv, UpdateInv', CopyInv, NEW u \in Updaters, Start(u)
  PROVE  NoMore /\ Fewer
<1>1. up \in [Updaters -> Run] /\ up[u].pc = "idle" /\ External /\ AtWorkYet(u)
  BY RunType DEF UpdateInv, Start, AtWorkYet
<1>2. up'[u].pc \in {"current", "manifest", "cargo"} /\ \A d \in Updaters \ {u} : up'[d] = up[d]
  BY StartGoes, StartMoves DEF Moved
<1>3. RunSteps[up'[u].pc] < RunSteps[up[u].pc]
  BY <1>1, <1>2, Ranks DEF Finished
<1> QED BY <1>1, <1>2, <1>3, MovingOnCounts

(* Failing ends a run, and so does being killed. *)
LEMMA EndingCounts ==
  ASSUME UpdateInv, UpdateInv', CopyInv, NEW u \in Updaters, AtWorkYet(u), External, Failed(u)
  PROVE  NoMore /\ Fewer
<1>1. up \in [Updaters -> Run]
  BY RunType DEF UpdateInv
<1>2. up'[u].pc \in Finished /\ \A d \in Updaters \ {u} : up'[d] = up[d]
  BY <1>1 DEF Failed, FreshRun, Finished
<1>3. RunSteps[up'[u].pc] < RunSteps[up[u].pc]
  BY <1>2, Ranks DEF AtWorkYet
<1> QED BY <1>2, <1>3, MovingOnCounts

(* A run that ends, or hands over to its helper, may leave a copy. *)
LEMMA LeavingCounts ==
  ASSUME UpdateInv, UpdateInv', CopyInv, NEW u \in Updaters, UNCHANGED world, OthersStay(u),
         \/ up[u].pc \in Working /\ up'[u].pc \in Finished
         \/ up[u].pc = "commit" /\ up'[u].pc = "staged",
         helper'[u].state \in {"none", "waiting"}
  PROVE  NoMore /\ Fewer
<1>1. AtWorkYet(u) /\ helper[u].state = "none"
  BY AtWork DEF AtWorkYet, Working
<1>2. RunLeft(u)' < RunLeft(u)
  BY Ranks DEF RunLeft
<1>3. HelperLeft(u)' < HelperLeft(u) \/ HelperLeft(u)' = HelperLeft(u)
  BY <1>1, UpdateAssumption DEF HelperLeft
<1>4. ~AtWorkYet(u)'
  BY DEF AtWorkYet, Working, Finished
<1>5. CopyLeft(u)' < CopyLeft(u)
  BY <1>1, <1>4 DEF CopyLeft
<1> QED BY <1>2, <1>3, <1>5, OneUpdaterCounts

LEMMA KillCounts ==
  ASSUME UpdateInv, UpdateInv', CopyInv, NEW u \in Updaters, Kill(u)
  PROVE  NoMore /\ Fewer
<1>1. /\ up[u].pc \in Working /\ up \in [Updaters -> Run] /\ UNCHANGED world
      /\ helper[u].state = "none"
  BY RunType, AtWork DEF Kill, UpdateInv
<1>2. /\ up'[u].pc \in {"killed", "interrupted"} /\ helper'[u].state = "none"
      /\ OthersStay(u)
  <2>1. CASE /\ up' = [up EXCEPT ![u] = [FreshRun EXCEPT !.pc = "killed"]]
             /\ \/ UNCHANGED helper
                \/ up[u].pc = "commit" /\ windows /\ LeavesCopy(u)
    <3>1. up'[u].pc = "killed" /\ \A d \in Updaters \ {u} : up'[d] = up[d]
      BY <1>1, <2>1 DEF FreshRun
    <3> QED BY <1>1, <2>1, <3>1, CopyLeavesHelper DEF OthersStay
  <2>2. CASE up[u].pc = "commit" /\ Undecided(u, "interrupted") /\ UNCHANGED helper
    <3>1. up'[u].pc = "interrupted" /\ \A d \in Updaters \ {u} : up'[d] = up[d]
      BY <2>2, UndecidedDisk, LeavesCommit
    <3> QED BY <1>1, <2>2, <3>1 DEF OthersStay
  <2> QED BY <2>1, <2>2 DEF Kill
<1> QED BY <1>1, <1>2, LeavingCounts DEF Finished

LEMMA ProceedingCounts ==
  ASSUME UpdateInv, UpdateInv', CopyInv, NEW u \in Updaters,
         \/ prepare_candidate_async(u) \/ acquire_manifest_artifact(u)
         \/ fetch_legacy_binary(u) \/ verify_legacy_checksum(u) \/ cargo_candidate(u)
         \/ validate_staged(u)
  PROVE  NoMore /\ Fewer
<1>1. External /\ AtWorkYet(u) /\ up \in [Updaters -> Run] /\ up[u] \in Run
  BY RunType DEF UpdateInv, prepare_candidate_async, acquire_manifest_artifact,
     fetch_legacy_binary, verify_legacy_checksum, cargo_candidate, validate_staged, AtWorkYet,
     Working
<1>3. CASE ~Failed(u)
  <2>1. RunSteps[up'[u].pc] < RunSteps[up[u].pc]
    BY <1>3, ProceedsTo, Ranks
  <2> QED BY <1>1, <1>3, <2>1, ProceedsTo, MovingOnCounts
<1> QED BY <1>1, <1>3, EndingCounts

(* The commit of an updater ends its run or hands over to its helper. *)
LEMMA CommitCounts ==
  ASSUME UpdateInv, UpdateInv', CopyInv, NEW u \in Updaters,
         commit_artifact_set(u) \/ replace_current(u)
  PROVE  NoMore /\ Fewer
<1>1. /\ helper \in [Updaters -> HelperRun] /\ up[u].pc = "commit" /\ up[u].pc \in Working
      /\ UNCHANGED world /\ helper[u].state = "none"
  BY RunType, AtWork DEF UpdateInv, commit_artifact_set, replace_current, Working
<1>2. /\ up'[u].pc \in Finished \cup {"staged"}
      /\ \A d \in Updaters \ {u} : up'[d] = up[d]
  <2>1. CASE Failed(u)
    BY <2>1, Fails DEF Finished
  <2>2. CASE ~Failed(u)
    <3>1. \E p \in {"updated", "recovery", "staged"} : GoTo(u, p)
      BY <2>2 DEF commit_artifact_set, Transact, Undecided, replace_current
    <3> QED BY <1>1, <3>1, LeavesCommit DEF Finished
  <2> QED BY <2>1, <2>2
<1>3. /\ helper'[u].state \in {"none", "waiting"}
      /\ \A d \in Updaters \ {u} : helper'[d] = helper[d]
  BY <1>1, CopyLeavesHelper DEF commit_artifact_set, replace_current, HelperRun
<1> QED BY <1>1, <1>2, <1>3, LeavingCounts DEF OthersStay

(* The helper's side, and the end of a process that has spawned one. *)
LEMMA HelperCounts ==
  ASSUME UpdateInv, UpdateInv', CopyInv, NEW u \in Updaters,
         \/ Exit(u) \/ ParentGone(u) \/ MoveInto(u) \/ MoveFails(u) \/ WriteStatus(u)
         \/ Disturb(u) \/ KillHelper(u)
  PROVE  NoMore /\ Fewer
<1>1. /\ up \in [Updaters -> Run] /\ helper \in [Updaters -> HelperRun]
      /\ up[u] \in Run /\ helper[u] \in HelperRun /\ HelperOK(u)
      /\ helper[u].attempts \in 0..MaxAttempts /\ MaxAttempts \in Nat
  BY RunType, UpdateAssumption DEF UpdateInv, HelperRun
<1>2. OthersStay(u) /\ UNCHANGED world
  BY <1>1 DEF Exit, GoTo, External, ParentGone, MoveInto, MoveFails, WriteStatus, Disturb,
     KillHelper, HelperOnly, OthersStay
<1>3. CASE Exit(u)
  <2>1. up[u].pc = "staged" /\ up'[u].pc = "exited" /\ helper' = helper
    BY <1>1, <1>3 DEF Exit, GoTo, External, Run
  <2> QED BY <1>2, <2>1, OneUpdaterCounts
          DEF RunLeft, RunSteps, HelperLeft, CopyLeft, AtWorkYet, Working
<1>4. CASE ParentGone(u) \/ MoveFails(u) \/ WriteStatus(u) \/ KillHelper(u)
  <2>1. /\ up' = up /\ helper'[u].copy = helper[u].copy
    BY <1>1, <1>4 DEF ParentGone, MoveFails, WriteStatus, KillHelper, HelperOnly, HelperRun
  <2>2. HelperLeft(u)' < HelperLeft(u)
    <3>1. CASE ParentGone(u)
      BY <1>1, <3>1 DEF ParentGone, HelperRun, HelperLeft
    <3>2. CASE MoveFails(u)
      BY <1>1, <3>2 DEF MoveFails, HelperRun, HelperLeft
    <3>3. CASE WriteStatus(u)
      <4>1. /\ helper[u].state = "trying" /\ helper[u].attempts = MaxAttempts
            /\ helper'[u].state = "failed"
        <5>1. PICK written \in BOOLEAN :
                helper' = [helper EXCEPT ![u].state = "failed", ![u].status = written]
          BY <3>3 DEF WriteStatus
        <5> DEFINE r == [helper[u] EXCEPT !.state = "failed", !.status = written]
        <5>2. r.state = "failed"
          BY <1>1 DEF HelperRun
        <5>3. helper' = [helper EXCEPT ![u] = r]
          BY <1>1, <5>1 DEF HelperRun
        <5> HIDE DEF r
        <5>4. helper'[u].state = "failed"
          BY <1>1, <5>2, <5>3
        <5> QED BY <3>3, <5>4 DEF WriteStatus
      <4>2. HelperLeft(u) = 1 /\ HelperLeft(u)' = 0
        BY <1>1, <4>1 DEF HelperLeft
      <4> QED BY <4>2
    <3>4. CASE KillHelper(u)
      BY <1>1, <3>4 DEF KillHelper, HelperRun, HelperLeft
    <3> QED BY <1>4, <3>1, <3>2, <3>3, <3>4
  <2>3. RunLeft(u)' = RunLeft(u) /\ CopyLeft(u)' = CopyLeft(u)
    BY <2>1 DEF RunLeft, CopyLeft, AtWorkYet
  <2> QED BY <1>2, <2>2, <2>3, OneUpdaterCounts
<1>5. CASE MoveInto(u)
  <2>1. up' = up /\ helper'[u].state = "installed" /\ helper[u].state = "trying"
        /\ helper'[u].copy = NoFile
    BY <1>1, <1>5 DEF MoveInto, HelperRun
  <2>2. HelperLeft(u)' < HelperLeft(u)
    BY <1>1, <2>1 DEF HelperLeft
  <2>3. RunLeft(u)' = RunLeft(u)
    BY <2>1 DEF RunLeft
  <2>4. CopyLeft(u)' < CopyLeft(u) \/ CopyLeft(u)' = CopyLeft(u)
    BY <2>1 DEF CopyLeft, AtWorkYet
  <2> QED BY <1>2, <2>2, <2>3, <2>4, OneUpdaterCounts
<1>6. CASE Disturb(u)
  <2>1. /\ up' = up /\ helper[u].copy # NoFile /\ helper[u].copy \in Image
        /\ \E c \in {NoFile, [helper[u].copy EXCEPT !.intact = FALSE]} \ {helper[u].copy} :
             helper' = [helper EXCEPT ![u].copy = c]
    BY <1>1, <1>6 DEF Disturb, HelperOnly, HelperRun
  <2>2. PICK c \in {NoFile, [helper[u].copy EXCEPT !.intact = FALSE]} \ {helper[u].copy} :
          helper' = [helper EXCEPT ![u].copy = c]
    BY <2>1
  <2>3. /\ helper'[u].copy = c /\ helper'[u].state = helper[u].state
        /\ helper'[u].attempts = helper[u].attempts
    BY <1>1, <2>2 DEF HelperRun
  <2>4. ~AtWorkYet(u)
    BY <2>1 DEF CopyInv
  <2>5. CopyLeft(u)' < CopyLeft(u)
    <3>1. CASE c = NoFile
      BY <2>1, <2>3, <2>4, <3>1 DEF CopyLeft, AtWorkYet
    <3>2. CASE c # NoFile
      <4>1. c = [helper[u].copy EXCEPT !.intact = FALSE] /\ c # helper[u].copy
        BY <3>2
      <4>2. c.intact = FALSE /\ helper[u].copy.intact = TRUE
        BY <2>1, <4>1 DEF Image
      <4> QED BY <2>1, <2>3, <2>4, <3>2, <4>2 DEF CopyLeft, AtWorkYet
    <3> QED BY <3>1, <3>2
  <2>6. RunLeft(u)' = RunLeft(u) /\ HelperLeft(u)' = HelperLeft(u)
    BY <2>1, <2>3 DEF RunLeft, HelperLeft
  <2> QED BY <1>2, <2>5, <2>6, OneUpdaterCounts
<1> QED BY <1>3, <1>4, <1>5, <1>6

(* The world: releases are published, assets are uploaded and stay.         *)
LEMMA WorldCounts ==
  ASSUME UpdateInv, UpdateInv', Publish \/ (\E v \in 2..MaxRelease : Upload(v))
  PROVE  NoMore /\ Fewer
<1>1. Counters /\ Counters' /\ up' = up /\ helper' = helper
  BY LeftTypes, LeftTypesNext DEF Publish, Upload
<1>2. \A u \in Updaters : /\ RunLeft(u)' <= RunLeft(u) /\ HelperLeft(u)' <= HelperLeft(u)
                          /\ CopyLeft(u)' <= CopyLeft(u)
  <2>1. \A u \in Updaters : /\ RunLeft(u)' = RunLeft(u) /\ HelperLeft(u)' = HelperLeft(u)
                            /\ CopyLeft(u)' = CopyLeft(u)
    BY <1>1 DEF RunLeft, HelperLeft, CopyLeft, AtWorkYet
  <2> QED BY <1>1, <2>1 DEF Counters
<1>3. CASE Publish
  <2>1. ReleasesLeft' < ReleasesLeft
    BY <1>3, UpdateAssumption DEF Publish, ReleasesLeft, UpdateInv, TypeOK
  <2>2. \A v \in 2..MaxRelease, a \in Assets : AssetLeft(v, a)' = AssetLeft(v, a)
    BY <1>3 DEF Publish, AssetLeft
  <2> QED BY <1>1, <1>2, <2>1, <2>2 DEF NoMore, Fewer, Counters
<1>4. ASSUME NEW v \in 2..MaxRelease, Upload(v)
      PROVE  NoMore /\ Fewer
  <2>1. PICK p \in Origins \ {origin[v]} :
          Extends(origin[v], p) /\ origin' = [origin EXCEPT ![v] = p]
    BY <1>4 DEF Upload
  <2>2. /\ origin[v] \in Offer /\ p \in Offer /\ p # origin[v] /\ origin'[v] = p
        /\ \A w \in (2..MaxRelease) \ {v} : origin'[w] = origin[w]
    BY <2>1, UpdateAssumption DEF UpdateInv, TypeOK
  <2>3. ReleasesLeft' = ReleasesLeft
    BY <1>4 DEF Upload, ReleasesLeft
  <2>4. ASSUME NEW w \in 2..MaxRelease, NEW a \in Assets
        PROVE  AssetLeft(w, a)' <= AssetLeft(w, a)
    <3>1. origin[v][a] # "absent" => p[a] # "absent"
      <4>1. origin[v][a] \in {"absent", p[a]}
        BY <2>1 DEF Extends, Assets
      <4> QED BY <4>1
    <3> QED BY <2>2, <3>1 DEF AssetLeft
  <2>5. \E a \in Assets : AssetLeft(v, a)' < AssetLeft(v, a)
    <3>1. PICK a \in Assets : origin[v][a] # p[a]
      BY <2>2 DEF Offer, Assets
    <3>2. origin[v][a] = "absent" /\ p[a] # "absent"
      BY <2>1, <3>1 DEF Extends, Assets
    <3>3. AssetLeft(v, a)' < AssetLeft(v, a)
      BY <2>2, <3>2 DEF AssetLeft
    <3> QED BY <3>3
  <2> QED BY <1>1, <1>2, <2>3, <2>4, <2>5 DEF NoMore, Fewer, Counters
<1> QED BY <1>3, <1>4

LEMMA StepCounts ==
  ASSUME UpdateInv, UpdateInv', CopyInv, Next
  PROVE  NoMore /\ (Fewer \/ Removed)
<1>1. ASSUME NEW u \in Updaters, GiveUp(u) \/ commit_denied(u)
      PROVE  NoMore /\ Fewer
  BY <1>1, EndingCounts DEF GiveUp, commit_denied, AtWorkYet, Working
<1>2. ASSUME NEW u \in Updaters, Update(u) \/ Help(u) \/ Faults(u)
      PROVE  NoMore /\ Fewer
  BY <1>1, <1>2, StartCounts, ProceedingCounts, CommitCounts, HelperCounts, KillCounts
  DEF Update, Help, Faults
<1>3. CASE Uninstall
  <2>1. Removed /\ up' = up /\ helper' = helper /\ UNCHANGED world
    BY <1>3 DEF Uninstall, Removed
  <2>2. /\ \A u \in Updaters : /\ RunLeft(u)' = RunLeft(u) /\ HelperLeft(u)' = HelperLeft(u)
                               /\ CopyLeft(u)' = CopyLeft(u)
        /\ ReleasesLeft' = ReleasesLeft
        /\ \A v \in 2..MaxRelease, a \in Assets : AssetLeft(v, a)' = AssetLeft(v, a)
    BY <2>1 DEF RunLeft, HelperLeft, CopyLeft, AtWorkYet, ReleasesLeft, AssetLeft, world
  <2> QED BY <2>1, <2>2, LeftTypes DEF NoMore, Counters
<1> QED BY <1>2, <1>3, WorldCounts DEF Next

LEMMA CopyStepKeeps ==
  ASSUME UpdateInv, CopyInv, [Next]_vars
  PROVE  CopyInv'
<1>0. up \in [Updaters -> Run] /\ helper \in [Updaters -> HelperRun]
  BY RunType DEF UpdateInv
<1>1. ASSUME NEW u \in Updaters, Update(u), ~replace_current(u)
      PROVE  CopyInv'
  <2>1. helper' = helper /\ \A d \in Updaters \ {u} : up'[d] = up[d]
    BY <1>0, <1>1 DEF Update, Start, GiveUp, prepare_candidate_async,
       acquire_manifest_artifact, fetch_legacy_binary, Download, verify_legacy_checksum,
       cargo_candidate, validate_staged, commit_denied, commit_artifact_set, Transact,
       Undecided, Exit, GoTo, Failed, External
  <2>2. AtWorkYet(u)' => AtWorkYet(u)
    <3>1. CASE Exit(u)
      BY <1>0, <3>1 DEF Exit, GoTo, Run, AtWorkYet, Working
    <3>2. CASE ~Exit(u)
      BY <1>1, <3>2 DEF Update, Start, GiveUp, prepare_candidate_async,
         acquire_manifest_artifact, fetch_legacy_binary, verify_legacy_checksum,
         cargo_candidate, validate_staged, commit_denied, commit_artifact_set, AtWorkYet, Working
    <3> QED BY <3>1, <3>2
  <2>3. ASSUME NEW d \in Updaters, AtWorkYet(d)'
        PROVE  helper'[d].copy = NoFile
    BY <2>1, <2>2, <2>3 DEF CopyInv, AtWorkYet
  <2> QED BY <2>3 DEF CopyInv, AtWorkYet
<1>2. ASSUME NEW u \in Updaters, OthersStay(u), ~AtWorkYet(u)'
      PROVE  CopyInv'
  BY <1>2 DEF OthersStay, CopyInv, AtWorkYet
<1>5. ASSUME NEW u \in Updaters, replace_current(u)
      PROVE  CopyInv'
  <2>1. /\ up[u].pc = "commit" /\ \A d \in Updaters \ {u} : helper'[d] = helper[d]
    BY <1>0, <1>5, CopyLeavesHelper DEF replace_current
  <2>2. up'[u].pc \in {"failed", "staged"} /\ \A d \in Updaters \ {u} : up'[d] = up[d]
    BY <1>5, <2>1, Fails, LeavesCommit DEF replace_current
  <2> QED BY <1>2, <2>1, <2>2 DEF OthersStay, AtWorkYet, Working
<1>6. ASSUME NEW u \in Updaters, Kill(u)
      PROVE  CopyInv'
  <2>1. CASE /\ up' = [up EXCEPT ![u] = [FreshRun EXCEPT !.pc = "killed"]]
             /\ \/ UNCHANGED helper
                \/ up[u].pc = "commit" /\ windows /\ LeavesCopy(u)
    <3>1. up'[u].pc = "killed" /\ \A d \in Updaters \ {u} : up'[d] = up[d]
      BY <1>0, <2>1 DEF FreshRun
    <3>2. OthersStay(u)
      BY <2>1, <3>1, CopyLeavesHelper DEF OthersStay
    <3> QED BY <1>2, <3>1, <3>2 DEF AtWorkYet, Working
  <2>2. CASE up[u].pc = "commit" /\ Undecided(u, "interrupted") /\ UNCHANGED helper
    <3>1. up'[u].pc = "interrupted" /\ \A d \in Updaters \ {u} : up'[d] = up[d]
      BY <2>2, UndecidedDisk, LeavesCommit
    <3> QED BY <1>2, <2>2, <3>1 DEF OthersStay, AtWorkYet, Working
  <2> QED BY <1>6, <2>1, <2>2 DEF Kill
<1>3. ASSUME NEW u \in Updaters, Help(u) \/ Disturb(u) \/ KillHelper(u)
      PROVE  CopyInv'
  <2>1. /\ up' = up /\ \A d \in Updaters \ {u} : helper'[d] = helper[d]
        /\ helper[u].copy = NoFile => helper'[u].copy = NoFile
    BY <1>0, <1>3 DEF Help, ParentGone, MoveInto, MoveFails, WriteStatus, Disturb, KillHelper,
       HelperOnly, HelperRun
  <2> QED BY <2>1 DEF CopyInv, AtWorkYet
<1>4. CASE Publish \/ Uninstall \/ (\E v \in 2..MaxRelease : Upload(v)) \/ UNCHANGED vars
  <2>1. up' = up /\ helper' = helper
    BY <1>4 DEF Publish, Uninstall, Upload, vars
  <2> QED BY <2>1 DEF CopyInv, AtWorkYet
<1> QED BY <1>1, <1>3, <1>4, <1>5, <1>6 DEF Next, Faults

(* Every step of an updater, of its helper or of the world uses something   *)
(* up and gives nothing back, the helper's retries included; the removal of *)
(* the executable uses nothing up, but there must be one to remove, and     *)
(* only a step that counts puts it back.  No update goes on for ever.       *)
THEOREM UpdatesRunOutOfSteps ==
  Spec => /\ EveryStepCounts
          /\ []Counters
<1>1. Init => CopyInv
  BY DEF Init, CopyInv, NoHelper
<1>2. Spec => []CopyInv
  BY <1>1, CopyStepKeeps, UpdateInvariant, PTL DEF Spec
<1>3. UpdateInv /\ UpdateInv' /\ CopyInv /\ [Next]_vars => [NoMore /\ (Fewer \/ Removed)]_vars
  BY StepCounts
<1>4. Spec => EveryStepCounts
  BY <1>2, <1>3, UpdateInvariant, PTL DEF Spec, EveryStepCounts
<1>5. Spec => []Counters
  BY LeftTypes, UpdateInvariant, PTL
<1> QED BY <1>4, <1>5
=============================================================================
