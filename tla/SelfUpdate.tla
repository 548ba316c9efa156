------------------------------ MODULE SelfUpdate ------------------------------
(***************************************************************************)
(* `eggsact update` (src/update.rs): several updater processes started     *)
(* from one installed executable, the release they read, the evidence      *)
(* they accept, the commit that replaces the executable, and on Windows    *)
(* the PowerShell helper that replaces it after the updater has exited.    *)
(*                                                                         *)
(* An executable is its version and whether its bytes are the ones that    *)
(* were built; a digest is the executable it is the digest of.  The        *)
(* release pipeline, the file system and the Eggup transaction are         *)
(* external: they are modelled by the outcomes update.rs distinguishes.    *)
(***************************************************************************)
EXTENDS Naturals, FiniteSets

CONSTANTS
  Updaters,      \* processes that run `eggsact update`
  MaxRelease,    \* the last version that is ever published; 1 is installed
  Origins,       \* the forms a release on the origin may have
  MaxAttempts,   \* moves the Windows helper tries (50 in the script)
  NoFile,        \* the content of a path where there is no file
  Nobody         \* the author of an executable no updater installed

Versions == 0..MaxRelease
Image    == [version : Versions, intact : BOOLEAN]
Offer    == [manifest : {"absent", "good", "mismatch"},
             binary   : {"absent", "good", "stale"},
             checksum : {"absent", "good", "mismatch"}]
Release(v) == [version |-> v, intact |-> TRUE]

ASSUME UpdateAssumption ==
  /\ MaxRelease \in Nat \ {0}
  /\ MaxAttempts \in Nat \ {0}
  /\ Origins \subseteq Offer
  /\ NoFile \notin Image
  /\ Nobody \notin Updaters

VARIABLES
  windows, supported,  \* facts of the build and the host: cfg(windows), target_for_host
  latest, origin,      \* crates.io's newest stable version; the releases' assets
  target, author,      \* the installed executable; the updater that put it there
  locked,              \* a transaction that needs recovery has kept the lock
  up,                  \* the updaters
  helper               \* the Windows helper of each updater

world  == <<latest, origin>>
disk   == <<target, author, locked>>
facts  == <<windows, supported>>
vars   == <<facts, world, disk, up, helper>>

Working  == {"manifest", "artifact", "binary", "checksum", "cargo", "prepare", "commit"}
Finished == {"current", "updated", "failed", "recovery", "exited", "killed", "interrupted"}
Evidence == {"none", "manifest", "sidecar", "cargo"}
FreshRun == [pc |-> "idle", running |-> 0, chosen |-> 0,
             offered |-> [manifest |-> "absent", binary |-> "absent", checksum |-> "absent"],
             candidate |-> NoFile, digest |-> NoFile, evidence |-> "none"]
NoHelper == [state |-> "none", attempts |-> 0, copy |-> NoFile, status |-> FALSE]

-----------------------------------------------------------------------------
Init ==
  /\ windows \in BOOLEAN
  /\ supported \in BOOLEAN
  /\ latest \in 1..MaxRelease
  /\ origin \in [2..MaxRelease -> Origins]
  /\ target = Release(1) /\ author = Nobody /\ locked = FALSE
  /\ up = [u \in Updaters |-> FreshRun]
  /\ helper = [u \in Updaters |-> NoHelper]

(* The release pipeline: the crate is published, assets follow one another. *)
Publish == /\ latest < MaxRelease
           /\ latest' = latest + 1
           /\ UNCHANGED <<facts, origin, disk, up, helper>>

Extends(o, p) == \A a \in {"manifest", "binary", "checksum"} : o[a] \in {"absent", p[a]}
Upload(v) == /\ v \in 2..MaxRelease
             /\ \E p \in Origins \ {origin[v]} :
                  Extends(origin[v], p) /\ origin' = [origin EXCEPT ![v] = p]
             /\ UNCHANGED <<facts, latest, disk, up, helper>>

(* The executable is removed.  Windows keeps the file of a running process. *)
InUse == \E u \in Updaters : up[u].pc \in Working \cup {"staged"}
Uninstall == /\ target # NoFile
             /\ windows => ~InUse
             /\ target' = NoFile /\ author' = Nobody
             /\ UNCHANGED <<facts, world, locked, up, helper>>

-----------------------------------------------------------------------------
(* An error path of run_async: what the process held goes with it.  The    *)
(* temporary directory is removed where that succeeds; a left-over one is  *)
(* never read again, so the directory is not part of the state.            *)
Failed(u)  == up' = [up EXCEPT ![u] = [FreshRun EXCEPT !.pc = "failed"]]
GoTo(u, p) == up' = [up EXCEPT ![u].pc = p]
External   == UNCHANGED <<facts, world, disk, helper>>

is_already_current(current, newest) == newest <= current

Start(u) ==
  /\ up[u].pc = "idle" /\ target # NoFile
  /\ up' = IF is_already_current(target.version, latest)
           THEN [up EXCEPT ![u].pc = "current", ![u].running = target.version]
           ELSE [up EXCEPT ![u] =
                  [FreshRun EXCEPT !.pc = IF supported THEN "manifest" ELSE "cargo",
                                   !.running = target.version, !.chosen = latest,
                                   !.offered = origin[latest]]]
  /\ External

(* Metadata that cannot be read, a timeout, a failed build, a full disk. *)
GiveUp(u) == /\ up[u].pc \in Working \cup {"idle"}
             /\ Failed(u) /\ External

Offered(u)     == origin[up[u].chosen]
Binary(u)      == Release(up[u].chosen - IF Offered(u).binary = "stale" THEN 1 ELSE 0)
Download(u, p) == \E ok \in BOOLEAN :
  up' = [up EXCEPT ![u].pc = p, ![u].candidate = [Binary(u) EXCEPT !.intact = ok]]

(* The manifest describes the product, the release and the target chosen. *)
resolve_manifest_projection(u) == Offered(u).manifest = "good"

(* Fault: a manifest that does not fit is taken for an absent one. *)
prepare_candidate_or_legacy(u) ==
  /\ up[u].pc = "manifest"
  /\ GoTo(u, IF resolve_manifest_projection(u) THEN "artifact" ELSE "binary")
  /\ External
prepare_candidate_async(u) ==
  /\ up[u].pc = "manifest"
  /\ \/ Offered(u).manifest = "absent" /\ GoTo(u, "binary")
     \/ Offered(u).manifest # "absent" /\ IF resolve_manifest_projection(u)
                                            THEN GoTo(u, "artifact") ELSE Failed(u)
  /\ External

acquire_manifest_artifact(u) ==
  /\ up[u].pc = "artifact"
  /\ \/ Offered(u).binary = "absent" /\ Failed(u)
     \/ /\ Offered(u).binary # "absent"
        /\ \E ok \in BOOLEAN :
             up' = [up EXCEPT ![u].pc = "prepare", ![u].evidence = "manifest",
                              ![u].candidate = [Binary(u) EXCEPT !.intact = ok],
                              ![u].digest = Binary(u)]
  /\ External

fetch_legacy_binary(u) ==
  /\ up[u].pc = "binary"
  /\ \/ Offered(u).binary = "absent" /\ GoTo(u, "cargo")
     \/ Offered(u).binary # "absent" /\ Download(u, "checksum")
  /\ External

verify_legacy_checksum(u) ==
  /\ up[u].pc = "checksum"
  /\ IF Offered(u).checksum = "good" /\ up[u].candidate = Binary(u)
     THEN up' = [up EXCEPT ![u].pc = "prepare", ![u].evidence = "sidecar",
                           ![u].digest = Binary(u)]
     ELSE Failed(u)
  /\ External

cargo_candidate(u) ==
  /\ up[u].pc = "cargo"
  /\ up' = [up EXCEPT ![u].pc = "prepare", ![u].evidence = "cargo",
                      ![u].candidate = Release(up[u].chosen),
                      ![u].digest = Release(up[u].chosen)]
  /\ External

(* The candidate is copied into the private staging area of the plan; the  *)
(* copy must have the digest of the evidence and print the chosen version. *)
validate_staged(u) ==
  /\ up[u].pc = "prepare"
  /\ \E ok \in {up[u].candidate.intact, FALSE} :
       LET staged == [up[u].candidate EXCEPT !.intact = ok] IN
       IF staged = up[u].digest /\ staged.version = up[u].chosen
       THEN up' = [up EXCEPT ![u].pc = "commit", ![u].candidate = staged]
       ELSE Failed(u)
  /\ External

-----------------------------------------------------------------------------
(* Unix: the Eggup transaction under the lock of the installation root.    *)
Owned == target # NoFile
commit_denied(u) ==
  /\ up[u].pc = "commit" /\ ~windows
  /\ locked \/ ~Owned
  /\ Failed(u) /\ External

(* A transaction that cannot say what it did: the old executable is still  *)
(* there, or the new one is already, or there is none.                     *)
Undecided(u, p) ==
  /\ target' \in {target, NoFile, up[u].candidate}
  /\ author' = IF target' = target THEN author ELSE IF target' = NoFile THEN Nobody ELSE u
  /\ GoTo(u, p)

Transact(u) ==
  \/ /\ target' = up[u].candidate /\ author' = u                 \* Committed
     /\ GoTo(u, "updated") /\ UNCHANGED locked
  \/ Failed(u) /\ UNCHANGED disk                                 \* RolledBack
  \/ Undecided(u, "recovery") /\ locked' = TRUE                  \* RecoveryRequired

(* Fault: the lock that a transaction has kept is taken for a stale one. *)
commit_despite_lock(u) ==
  /\ up[u].pc = "commit" /\ ~windows /\ Owned
  /\ Transact(u)
  /\ UNCHANGED <<facts, world, helper>>
commit_artifact_set(u) ==
  /\ up[u].pc = "commit" /\ ~windows
  /\ ~locked /\ Owned
  /\ Transact(u)
  /\ UNCHANGED <<facts, world, helper>>

(* Windows: an adjacent copy, and a helper that outlives the process.  The *)
(* ownership proof built for the Unix commit is not consulted here.        *)
LeavesCopy(u) ==
  \E c \in {NoFile, [up[u].candidate EXCEPT !.intact = FALSE], up[u].candidate} :
    helper' = [helper EXCEPT ![u].copy = c]

(* Fault: the helper is spawned before the copy is known to be complete. *)
spawn_then_copy(u) ==
  /\ up[u].pc = "commit" /\ windows
  /\ \/ /\ helper' = [helper EXCEPT ![u].copy = up[u].candidate, ![u].state = "waiting"]
        /\ Failed(u)
     \/ /\ helper' = [helper EXCEPT ![u].copy = up[u].candidate, ![u].state = "waiting"]
        /\ GoTo(u, "staged")
  /\ UNCHANGED <<facts, world, disk>>
replace_current(u) ==
  /\ up[u].pc = "commit" /\ windows
  /\ \/ LeavesCopy(u) /\ Failed(u)                    \* the copy or the spawn fails
     \/ /\ helper' = [helper EXCEPT ![u].copy = up[u].candidate, ![u].state = "waiting"]
        /\ GoTo(u, "staged")
  /\ UNCHANGED <<facts, world, disk>>

Exit(u) == /\ up[u].pc = "staged"
           /\ GoTo(u, "exited") /\ External

(* The process is killed: before it touches the installation, between the  *)
(* adjacent copy and the spawn, or inside the transaction.                 *)
Kill(u) ==
  /\ up[u].pc \in Working
  /\ \/ /\ up' = [up EXCEPT ![u] = [FreshRun EXCEPT !.pc = "killed"]]
        /\ \/ UNCHANGED helper
           \/ up[u].pc = "commit" /\ windows /\ LeavesCopy(u)
        /\ UNCHANGED disk
     \/ /\ up[u].pc = "commit" /\ ~windows /\ ~locked /\ Owned
        /\ Undecided(u, "interrupted") /\ locked' \in BOOLEAN
        /\ UNCHANGED helper
  /\ UNCHANGED <<facts, world>>

-----------------------------------------------------------------------------
(* windows_replacement_script *)
HelperOnly == UNCHANGED <<facts, world, disk, up>>

ParentGone(u) == /\ helper[u].state = "waiting" /\ up[u].pc = "exited"
                 /\ helper' = [helper EXCEPT ![u].state = "trying"]
                 /\ HelperOnly

(* Fault: the copy is trusted because it was verified before it was made. *)
MoveUnchecked(u) ==
  /\ helper[u].state = "trying" /\ helper[u].attempts < MaxAttempts
  /\ helper[u].copy # NoFile /\ ~InUse
  /\ target' = helper[u].copy /\ author' = u
  /\ helper' = [helper EXCEPT ![u].state = "installed", ![u].copy = NoFile]
  /\ UNCHANGED <<facts, world, locked, up>>
MoveInto(u) ==
  /\ helper[u].state = "trying" /\ helper[u].attempts < MaxAttempts
  /\ helper[u].copy = up[u].digest /\ ~InUse
  /\ target' = helper[u].copy /\ author' = u
  /\ helper' = [helper EXCEPT ![u].state = "installed", ![u].copy = NoFile,
                              ![u].status = FALSE]
  /\ UNCHANGED <<facts, world, locked, up>>

(* Faults: the loop does not stop at its bound; it forgets to count. *)
MoveFailsForever(u) ==
  /\ helper[u].state = "trying"
  /\ helper' = [helper EXCEPT ![u].attempts = @ + 1]
  /\ HelperOnly
MoveFailsUncounted(u) ==
  /\ helper[u].state = "trying" /\ helper[u].attempts < MaxAttempts
  /\ UNCHANGED vars
MoveFails(u) ==
  /\ helper[u].state = "trying" /\ helper[u].attempts < MaxAttempts
  /\ helper' = [helper EXCEPT ![u].attempts = @ + 1]
  /\ HelperOnly

WriteStatus(u) ==
  /\ helper[u].state = "trying" /\ helper[u].attempts = MaxAttempts
  /\ \E written \in BOOLEAN :
       helper' = [helper EXCEPT ![u].state = "failed", ![u].status = written]
  /\ HelperOnly

(* Something else in the directory damages or removes the adjacent copy,   *)
(* or the machine is shut down under the helper.                           *)
Disturb(u) ==
  /\ helper[u].copy # NoFile
  /\ \E c \in {NoFile, [helper[u].copy EXCEPT !.intact = FALSE]} \ {helper[u].copy} :
       helper' = [helper EXCEPT ![u].copy = c]
  /\ HelperOnly

KillHelper(u) == /\ helper[u].state \in {"waiting", "trying"}
                 /\ helper' = [helper EXCEPT ![u].state = "killed"]
                 /\ HelperOnly

-----------------------------------------------------------------------------
Update(u) == \/ Start(u) \/ GiveUp(u) \/ prepare_candidate_async(u)
             \/ acquire_manifest_artifact(u) \/ fetch_legacy_binary(u)
             \/ verify_legacy_checksum(u) \/ cargo_candidate(u) \/ validate_staged(u)
             \/ commit_denied(u) \/ commit_artifact_set(u) \/ replace_current(u)
             \/ Exit(u)
Help(u)   == ParentGone(u) \/ MoveInto(u) \/ MoveFails(u) \/ WriteStatus(u)
Faults(u) == Kill(u) \/ Disturb(u) \/ KillHelper(u)

Next == \/ Publish \/ Uninstall
        \/ \E v \in 2..MaxRelease : Upload(v)
        \/ \E u \in Updaters : Update(u) \/ Help(u) \/ Faults(u)

Spec == Init /\ [][Next]_vars

(* Every fetch has a total timeout and every child process ends, so a run  *)
(* that was started takes its next step; the helper's loop is bounded.     *)
FairSpec == Spec /\ \A u \in Updaters :
                      /\ WF_vars(up[u].pc # "idle" /\ Update(u))
                      /\ WF_vars(Help(u))

-----------------------------------------------------------------------------
TypeOK ==
  /\ windows \in BOOLEAN /\ supported \in BOOLEAN
  /\ latest \in 1..MaxRelease /\ origin \in [2..MaxRelease -> Origins]
  /\ target \in Image \cup {NoFile} /\ author \in Updaters \cup {Nobody}
  /\ locked \in BOOLEAN
  /\ up \in [Updaters ->
       [pc : Working \cup Finished \cup {"idle", "staged"}, running : Versions,
        chosen : Versions, offered : Offer, candidate : Image \cup {NoFile},
        digest : Image \cup {NoFile}, evidence : Evidence]]
  /\ helper \in [Updaters ->
       [state : {"none", "waiting", "trying", "installed", "failed", "killed"},
        attempts : 0..MaxAttempts, copy : Image \cup {NoFile}, status : BOOLEAN]]

(* Whatever is downloaded, damaged or interrupted, by however many         *)
(* updaters and helpers, the installed file is one that was built, and it  *)
(* is the release its updater selected, newer than the one it ran from.    *)
InstalledIsTheChosenRelease ==
  /\ target = NoFile \/ target.intact
  /\ author \in Updaters => /\ target = Release(up[author].chosen)
                            /\ up[author].chosen > up[author].running

(* Only a release that had no manifest when it was selected is installed   *)
(* on weaker evidence, and on a supported host cargo builds only a release *)
(* that had no binary either: a failed, damaged or mismatched fetch never  *)
(* moves the update on to its next source.                                 *)
WeakEvidenceOnlyWhenAbsent ==
  author \in Updaters =>
    LET r == up[author] IN
    /\ (r.evidence = "sidecar" \/ (r.evidence = "cargo" /\ supported))
          => r.offered.manifest = "absent"
    /\ (r.evidence = "cargo" /\ supported) => r.offered.binary = "absent"

(* An update that reported an error, was killed before its commit, or had  *)
(* nothing to do installed nothing and never will: no helper is left that  *)
(* could replace the executable later, whatever copy is.  The only error   *)
(* that leaves the executable in doubt is the request for manual recovery; *)
(* the lock is kept with it, so there is at most one.                      *)
FailedUpdateInstallsNothing ==
  \A u \in Updaters :
    /\ up[u].pc \in {"current", "failed", "killed"} => author # u
    /\ up[u].pc \in Finished \ {"exited"} => helper[u].state = "none"
    /\ up[u].pc = "recovery" => locked /\ \A d \in Updaters \ {u} : up[d].pc # "recovery"

(* Every update that was started ends, and a replacement that was staged   *)
(* is installed or given up, unless its helper is killed.                  *)
UpdatesSettle ==
  \A u \in Updaters : up[u].pc # "idle" ~> /\ up[u].pc \in Finished
                                           /\ helper[u].state \notin {"waiting", "trying"}

(* How an updater and its helper appear to whoever runs the executable. *)
Fate(u) == CASE up[u].pc = "idle" -> "idle"
             [] up[u].pc = "updated" \/ helper[u].state = "installed" -> "done"
             [] up[u].pc \in {"recovery", "interrupted"} -> "unsure"
             [] \/ up[u].pc \in {"current", "failed", "killed"}
                \/ helper[u].state \in {"failed", "killed"} -> "over"
             [] OTHER -> "open"
ChosenBy(u) == IF Fate(u) \in {"open", "done"} THEN up[u].chosen ELSE 0
InstalledVersion == IF target = NoFile THEN 0 ELSE target.version

Promise == INSTANCE AtomicUpdates
             WITH Releases  <- 1..MaxRelease,
                  installed <- InstalledVersion,
                  stuck     <- locked,
                  chosen    <- [u \in Updaters |-> ChosenBy(u)],
                  fate      <- [u \in Updaters |-> Fate(u)]

(* However updaters, helpers and failures interleave, and though the       *)
(* helper acts when its updater is gone: the installed version changes in  *)
(* one step, at most once for each updater, only to what that updater      *)
(* chose over an older version, never after its update was given up, and   *)
(* never once a transaction has kept the lock.                             *)
UpdatesAtomically == Promise!Spec

(* update.rs:904 "creation is denied by policy (`AbsentPolicy::DenyCreate`)*)
(* because self-update only replaces": where the executable was removed,   *)
(* no update puts one back.                                                *)
UpdateOnlyReplaces == [][target = NoFile => target' = NoFile]_vars
=============================================================================
