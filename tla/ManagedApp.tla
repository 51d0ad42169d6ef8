----------------------------- MODULE ManagedApp -----------------------------
(***************************************************************************)
(* The managed Google command (google_workspace/app_manager.py): one       *)
(* binary and, from older releases, instruction files ("skills"), with a   *)
(* manifest that says which files are Tinyhat's.  Install and uninstall    *)
(* run under an exclusive file lock, status and executions under a shared  *)
(* one.  Every file is replaced by two renames (target to backup, stage to *)
(* target), the manifest last, and the process may die between any two.    *)
(* A file is "ours" (byte for byte the pinned one), "foreign" or absent.   *)
(***************************************************************************)
EXTENDS Naturals, FiniteSets

CONSTANTS
  AppCalls,    \* tool calls, each in a thread of its own
  Legacy,      \* components older releases installed beside the binary
  MaxMeddles,  \* bound on the owner's own changes to the files
  MaxAppTroubles  \* bound on failed steps and crashes

ASSUME AppAssumption == "gws" \notin Legacy /\ MaxMeddles \in Nat /\ MaxAppTroubles \in Nat

VARIABLES
  file,        \* component -> what is at its path
  spare,       \* copies of the binary: a "stage", the "own" backup of the process
               \* that installs, a "backup" left by one that has died
  manifest,    \* components the manifest vouches for, or NoManifest
  spares,      \* <<"backup" or "stage", components>>: other copies of the manifest
  app,         \* call -> its progress
  before,      \* call -> the binary and the manifest its transaction began with
  meddled, appTroubles

appVars == <<file, spare, manifest, spares, app, before, meddled, appTroubles>>

gws        == "gws"
Components == {gws} \union Legacy
NoManifest == {"none"}
Vouched(c) == c \in manifest
Exclusive  == {"recover", "check", "retire", "stage", "backupGws", "moveGws", "backupManifest",
               "moveManifest", "dropGws", "dropManifest", "undoManifest", "undoGws", "undoStages",
               "recoverOut", "remove", "seal"}
Shared     == {"reading", "running"}
Holds(c, kinds) == app[c] \in kinds
To(c, pc)  == app' = [app EXCEPT ![c] = pc]
AppTrouble    == appTroubles < MaxAppTroubles /\ appTroubles' = appTroubles + 1
LockFree(c, exclusive) ==
  \A d \in AppCalls \ {c} : ~ Holds(d, Exclusive) /\ (exclusive => ~ Holds(d, Shared))

----------------------------------------------------------------------------
\* managed_app_lock: flock on a file opened by every call.
BeginInstall(c) ==
  /\ app[c] = "idle" /\ LockFree(c, TRUE) /\ To(c, "recover")
  /\ UNCHANGED <<file, spare, manifest, spares, before, meddled, appTroubles>>

BeginUninstall(c) ==
  /\ app[c] = "idle" /\ LockFree(c, TRUE) /\ To(c, "recoverOut")
  /\ UNCHANGED <<file, spare, manifest, spares, before, meddled, appTroubles>>

BeginShared(c) ==
  /\ app[c] = "idle" /\ LockFree(c, FALSE) /\ To(c, "reading")
  /\ UNCHANGED <<file, spare, manifest, spares, before, meddled, appTroubles>>

\* verified_managed_gws_binary: runs only what the manifest vouches for and what
\* hashes to it, under the shared lock until the command ends.
OpenBinary(c) ==
  /\ app[c] = "reading"
  /\ To(c, IF manifest # NoManifest /\ Vouched(gws) /\ file[gws] = "ours" THEN "running" ELSE "unavailable")
  /\ UNCHANGED <<file, spare, manifest, spares, before, meddled, appTroubles>>

CommandEnds(c) ==
  /\ app[c] = "running" /\ To(c, "ran")
  /\ UNCHANGED <<file, spare, manifest, spares, before, meddled, appTroubles>>

----------------------------------------------------------------------------
\* What _recover_interrupted_install leaves: a missing manifest is restored from
\* its backup, or a staged one is adopted when every file it names is in place;
\* with neither, files equal to the pinned ones are removed as orphans.
CopiesOf(kind) == {s[2] : s \in {t \in spares : t[1] = kind}}
InPlace(parts) == \A p \in parts : file[p] = "ours"
Adopted ==
  IF manifest # NoManifest THEN {manifest}
  ELSE IF CopiesOf("backup") # {} THEN CopiesOf("backup")
  ELSE LET whole == {p \in CopiesOf("stage") : InPlace(p)}
       IN  IF whole # {} THEN whole ELSE {NoManifest}

\* What recovery does to the binary and its copies once the manifest is known.
RestoredBinary(parts) ==
  CASE parts = NoManifest -> IF file[gws] = "ours" THEN "none" ELSE file[gws]
    [] gws \in parts /\ file[gws] = "none" /\ "backup" \in spare -> "ours"
    [] OTHER -> file[gws]
\* A restored backup is moved; others go when the binary is the recorded one.
KeptSpare(parts) ==
  IF parts = NoManifest \/ (gws \in parts /\ RestoredBinary(parts) = "ours") THEN {} ELSE spare

Recovers(c, next) ==
  /\ \E parts \in Adopted :
       /\ manifest' = parts
       /\ file' = [file EXCEPT ![gws] = RestoredBinary(parts)]
       /\ spare' = KeptSpare(parts)
       /\ spares' = IF parts = NoManifest THEN {s \in spares : s[1] # "stage"} ELSE {}
  /\ To(c, next)
  /\ UNCHANGED <<before, meddled, appTroubles>>

\* Mutant: orphans of an interrupted first install are left where they are.
RecoverKeepsOrphans(c) ==
  /\ app[c] = "recover"
  /\ \E parts \in Adopted :
       /\ manifest' = parts
       /\ file' = IF parts = NoManifest THEN file ELSE [file EXCEPT ![gws] = RestoredBinary(parts)]
       /\ spare' = KeptSpare(parts)
       /\ spares' = IF parts = NoManifest THEN {s \in spares : s[1] # "stage"} ELSE {}
  /\ To(c, "check")
  /\ UNCHANGED <<before, meddled, appTroubles>>

RecoverInstall(c)   == app[c] = "recover" /\ Recovers(c, "check")
RecoverUninstall(c) == app[c] = "recoverOut" /\ Recovers(c, "remove")

\* The download fails, is too large or is not the pinned archive.
DownloadFails(c) ==
  /\ app[c] = "check" /\ AppTrouble /\ To(c, "failed")
  /\ UNCHANGED <<file, spare, manifest, spares, before, meddled>>

\* _preflight_install refuses a file that is not the recorded one, or any file
\* where none is recorded.
Admits == file[gws] = "none" \/ (Vouched(gws) /\ file[gws] = "ours")

CheckInstall(c) ==
  /\ app[c] = "check"
  /\ To(c, IF Admits THEN "retire" ELSE "refused")
  /\ UNCHANGED <<file, spare, manifest, spares, before, meddled, appTroubles>>

\* _retire_legacy_skill_components: a recorded file goes when it is unchanged
\* and to quarantine when it is not.
RetireOne(c) ==
  /\ app[c] = "retire"
  /\ \/ \E p \in Legacy \cap manifest :
          /\ file[p] # "none"
          /\ file' = [file EXCEPT ![p] = "none"]
          /\ UNCHANGED <<app, before>>
     \/ /\ \A p \in Legacy \cap manifest : file[p] = "none"
        /\ To(c, "stage")
        /\ before' = [before EXCEPT ![c] = <<file[gws], manifest>>]
        /\ UNCHANGED file
  /\ UNCHANGED <<spare, manifest, spares, meddled, appTroubles>>

\* _quarantine_modified_component fails and ends the call.
QuarantineFails(c) ==
  /\ app[c] = "retire"
  /\ \E p \in Legacy \cap manifest : file[p] = "foreign"
  /\ AppTrouble /\ To(c, "refused")
  /\ UNCHANGED <<file, spare, manifest, spares, before, meddled>>

----------------------------------------------------------------------------
\* _transactional_install.  A step that fails goes back through the undo steps.
StageFiles(c) ==
  /\ app[c] = "stage"
  /\ \/ spare' = spare \union {"stage"} /\ spares' = spares \union {<<"stage", {gws}>>}
        /\ To(c, "backupGws") /\ UNCHANGED appTroubles
     \/ AppTrouble /\ To(c, "undoStages") /\ UNCHANGED <<spare, spares>>
  /\ UNCHANGED <<file, manifest, before, meddled>>

BackUpBinary(c) ==
  /\ app[c] = "backupGws"
  /\ file' = [file EXCEPT ![gws] = "none"]
  /\ spare' = IF file[gws] = "none" THEN spare ELSE spare \union {"own"}
  /\ To(c, "moveGws")
  /\ UNCHANGED <<manifest, spares, before, meddled, appTroubles>>

\* When the second rename fails, the backup goes back at once.  A backup's name has
\* its process id: one that a dead process left is not taken for it.
MoveBinary(c) ==
  /\ app[c] = "moveGws"
  /\ \/ /\ file' = [file EXCEPT ![gws] = "ours"]
        /\ spare' = spare \ {"stage"}
        /\ To(c, "backupManifest") /\ UNCHANGED appTroubles
     \/ /\ AppTrouble /\ To(c, "undoStages")
        /\ file' = [file EXCEPT ![gws] = IF "own" \in spare THEN "ours" ELSE @]
        /\ spare' = spare \ {"own"}
  /\ UNCHANGED <<manifest, spares, before, meddled>>

BackUpManifest(c) ==
  /\ app[c] = "backupManifest"
  /\ manifest' = NoManifest
  /\ spares' = IF manifest = NoManifest THEN spares ELSE spares \union {<<"backup", manifest>>}
  /\ To(c, "moveManifest")
  /\ UNCHANGED <<file, spare, before, meddled, appTroubles>>

MoveManifest(c) ==
  /\ app[c] = "moveManifest"
  /\ \/ /\ manifest' = {gws} /\ spares' = spares \ {<<"stage", {gws}>>}
        /\ To(c, "dropGws") /\ UNCHANGED appTroubles
     \/ /\ AppTrouble /\ To(c, "undoGws")
        /\ manifest' = IF CopiesOf("backup") = {} THEN manifest ELSE before[c][2]
        /\ spares' = {s \in spares : s[1] # "backup"}
  /\ UNCHANGED <<file, spare, before, meddled>>

\* The directory sync or the removal of the first backup may still fail.
DropBinaryBackup(c) ==
  /\ app[c] = "dropGws"
  /\ \/ spare' = spare \ {"own"} /\ To(c, "dropManifest") /\ UNCHANGED appTroubles
     \/ AppTrouble /\ To(c, "undoManifest") /\ UNCHANGED spare
  /\ UNCHANGED <<file, manifest, spares, before, meddled>>

DropManifestBackup(c) ==
  /\ app[c] = "dropManifest"
  /\ spares' = {s \in spares : s[1] # "backup"}
  /\ To(c, "installed")
  /\ UNCHANGED <<file, spare, manifest, before, meddled, appTroubles>>

\* The removal of the last backup fails: the manifest goes back, but the binary's
\* backup is already gone and the rollback removes the new binary.
FailLate(c) ==
  /\ app[c] = "dropManifest" /\ AppTrouble
  /\ manifest' = IF CopiesOf("backup") = {} THEN NoManifest ELSE before[c][2]
  /\ spares' = {s \in spares : s[1] # "backup"}
  /\ file' = [file EXCEPT ![gws] = "none"]
  /\ To(c, "rolledBackLate")
  /\ UNCHANGED <<spare, before, meddled>>

\* The rollback, in reverse order of the commits.
UndoManifest(c) ==
  /\ app[c] = "undoManifest"
  /\ manifest' = IF CopiesOf("backup") = {} THEN NoManifest ELSE before[c][2]
  /\ spares' = {s \in spares : s[1] # "backup"}
  /\ To(c, "undoGws")
  /\ UNCHANGED <<file, spare, before, meddled, appTroubles>>

UndoBinary(c) ==
  /\ app[c] = "undoGws"
  /\ file' = [file EXCEPT ![gws] = IF "own" \in spare THEN "ours" ELSE "none"]
  /\ spare' = spare \ {"own"}
  /\ To(c, "undoStages")
  /\ UNCHANGED <<manifest, spares, before, meddled, appTroubles>>

UndoStages(c) ==
  /\ app[c] = "undoStages"
  /\ spare' = spare \ {"stage"} /\ spares' = spares \ {<<"stage", {gws}>>}
  /\ To(c, "rolledBack")
  /\ UNCHANGED <<file, manifest, before, meddled, appTroubles>>

----------------------------------------------------------------------------
\* _uninstall_managed_app_locked: unchanged files go, changed ones to quarantine
\* or, when that fails, they stay under a partial manifest.
RemoveFile(c) ==
  /\ app[c] = "remove" /\ manifest # NoManifest
  /\ \E p \in manifest : file[p] # "none" /\ file' = [file EXCEPT ![p] = "none"]
  /\ UNCHANGED <<spare, manifest, spares, app, before, meddled, appTroubles>>

SealUninstall(c) ==
  /\ app[c] = "remove"
  /\ LET left == {p \in manifest \ NoManifest : file[p] # "none"}
     IN  /\ \A p \in left : file[p] = "foreign"
         /\ manifest' = IF left = {} THEN NoManifest ELSE left
         /\ IF left = {} THEN UNCHANGED appTroubles ELSE AppTrouble
  /\ To(c, "uninstalled")
  /\ UNCHANGED <<file, spare, spares, before, meddled>>

----------------------------------------------------------------------------
\* Assumed, external: the owner puts a file of their own at a path, or takes one
\* away, while no install or uninstall is under way.
OwnerMeddles(p) ==
  /\ Cardinality(meddled) < MaxMeddles
  /\ \A c \in AppCalls : ~ Holds(c, Exclusive)
  /\ \E what \in {"foreign", "none"} : file[p] # what /\ file' = [file EXCEPT ![p] = what]
  /\ meddled' = meddled \union {p}
  /\ UNCHANGED <<spare, manifest, spares, app, before, appTroubles>>

\* The process dies: every call is lost and the locks with it; its backup stays.
AppDies ==
  /\ \E c \in AppCalls : Holds(c, Exclusive)
  /\ AppTrouble
  /\ app' = [c \in AppCalls |-> IF Holds(c, Exclusive \union Shared) THEN "dead" ELSE app[c]]
  /\ spare' = IF "own" \in spare THEN (spare \ {"own"}) \union {"backup"} ELSE spare
  /\ UNCHANGED <<file, manifest, spares, before, meddled>>

\* Nothing is installed, or what an older release has left.
AppInit ==
  /\ \E full \in BOOLEAN :
       /\ file = [p \in Components |-> IF full THEN "ours" ELSE "none"]
       /\ manifest = IF full THEN Components ELSE NoManifest
  /\ spare = {} /\ spares = {}
  /\ app = [c \in AppCalls |-> "idle"]
  /\ before = [c \in AppCalls |-> <<"none", NoManifest>>]
  /\ meddled = {} /\ appTroubles = 0

AppStep(c) ==
  \/ BeginInstall(c) \/ BeginUninstall(c) \/ BeginShared(c) \/ OpenBinary(c) \/ CommandEnds(c)
  \/ RecoverInstall(c) \/ RecoverUninstall(c) \/ DownloadFails(c) \/ CheckInstall(c)
  \/ RetireOne(c) \/ QuarantineFails(c) \/ StageFiles(c)
  \/ BackUpBinary(c) \/ MoveBinary(c) \/ BackUpManifest(c) \/ MoveManifest(c)
  \/ DropBinaryBackup(c) \/ DropManifestBackup(c) \/ FailLate(c)
  \/ UndoManifest(c) \/ UndoBinary(c)
  \/ UndoStages(c) \/ RemoveFile(c) \/ SealUninstall(c)

AppNext == (\E c \in AppCalls : AppStep(c)) \/ (\E p \in Components : OwnerMeddles(p)) \/ AppDies

----------------------------------------------------------------------------
Copy == {"backup", "stage"} \X (SUBSET Components)

\* Each file, the manifest and its copies stay in their sets, and the lock is
\* held by one writer or by readers (managed_app_lock).
AppTypeOK ==
  /\ file \in [Components -> {"none", "ours", "foreign"}]
  /\ spare \subseteq {"backup", "own", "stage"} /\ spares \subseteq Copy
  /\ manifest \in {NoManifest} \union SUBSET Components
  /\ \A c, d \in AppCalls : Holds(c, Exclusive) /\ Holds(d, Exclusive \union Shared) => c = d

\* A command runs only while the manifest vouches for the binary and, unless the
\* owner has taken it, the binary is there: no uninstall removes it under a
\* command (verified_managed_gws_binary).
RunsWhatIsManaged ==
  \A c \in AppCalls : app[c] = "running" => Vouched(gws) /\ (gws \notin meddled => file[gws] = "ours")

\* An install is refused only over the owner's own changes: whatever a crash at
\* any step has left behind is recovered, never taken for somebody else's file
\* (_recover_interrupted_install before _preflight_install).
RefusedOnlyForOwner == \A c \in AppCalls : app[c] = "refused" => meddled # {}

\* A file of the owner's is never deleted: it leaves its path only for the
\* quarantine, and only when the manifest had vouched for that path.
OwnerFilesSurvive ==
  [][\A p \in Components :
       file[p] = "foreign" /\ file'[p] # "foreign" /\ (\E c \in AppCalls : Holds(c, Exclusive)) => Vouched(p)]_appVars

\* A failed install gives back the binary and the manifest it began with, but for
\* a failure to remove the very last backup (FailLate).
RollbackRestores ==
  [][\A c \in AppCalls :
       app[c] # "rolledBack" /\ app'[c] = "rolledBack" => before[c] = <<file'[gws], manifest'>>]_appVars

\* An install or an uninstall is under way.
Managing == \E c \in AppCalls : Holds(c, Exclusive)
=============================================================================
