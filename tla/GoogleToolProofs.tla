-------------------------- MODULE GoogleToolProofs --------------------------
(* The proofs of the managed Google command, of the calls that run it, and   *)
(* of the permission chooser.  Each begins with the specification of its     *)
(* part alone, without fairness, and the inductive invariant of that part.   *)
EXTENDS ManagedApp, GoogleCommand, PermissionChooser, TLAPS

-----------------------------------------------------------------------------
(* The managed command: install, uninstall, and the calls that run it.      *)

AppSpec == AppInit /\ [][AppNext]_appVars

AppStates == Exclusive \union Shared
             \union {"idle", "unavailable", "ran", "failed", "refused", "installed", "rolledBack",
                     "rolledBackLate", "uninstalled", "dead"}
FileStates == {"none", "ours", "foreign"}
Manifests  == {NoManifest} \union SUBSET Components

AppTypes ==
  /\ file \in [Components -> FileStates]
  /\ spare \subseteq {"backup", "own", "stage"} /\ spares \subseteq Copy
  /\ manifest \in Manifests
  /\ app \in [AppCalls -> AppStates]
  /\ before \in [AppCalls -> FileStates \X Manifests]
  /\ meddled \subseteq Components /\ appTroubles \in Nat
  /\ \A s \in spares : s[2] # NoManifest

WriterAlone == \A c, d \in AppCalls : Holds(c, Exclusive) /\ Holds(d, Exclusive \union Shared) => c = d

\* While the owner has changed nothing, no file is foreign, and the manifest and
\* every copy of it name the binary; a binary that no manifest names has been
\* removed by the time an install looks.
Pure(parts) == parts = NoManifest \/ gws \in parts
Untouched ==
  meddled = {} =>
    /\ \A p \in Components : file[p] # "foreign"
    /\ Pure(manifest)
    /\ \A s \in spares : Pure(s[2])
    /\ \A c \in AppCalls : Pure(before[c][2])
    /\ \A c \in AppCalls : app[c] = "check" /\ file[gws] = "ours" => gws \in manifest
    /\ \A c \in AppCalls : app[c] # "refused"

\* What the transaction of a call has moved, and where the binary and the manifest
\* it began with are now.
Intact(c)   == before[c] = <<file[gws], manifest>>
BackedUp(c) == before[c][1] # "foreign" /\ ("own" \in spare <=> before[c][1] # "none")
NoBackup    == \A s \in spares : s[1] # "backup"
ManifestBackedUp(c) ==
  /\ \A s \in spares : s[1] = "backup" => s[2] = before[c][2]
  /\ before[c][2] # NoManifest <=> ~ NoBackup

Transacting == {"moveGws", "backupManifest", "moveManifest", "dropGws", "undoManifest", "undoGws"}
Progress(c) ==
  /\ app[c] \in {"check", "retire", "stage"} => spares = {}
  /\ app[c] \in {"retire", "stage", "backupGws"} => file[gws] # "foreign"
  /\ app[c] \in {"stage", "backupGws", "undoStages"} => Intact(c)
  /\ app[c] \in {"backupGws", "moveGws", "backupManifest", "undoGws"} => NoBackup
  /\ app[c] \in {"moveGws", "backupManifest", "undoGws"} => manifest = before[c][2]
  /\ app[c] = "moveGws" => file[gws] = "none"
  /\ app[c] \in {"backupManifest", "moveManifest", "dropGws", "dropManifest", "undoManifest", "undoGws"}
       => file[gws] = "ours"
  /\ app[c] \in Transacting => BackedUp(c)
  /\ app[c] \in {"moveManifest", "dropGws", "undoManifest", "dropManifest"} => ManifestBackedUp(c)
  /\ app[c] = "moveManifest" => manifest = NoManifest

OwnHeld == "own" \in spare => \E c \in AppCalls : app[c] \in Transacting

RunningSound == RunsWhatIsManaged

AppInv ==
  /\ AppTypes /\ WriterAlone /\ RunningSound
  /\ Untouched /\ OwnHeld
  /\ \A c \in AppCalls : Progress(c)

\* The components, and the states of a call that writes and of one that reads.
LEMMA ComponentFacts ==
  /\ gws \in Components /\ gws \notin NoManifest /\ gws \notin Legacy /\ Legacy \subseteq Components
  /\ Exclusive \subseteq AppStates /\ Shared \subseteq AppStates /\ Exclusive \cap Shared = {}
  /\ Transacting \subseteq Exclusive
  /\ {gws} \in SUBSET Components /\ {gws} # NoManifest
BY AppAssumption DEF gws, Components, NoManifest, AppStates, Exclusive, Shared, Transacting

\* Nothing is installed by a call at first.
LEMMA AppBegins == AppInit => AppInv
<1> SUFFICES ASSUME AppInit PROVE AppInv
  OBVIOUS
<1>1. app = [c \in AppCalls |-> "idle"] /\ spares = {} /\ spare = {} /\ meddled = {} /\ appTroubles = 0
      /\ before = [c \in AppCalls |-> <<"none", NoManifest>>]
  BY DEF AppInit
<1>2. \A c \in AppCalls : app[c] = "idle"
  BY <1>1
<1>3. file \in [Components -> FileStates] /\ manifest \in {NoManifest, Components}
      /\ \A p \in Components : file[p] # "foreign"
  BY DEF AppInit, FileStates
<1>4. AppTypes
  <2>1. <<"none", NoManifest>> \in FileStates \X Manifests
    BY DEF FileStates, Manifests
  <2> QED
    BY <1>1, <1>3, <2>1 DEF AppTypes, AppStates, Manifests
<1>5. WriterAlone /\ RunningSound /\ OwnHeld /\ \A c \in AppCalls : Progress(c)
  BY <1>1, <1>2 DEF WriterAlone, Holds, Exclusive, Shared, RunningSound, RunsWhatIsManaged, OwnHeld,
                    Progress, Transacting
<1>6. Untouched
  BY <1>1, <1>2, <1>3, ComponentFacts DEF Untouched, Pure
<1> QED
  BY <1>4, <1>5, <1>6 DEF AppInv

\* What a writer does: alone under the lock, it disturbs nobody else's progress.
LEMMA WriterMoves ==
  ASSUME AppInv, NEW c \in AppCalls, app[c] \in Exclusive, NEW pc \in AppStates \ Shared, To(c, pc),
         AppTypes', Untouched', Progress(c)',
         "own" \in spare' => pc \in Transacting
  PROVE  AppInv'
<1>1. app \in [AppCalls -> AppStates] /\ app'[c] = pc /\ \A d \in AppCalls : d # c => app'[d] = app[d]
  BY DEF AppInv, AppTypes, To
<1>2. \A d \in AppCalls : d # c => app[d] \notin Exclusive \union Shared
  BY DEF AppInv, WriterAlone, Holds
<1>3. WriterAlone'
  BY <1>1, <1>2 DEF WriterAlone, Holds
<1>4. RunningSound'
  BY <1>1, <1>2 DEF RunningSound, RunsWhatIsManaged, Shared
<1>5. OwnHeld'
  BY <1>1 DEF OwnHeld
<1>6. ASSUME NEW d \in AppCalls PROVE Progress(d)'
  <2>1. CASE d = c
    BY <2>1
  <2>2. CASE d # c
    <3>1. app'[d] \notin Exclusive
      BY <1>1, <1>2, <2>2
    <3> QED
      BY <3>1 DEF Progress, Exclusive, Transacting
  <2> QED
    BY <2>1, <2>2
<1> QED
  BY <1>3, <1>4, <1>5, <1>6 DEF AppInv

\* Untouched depends on the calls only through those that check or were refused.
LEMMA UntouchedKept ==
  ASSUME AppInv, NEW c \in AppCalls, NEW pc \in AppStates, To(c, pc), UNCHANGED meddled,
         meddled = {} =>
           /\ \A p \in Components : file'[p] # "foreign"
           /\ Pure(manifest')
           /\ \A s \in spares' : Pure(s[2])
           /\ \A d \in AppCalls : Pure(before'[d][2])
           /\ pc = "check" /\ file'[gws] = "ours" => gws \in manifest'
           /\ pc # "refused",
         app[c] \in Exclusive \/ UNCHANGED <<file, manifest>>
  PROVE  Untouched'
<1>1. app \in [AppCalls -> AppStates] /\ app'[c] = pc /\ \A d \in AppCalls : d # c => app'[d] = app[d]
  BY DEF AppInv, AppTypes, To
<1>2. ASSUME NEW d \in AppCalls, d # c, app[d] = "check", ~ UNCHANGED <<file, manifest>> PROVE FALSE
  <2>1. app[d] \in Exclusive /\ app[c] \in Exclusive
    BY <1>2 DEF Exclusive
  <2> QED
    BY <1>2, <2>1 DEF AppInv, WriterAlone, Holds
<1> SUFFICES ASSUME meddled' = {}
             PROVE  /\ \A p \in Components : file'[p] # "foreign"
                    /\ Pure(manifest')
                    /\ \A s \in spares' : Pure(s[2])
                    /\ \A d \in AppCalls : Pure(before'[d][2])
                    /\ \A d \in AppCalls : app'[d] = "check" /\ file'[gws] = "ours" => gws \in manifest'
                    /\ \A d \in AppCalls : app'[d] # "refused"
  BY DEF Untouched, Pure
<1>3. meddled = {}
  OBVIOUS
<1>4. Untouched
  BY DEF AppInv
<1>5. ASSUME NEW d \in AppCalls, app'[d] = "check", file'[gws] = "ours" PROVE gws \in manifest'
  <2>1. CASE d = c
    BY <1>1, <1>3, <1>5, <2>1
  <2>2. CASE d # c
    <3>1. app[d] = "check"
      BY <1>1, <1>5, <2>2
    <3>2. UNCHANGED <<file, manifest>>
      BY <1>2, <2>2, <3>1
    <3> QED
      BY <1>3, <1>4, <1>5, <3>1, <3>2 DEF Untouched
  <2> QED
    BY <2>1, <2>2
<1>6. ASSUME NEW d \in AppCalls PROVE app'[d] # "refused"
  BY <1>1, <1>3, <1>4 DEF Untouched
<1> QED
  BY <1>3, <1>5, <1>6

\* What is left of the manifest's copies.
LEMMA CopiesFacts ==
  /\ CopiesOf("backup") = {} <=> NoBackup
  /\ \A kind : \A parts \in CopiesOf(kind) : \E s \in spares : s[1] = kind /\ s[2] = parts
BY DEF CopiesOf, NoBackup

\* A call takes the lock, reads under it, runs the command or lets it go.
LEMMA EntersKeeps ==
  ASSUME AppInv, NEW c \in AppCalls,
         BeginInstall(c) \/ BeginUninstall(c) \/ BeginShared(c) \/ OpenBinary(c) \/ CommandEnds(c)
  PROVE  AppInv'
<1> PICK pc \in {"recover", "recoverOut", "reading", "running", "unavailable", "ran"} :
      /\ To(c, pc)
      /\ pc \in {"recover", "recoverOut"} => app[c] = "idle" /\ LockFree(c, TRUE)
      /\ pc = "reading" => app[c] = "idle" /\ LockFree(c, FALSE)
      /\ pc = "running" => app[c] = "reading" /\ Vouched(gws) /\ file[gws] = "ours"
      /\ pc \in {"unavailable", "ran"} => app[c] \in Shared
  BY DEF BeginInstall, BeginUninstall, BeginShared, OpenBinary, CommandEnds, Shared
<1>0. UNCHANGED <<file, spare, manifest, spares, before, meddled, appTroubles>>
  BY DEF BeginInstall, BeginUninstall, BeginShared, OpenBinary, CommandEnds
<1>1. app \in [AppCalls -> AppStates] /\ app'[c] = pc /\ \A d \in AppCalls : d # c => app'[d] = app[d]
  BY DEF AppInv, AppTypes, To
<1>2. pc \in AppStates
  BY DEF AppStates, Exclusive, Shared
<1>3. AppTypes'
  BY <1>0, <1>1, <1>2 DEF AppInv, AppTypes, To
<1>4. WriterAlone'
  <2>1. pc \in {"recover", "recoverOut"} => \A d \in AppCalls \ {c} : app[d] \notin Exclusive \union Shared
    BY DEF LockFree, Holds
  <2>2. pc = "reading" => \A d \in AppCalls \ {c} : app[d] \notin Exclusive
    BY DEF LockFree, Holds
  <2>3. pc = "running" => app[c] \in Shared
    BY DEF Shared
  <2>4. pc \in Exclusive => pc \in {"recover", "recoverOut"}
    BY DEF Exclusive
  <2>5. pc \in {"unavailable", "ran"} => pc \notin Exclusive \union Shared
    BY DEF Exclusive, Shared
  <2>6. \A d, e \in AppCalls : app[d] \in Exclusive /\ app[e] \in Exclusive \union Shared => d = e
    BY DEF AppInv, WriterAlone, Holds
  <2> SUFFICES ASSUME NEW d \in AppCalls, NEW e \in AppCalls, d # e,
                      app'[d] \in Exclusive, app'[e] \in Exclusive \union Shared
               PROVE  FALSE
    BY DEF WriterAlone, Holds
  <2>7. CASE d = c
    BY <1>1, <2>1, <2>4, <2>7
  <2>8. CASE e = c
    <3>1. app[d] \in Exclusive /\ d # c
      BY <1>1, <2>8
    <3>2. pc \in {"recover", "recoverOut", "reading", "running"}
      BY <1>1, <2>5, <2>8
    <3>3. pc # "running"
      BY <2>3, <2>6, <3>1
    <3> QED
      BY <2>1, <2>2, <3>1, <3>2, <3>3
  <2>9. CASE d # c /\ e # c
    BY <1>1, <2>6, <2>9
  <2> QED
    BY <2>7, <2>8, <2>9
<1>5. RunningSound'
  BY <1>0, <1>1 DEF AppInv, RunningSound, RunsWhatIsManaged, Vouched
<1>6. Untouched'
  <2>1. Untouched
    BY DEF AppInv
  <2> QED
    BY <2>1, <1>0, <1>2, UntouchedKept DEF Untouched
<1>7. OwnHeld'
  <2>1. app[c] \notin Transacting
    BY DEF Transacting, Shared
  <2> QED
    BY <1>0, <1>1, <2>1 DEF AppInv, OwnHeld
<1>8. \A d \in AppCalls : Progress(d)'
  <2> SUFFICES ASSUME NEW d \in AppCalls PROVE Progress(d)'
    OBVIOUS
  <2>1. CASE d = c
    BY <1>1, <2>1 DEF Progress, Transacting
  <2>2. CASE d # c
    <3>1. app'[d] = app[d] /\ Progress(d)
      BY <1>1, <2>2 DEF AppInv
    <3> QED
      BY <1>0, <3>1 DEF Progress, Intact, BackedUp, NoBackup, ManifestBackedUp
  <2> QED
    BY <2>1, <2>2
<1> QED
  BY <1>3, <1>4, <1>5, <1>6, <1>7, <1>8 DEF AppInv

\* The owner touches files only while no transaction is under way.
LEMMA MeddlesKeeps ==
  ASSUME AppInv, NEW p \in Components, OwnerMeddles(p)
  PROVE  AppInv'
<1>0. /\ UNCHANGED <<spare, manifest, spares, app, before, appTroubles>>
      /\ meddled' = meddled \union {p}
      /\ \A c \in AppCalls : app[c] \notin Exclusive
  BY DEF OwnerMeddles, Holds
<1>1. PICK what \in {"foreign", "none"} : file' = [file EXCEPT ![p] = what]
  BY DEF OwnerMeddles
<1>2. AppTypes'
  BY <1>0, <1>1 DEF AppInv, AppTypes, FileStates
<1>3. WriterAlone' /\ OwnHeld'
  BY <1>0 DEF AppInv, WriterAlone, Holds, OwnHeld
<1>4. RunningSound'
  BY <1>0, <1>1 DEF AppInv, AppTypes, RunningSound, RunsWhatIsManaged, Vouched
<1>5. Untouched'
  BY <1>0 DEF Untouched
<1>6. \A c \in AppCalls : Progress(c)'
  <2> SUFFICES ASSUME NEW c \in AppCalls PROVE Progress(c)'
    OBVIOUS
  <2>1. app'[c] \notin Exclusive
    BY <1>0
  <2> QED
    BY <2>1 DEF Progress, Exclusive, Transacting
<1> QED
  BY <1>2, <1>3, <1>4, <1>5, <1>6 DEF AppInv

\* A death ends every call; the backup of the one that wrote becomes a stale one.
LEMMA DeathKeeps ==
  ASSUME AppInv, AppDies
  PROVE  AppInv'
<1>0. /\ UNCHANGED <<file, manifest, spares, before, meddled>> /\ appTroubles' = appTroubles + 1
      /\ spare' \subseteq {"backup", "own", "stage"} /\ "own" \notin spare'
      /\ app' = [c \in AppCalls |-> IF Holds(c, Exclusive \union Shared) THEN "dead" ELSE app[c]]
  BY DEF AppDies, AppTrouble, AppInv, AppTypes
<1>1. \A c \in AppCalls : app'[c] = "dead" \/ (app'[c] = app[c] /\ app[c] \notin Exclusive \union Shared)
  BY <1>0 DEF Holds
<1>2. \A c \in AppCalls : app'[c] \notin Exclusive \union Shared
  BY <1>1 DEF Exclusive, Shared
<1>3. AppTypes'
  <2>1. app' \in [AppCalls -> AppStates]
    BY <1>0 DEF AppInv, AppTypes, AppStates
  <2>2. AppTypes
    BY DEF AppInv
  <2>3. appTroubles' \in Nat
    BY <1>0, <2>2 DEF AppTypes
  <2> QED
    BY <1>0, <2>1, <2>2, <2>3 DEF AppTypes
<1>4. WriterAlone' /\ OwnHeld' /\ RunningSound'
  BY <1>0, <1>2 DEF WriterAlone, Holds, OwnHeld, RunningSound, RunsWhatIsManaged, Shared
<1>5. Untouched'
  BY <1>0, <1>1 DEF AppInv, Untouched, Exclusive
<1>6. \A c \in AppCalls : Progress(c)'
  <2> SUFFICES ASSUME NEW c \in AppCalls PROVE Progress(c)'
    OBVIOUS
  <2>1. app'[c] \notin Exclusive
    BY <1>2
  <2> QED
    BY <2>1 DEF Progress, Exclusive, Transacting
<1> QED
  BY <1>3, <1>4, <1>5, <1>6 DEF AppInv

\* What recovery makes of the manifest and of the binary.
LEMMA AdoptedFacts ==
  ASSUME AppInv, NEW parts \in Adopted
  PROVE  /\ parts \in Manifests
         /\ parts = NoManifest => NoBackup
         /\ meddled = {} => Pure(parts)
         /\ RestoredBinary(parts) \in FileStates
         /\ parts = NoManifest => RestoredBinary(parts) # "ours"
         /\ RestoredBinary(parts) = "foreign" <=> file[gws] = "foreign"
         /\ KeptSpare(parts) \subseteq spare
<1>0. file[gws] \in FileStates /\ manifest \in Manifests /\ spares \subseteq Copy
      /\ \A s \in spares : s[2] # NoManifest
  BY ComponentFacts DEF AppInv, AppTypes
<1>1. \/ parts = manifest /\ manifest # NoManifest
      \/ \E s \in spares : s[2] = parts
      \/ parts = NoManifest /\ NoBackup
  <2>1. CASE manifest # NoManifest
    BY <2>1 DEF Adopted
  <2>2. CASE manifest = NoManifest /\ CopiesOf("backup") # {}
    BY <2>2, CopiesFacts DEF Adopted
  <2>3. CASE manifest = NoManifest /\ CopiesOf("backup") = {}
    <3>1. parts \in CopiesOf("stage") \/ parts = NoManifest
      BY <2>3 DEF Adopted
    <3> QED
      BY <2>3, <3>1, CopiesFacts
  <2> QED
    BY <2>1, <2>2, <2>3
<1>2. parts \in Manifests /\ (parts = NoManifest => NoBackup)
  BY <1>0, <1>1 DEF Copy, Manifests
<1>3. meddled = {} => Pure(parts)
  BY <1>1 DEF AppInv, Untouched, Pure
<1>4. /\ RestoredBinary(parts) \in FileStates
      /\ parts = NoManifest => RestoredBinary(parts) # "ours"
      /\ RestoredBinary(parts) = "foreign" <=> file[gws] = "foreign"
  <2>1. CASE parts = NoManifest
    <3>1. RestoredBinary(parts) = IF file[gws] = "ours" THEN "none" ELSE file[gws]
      BY <2>1, ComponentFacts DEF RestoredBinary
    <3> QED
      BY <1>0, <3>1 DEF FileStates
  <2>2. CASE parts # NoManifest /\ gws \in parts /\ file[gws] = "none" /\ "backup" \in spare
    <3>1. RestoredBinary(parts) = "ours"
      BY <2>2 DEF RestoredBinary
    <3> QED
      BY <2>2, <3>1 DEF FileStates
  <2>3. CASE parts # NoManifest /\ ~ (gws \in parts /\ file[gws] = "none" /\ "backup" \in spare)
    <3>1. RestoredBinary(parts) = file[gws]
      BY <2>3 DEF RestoredBinary
    <3> QED
      BY <1>0, <2>3, <3>1
  <2> QED
    BY <2>1, <2>2, <2>3
<1>5. KeptSpare(parts) \subseteq spare
  BY DEF KeptSpare
<1> QED
  BY <1>2, <1>3, <1>4, <1>5

\* A call that finds a dead one's copies restores the manifest and the binary from
\* them, and takes no file of the owner's.
LEMMA RecoversKeeps ==
  ASSUME AppInv, NEW c \in AppCalls, RecoverInstall(c) \/ RecoverUninstall(c)
  PROVE  AppInv' /\ \A p \in Components : file[p] = "foreign" => file'[p] = "foreign"
<1> PICK pc \in {"check", "remove"} : app[c] \in {"recover", "recoverOut"} /\ Recovers(c, pc)
  BY DEF RecoverInstall, RecoverUninstall
<1> PICK parts \in Adopted :
      /\ manifest' = parts
      /\ file' = [file EXCEPT ![gws] = RestoredBinary(parts)]
      /\ spare' = KeptSpare(parts)
      /\ spares' = IF parts = NoManifest THEN {s \in spares : s[1] # "stage"} ELSE {}
  BY DEF Recovers
<1>0. To(c, pc) /\ UNCHANGED <<before, meddled, appTroubles>> /\ app[c] \in Exclusive
      /\ pc \in AppStates \ Shared /\ pc \notin Transacting
  BY DEF Recovers, Exclusive, AppStates, Shared, Transacting
<1>1. app \in [AppCalls -> AppStates] /\ file \in [Components -> FileStates] /\ spares \subseteq Copy
      /\ spare \subseteq {"backup", "own", "stage"} /\ gws \in Components
  BY ComponentFacts DEF AppInv, AppTypes
<1>2. app'[c] = pc
  BY <1>0, <1>1 DEF To
<1>3. "own" \notin spare
  <2>1. ASSUME NEW d \in AppCalls, app[d] \in Transacting PROVE FALSE
    <3>1. app[d] \in Exclusive
      BY <2>1, ComponentFacts
    <3>2. c = d
      BY <1>0, <3>1 DEF AppInv, WriterAlone, Holds
    <3> QED
      BY <2>1, <3>2 DEF Transacting
  <2> QED
    BY <2>1 DEF AppInv, OwnHeld
<1>4. spares' = {}
  BY <1>1, AdoptedFacts DEF Copy, NoBackup
<1>5. file'[gws] = RestoredBinary(parts) /\ \A p \in Components : p # gws => file'[p] = file[p]
  BY <1>1
<1>6. \A p \in Components : file[p] = "foreign" <=> file'[p] = "foreign"
  BY <1>5, AdoptedFacts
<1>7. AppTypes'
  <2>1. file' \in [Components -> FileStates] /\ app' \in [AppCalls -> AppStates]
    BY <1>0, <1>1, AdoptedFacts DEF To
  <2>2. spare' \subseteq {"backup", "own", "stage"} /\ manifest' \in Manifests
    BY <1>1, AdoptedFacts
  <2> QED
    BY <1>0, <1>4, <2>1, <2>2 DEF AppInv, AppTypes
<1>8. Untouched'
  <2>1. meddled = {} =>
          /\ \A p \in Components : file'[p] # "foreign"
          /\ Pure(manifest')
          /\ \A s \in spares' : Pure(s[2])
          /\ \A d \in AppCalls : Pure(before'[d][2])
          /\ pc = "check" /\ file'[gws] = "ours" => gws \in manifest'
          /\ pc # "refused"
    BY <1>0, <1>4, <1>5, <1>6, AdoptedFacts DEF AppInv, Untouched, Pure
  <2> QED
    BY <1>0, <2>1, UntouchedKept
<1>9. Progress(c)'
  BY <1>2, <1>4 DEF Progress, Transacting
<1>10. "own" \notin spare'
  BY <1>3, AdoptedFacts
<1> QED
  BY <1>0, <1>6, <1>7, <1>8, <1>9, <1>10, WriterMoves

\* What every writer may rely on.
LEMMA WriterFacts ==
  ASSUME AppInv, NEW c \in AppCalls, app[c] \in Exclusive
  PROVE  /\ app \in [AppCalls -> AppStates] /\ file \in [Components -> FileStates]
         /\ file[gws] \in FileStates /\ manifest \in Manifests /\ spares \subseteq Copy
         /\ spare \subseteq {"backup", "own", "stage"} /\ appTroubles \in Nat
         /\ before[c] \in FileStates \X Manifests /\ before[c] = <<before[c][1], before[c][2]>>
         /\ \A s \in spares : s[2] # NoManifest
         /\ Progress(c)
         /\ "own" \in spare => app[c] \in Transacting
<1>1. ASSUME "own" \in spare PROVE app[c] \in Transacting
  <2>1. PICK d \in AppCalls : app[d] \in Transacting
    BY <1>1 DEF AppInv, OwnHeld
  <2>2. app[d] \in Exclusive
    BY <2>1, ComponentFacts
  <2> QED
    BY <2>1, <2>2 DEF AppInv, WriterAlone, Holds
<1> QED
  BY <1>1, ComponentFacts DEF AppInv, AppTypes

\* A step of the transaction: it sets the binary, the manifest to one the call
\* knows, and their copies.
LEMMA TransactionKeeps ==
  ASSUME AppInv, NEW c \in AppCalls, app[c] \in Exclusive,
         NEW pc \in AppStates \ Shared, pc \notin {"check", "refused"}, To(c, pc),
         NEW b \in {"none", "ours", file[gws]}, file' = [file EXCEPT ![gws] = b],
         spare' \subseteq {"backup", "own", "stage"},
         manifest' \in {manifest, NoManifest, {gws}, before[c][2]},
         \A s \in spares' : \/ s \in spares
                            \/ s = <<"stage", {gws}>>
                            \/ s = <<"backup", manifest>> /\ manifest # NoManifest,
         UNCHANGED <<before, meddled>>, appTroubles' \in Nat,
         Progress(c)', "own" \in spare' => pc \in Transacting
  PROVE  AppInv'
<1>1. AppTypes'
  <2>0. AppTypes /\ b \in FileStates
    BY WriterFacts DEF AppInv, FileStates
  <2>1. file' \in [Components -> FileStates] /\ app' \in [AppCalls -> AppStates]
    BY <2>0 DEF AppTypes, To
  <2>2. manifest' \in Manifests /\ manifest \in Manifests
    BY WriterFacts, ComponentFacts DEF Manifests
  <2>3. spares' \subseteq Copy /\ \A s \in spares' : s[2] # NoManifest
    <3> SUFFICES ASSUME NEW s \in spares' PROVE s \in Copy /\ s[2] # NoManifest
      OBVIOUS
    <3>1. CASE s \in spares
      BY <3>1, WriterFacts
    <3>2. CASE s = <<"stage", {gws}>>
      BY <3>2, ComponentFacts DEF Copy
    <3>3. CASE s = <<"backup", manifest>> /\ manifest # NoManifest
      BY <3>3, <2>2 DEF Copy, Manifests
    <3> QED
      BY <3>1, <3>2, <3>3
  <2> QED
    BY <2>0, <2>1, <2>2, <2>3 DEF AppTypes
<1>2. Untouched'
  <2>1. ASSUME meddled = {}
        PROVE  /\ \A p \in Components : file'[p] # "foreign"
               /\ Pure(manifest')
               /\ \A s \in spares' : Pure(s[2])
               /\ \A d \in AppCalls : Pure(before'[d][2])
    <3>0. /\ \A p \in Components : file[p] # "foreign"
          /\ Pure(manifest) /\ Pure(before[c][2]) /\ Pure(NoManifest) /\ Pure({gws})
          /\ \A s \in spares : Pure(s[2])
          /\ \A d \in AppCalls : Pure(before[d][2])
      BY <2>1 DEF AppInv, Untouched, Pure
    <3>1. \A p \in Components : file'[p] # "foreign"
      BY <3>0, WriterFacts, ComponentFacts
    <3>2. \A s \in spares' : Pure(s[2])
      <4> SUFFICES ASSUME NEW s \in spares' PROVE Pure(s[2])
        OBVIOUS
      <4>1. s \in spares \/ s[2] = {gws} \/ s[2] = manifest
        OBVIOUS
      <4> QED
        BY <4>1, <3>0
    <3>3. Pure(manifest')
      BY <3>0
    <3> QED
      BY <3>0, <3>1, <3>2, <3>3
  <2> QED
    BY <2>1, UntouchedKept
<1> QED
  BY <1>1, <1>2, WriterMoves

\* The owner's files: what a writer takes away the manifest names.
OwnersStay == \A p \in Components : file[p] = "foreign" /\ file'[p] # "foreign" => p \in manifest

\* A call stages the new files beside the old, or drops what it staged.
LEMMA StagesKeep ==
  ASSUME AppInv, NEW c \in AppCalls, StageFiles(c) \/ UndoStages(c)
  PROVE  AppInv' /\ OwnersStay
<1> USE DEF Progress, Intact, NoBackup, BackedUp, ManifestBackedUp, Transacting
<1>0. app[c] \in Exclusive /\ UNCHANGED <<file, manifest, before, meddled>>
      /\ {"backupGws", "undoStages", "rolledBack"} \subseteq AppStates \ Shared
  BY DEF StageFiles, UndoStages, Exclusive, AppStates, Shared
<1>1. OwnersStay
  BY <1>0 DEF OwnersStay
<1>2. file' = [file EXCEPT ![gws] = file[gws]]
  BY <1>0, WriterFacts
<1>3. CASE StageFiles(c) /\ To(c, "backupGws")
  <2>1. /\ spare' = spare \union {"stage"} /\ spares' = spares \union {<<"stage", {gws}>>}
        /\ app[c] = "stage" /\ UNCHANGED appTroubles
    BY <1>0, <1>3, WriterFacts DEF StageFiles, To
  <2>2. app'[c] = "backupGws"
    BY <1>0, <1>3, WriterFacts DEF To
  <2>3. Progress(c)'
    BY <1>0, <2>1, <2>2, WriterFacts
  <2> QED
    BY <1>0, <1>1, <1>2, <1>3, <2>1, <2>3, WriterFacts, TransactionKeeps
<1>4. CASE StageFiles(c) /\ ~ To(c, "backupGws")
  <2>1. app[c] = "stage" /\ AppTrouble /\ To(c, "undoStages") /\ UNCHANGED <<spare, spares>>
    BY <1>4 DEF StageFiles
  <2>2. app'[c] = "undoStages" /\ appTroubles' \in Nat
    BY <1>0, <2>1, WriterFacts DEF To, AppTrouble
  <2>3. Progress(c)'
    BY <1>0, <2>1, <2>2, WriterFacts
  <2> QED
    BY <1>0, <1>1, <1>2, <2>1, <2>2, <2>3, WriterFacts, TransactionKeeps
<1>5. CASE UndoStages(c)
  <2>1. /\ app[c] = "undoStages" /\ To(c, "rolledBack") /\ UNCHANGED appTroubles
        /\ spare' = spare \ {"stage"} /\ spares' = spares \ {<<"stage", {gws}>>}
    BY <1>5 DEF UndoStages
  <2>2. app'[c] = "rolledBack"
    BY <1>0, <2>1, WriterFacts DEF To
  <2>3. Progress(c)'
    BY <2>2
  <2> QED
    BY <1>0, <1>1, <1>2, <2>1, <2>3, WriterFacts, TransactionKeeps
<1> QED
  BY <1>3, <1>4, <1>5

\* A call sets its own backup of the binary aside and puts the new one in place.
LEMMA BinaryKeeps ==
  ASSUME AppInv, NEW c \in AppCalls, BackUpBinary(c) \/ MoveBinary(c)
  PROVE  AppInv' /\ OwnersStay
<1> USE DEF Progress, Intact, NoBackup, BackedUp, ManifestBackedUp, Transacting
<1>0. /\ app[c] \in Exclusive /\ UNCHANGED <<manifest, spares, before, meddled>>
      /\ {"moveGws", "backupManifest", "undoStages"} \subseteq AppStates \ Shared
      /\ app[c] \in {"backupGws", "moveGws"}
  BY DEF BackUpBinary, MoveBinary, Exclusive, AppStates, Shared
<1>1. file[gws] # "foreign" /\ before[c][1] \in FileStates
  BY <1>0, WriterFacts
<1>2. CASE BackUpBinary(c)
  <2>1. /\ app[c] = "backupGws" /\ file' = [file EXCEPT ![gws] = "none"] /\ UNCHANGED appTroubles
        /\ spare' = IF file[gws] = "none" THEN spare ELSE spare \union {"own"}
        /\ To(c, "moveGws")
    BY <1>2 DEF BackUpBinary
  <2>2. app'[c] = "moveGws" /\ file'[gws] = "none" /\ before[c] = <<file[gws], manifest>> /\ NoBackup
        /\ "own" \notin spare
    BY <1>0, <2>1, WriterFacts, ComponentFacts DEF To
  <2>3. Progress(c)'
    BY <1>0, <1>1, <2>1, <2>2
  <2>4. OwnersStay
    BY <1>1, <2>1, WriterFacts DEF OwnersStay
  <2> QED
    BY <1>0, <2>1, <2>2, <2>3, <2>4, WriterFacts, TransactionKeeps
<1>3. CASE MoveBinary(c) /\ UNCHANGED appTroubles
  <2>1. \/ /\ app[c] = "moveGws" /\ file' = [file EXCEPT ![gws] = "ours"]
           /\ spare' = spare \ {"stage"} /\ To(c, "backupManifest")
        \/ appTroubles' = appTroubles + 1
    BY <1>3 DEF MoveBinary, AppTrouble
  <2>2. /\ app[c] = "moveGws" /\ file' = [file EXCEPT ![gws] = "ours"]
        /\ spare' = spare \ {"stage"} /\ To(c, "backupManifest")
    BY <1>0, <1>3, <2>1, WriterFacts
  <2>3. app'[c] = "backupManifest" /\ file'[gws] = "ours"
    BY <1>0, <2>2, WriterFacts, ComponentFacts DEF To
  <2>4. Progress(c)'
    BY <1>0, <2>2, <2>3, WriterFacts
  <2>5. OwnersStay
    BY <1>1, <2>2, WriterFacts DEF OwnersStay
  <2> QED
    BY <1>0, <1>3, <2>2, <2>4, <2>5, WriterFacts, TransactionKeeps
<1>4. CASE MoveBinary(c) /\ ~ UNCHANGED appTroubles
  <2> DEFINE b == IF "own" \in spare THEN "ours" ELSE file[gws]
  <2>1. /\ app[c] = "moveGws" /\ AppTrouble /\ To(c, "undoStages")
        /\ file' = [file EXCEPT ![gws] = b]
        /\ spare' = spare \ {"own"}
    BY <1>4 DEF MoveBinary
  <2>2. app'[c] = "undoStages" /\ file'[gws] = b /\ appTroubles' \in Nat
    BY <1>0, <2>1, WriterFacts, ComponentFacts DEF To, AppTrouble
  <2>3. /\ file[gws] = "none" /\ manifest = before[c][2] /\ before[c][1] \in {"none", "ours"}
        /\ "own" \in spare <=> before[c][1] # "none"
        /\ before[c] = <<before[c][1], before[c][2]>>
    BY <2>1, <1>0, WriterFacts DEF FileStates
  <2>4. before[c] = <<b, manifest>>
    BY <2>3
  <2>5. Progress(c)'
    BY <1>0, <2>1, <2>2, <2>4, WriterFacts
  <2>6. OwnersStay
    BY <1>1, <2>1, WriterFacts DEF OwnersStay
  <2>7. b \in {"none", "ours", file[gws]}
    OBVIOUS
  <2> HIDE DEF b
  <2> QED
    BY <1>0, <2>1, <2>2, <2>5, <2>6, <2>7, WriterFacts, TransactionKeeps
<1> QED
  BY <1>2, <1>3, <1>4

\* A call sets the manifest aside and puts the new one in place.
LEMMA ManifestKeeps ==
  ASSUME AppInv, NEW c \in AppCalls, BackUpManifest(c) \/ MoveManifest(c)
  PROVE  AppInv' /\ OwnersStay
<1> USE DEF Progress, Intact, NoBackup, BackedUp, ManifestBackedUp, Transacting
<1>0. /\ app[c] \in Exclusive /\ UNCHANGED <<file, spare, before, meddled>>
      /\ {"moveManifest", "dropGws", "undoGws"} \subseteq AppStates \ Shared
      /\ app[c] \in {"backupManifest", "moveManifest"}
  BY DEF BackUpManifest, MoveManifest, Exclusive, AppStates, Shared
<1>1. file' = [file EXCEPT ![gws] = file[gws]] /\ OwnersStay
  BY <1>0, WriterFacts DEF OwnersStay
<1>2. CASE BackUpManifest(c)
  <2>1. /\ app[c] = "backupManifest" /\ manifest' = NoManifest /\ UNCHANGED appTroubles
        /\ spares' = IF manifest = NoManifest THEN spares ELSE spares \union {<<"backup", manifest>>}
        /\ To(c, "moveManifest")
    BY <1>2 DEF BackUpManifest
  <2>2. app'[c] = "moveManifest" /\ manifest = before[c][2] /\ NoBackup /\ file[gws] = "ours" /\ BackedUp(c)
    BY <1>0, <2>1, WriterFacts DEF To
  <2>3. ManifestBackedUp(c)'
    <3>1. CASE manifest = NoManifest
      BY <1>0, <2>1, <2>2, <3>1
    <3>2. CASE manifest # NoManifest
      <4>1. <<"backup", manifest>> \in spares' /\ \A s \in spares' : s[1] = "backup" => s[2] = manifest
        BY <2>1, <2>2, <3>2
      <4>2. <<"backup", manifest>>[1] = "backup"
        OBVIOUS
      <4> QED
        BY <1>0, <2>2, <3>2, <4>1, <4>2
    <3> QED
      BY <3>1, <3>2
  <2>4. Progress(c)'
    BY <1>0, <2>1, <2>2, <2>3
  <2> QED
    BY <1>0, <1>1, <2>1, <2>4, WriterFacts, TransactionKeeps
<1>3. CASE /\ MoveManifest(c) /\ manifest' = {gws} /\ spares' = spares \ {<<"stage", {gws}>>}
           /\ To(c, "dropGws") /\ UNCHANGED appTroubles
  <2>1. app[c] = "moveManifest" /\ app'[c] = "dropGws"
    BY <1>0, <1>3, WriterFacts DEF MoveManifest, To
  <2>2. ManifestBackedUp(c) /\ file[gws] = "ours" /\ BackedUp(c)
    BY <2>1, <1>0, WriterFacts
  <2>3. ManifestBackedUp(c)'
    BY <1>0, <1>3, <2>2
  <2>4. Progress(c)'
    BY <1>0, <2>1, <2>2, <2>3
  <2> QED
    BY <1>0, <1>1, <1>3, <2>4, WriterFacts, TransactionKeeps
<1>4. CASE /\ MoveManifest(c) /\ AppTrouble /\ To(c, "undoGws")
           /\ manifest' = IF CopiesOf("backup") = {} THEN manifest ELSE before[c][2]
           /\ spares' = {s \in spares : s[1] # "backup"}
  <2>1. app[c] = "moveManifest" /\ app'[c] = "undoGws" /\ appTroubles' \in Nat
    BY <1>0, <1>4, WriterFacts DEF MoveManifest, To, AppTrouble
  <2>2. ManifestBackedUp(c) /\ file[gws] = "ours" /\ BackedUp(c) /\ manifest = NoManifest
    BY <2>1, <1>0, WriterFacts
  <2>3. manifest' = before[c][2]
    BY <1>4, <2>2, CopiesFacts
  <2>4. Progress(c)'
    BY <1>0, <1>4, <2>1, <2>2, <2>3
  <2> QED
    BY <1>0, <1>1, <1>4, <2>1, <2>3, <2>4, WriterFacts, TransactionKeeps
<1> QED
  BY <1>2, <1>3, <1>4 DEF MoveManifest

\* A call drops the backups once both files are in place.
LEMMA DropsKeep ==
  ASSUME AppInv, NEW c \in AppCalls, DropBinaryBackup(c) \/ DropManifestBackup(c) \/ FailLate(c)
  PROVE  AppInv' /\ OwnersStay
<1> USE DEF Progress, Intact, NoBackup, BackedUp, ManifestBackedUp, Transacting
<1>0. /\ app[c] \in Exclusive /\ UNCHANGED <<before, meddled>>
      /\ {"dropManifest", "undoManifest", "installed", "rolledBackLate"} \subseteq AppStates \ Shared
      /\ app[c] \in {"dropGws", "dropManifest"} /\ file[gws] = "ours"
  BY WriterFacts DEF DropBinaryBackup, DropManifestBackup, FailLate, Exclusive, AppStates, Shared
<1>1. file = [file EXCEPT ![gws] = file[gws]]
  BY <1>0, WriterFacts
<1>2. CASE DropBinaryBackup(c)
  <2>0. app[c] = "dropGws" /\ UNCHANGED <<file, manifest, spares>>
    BY <1>2 DEF DropBinaryBackup
  <2>1. PICK pc \in {"dropManifest", "undoManifest"} :
          /\ To(c, pc) /\ spare' \in {spare, spare \ {"own"}} /\ appTroubles' \in {appTroubles, appTroubles + 1}
          /\ pc = "undoManifest" => spare' = spare
          /\ pc = "dropManifest" => "own" \notin spare'
    BY <1>2 DEF DropBinaryBackup, AppTrouble
  <2>2. app'[c] = pc /\ appTroubles' \in Nat
    BY <1>0, <2>1, WriterFacts DEF To
  <2>3. Progress(c)'
    BY <1>0, <2>0, <2>1, <2>2, WriterFacts
  <2>4. OwnersStay
    BY <2>0 DEF OwnersStay
  <2> QED
    BY <1>0, <1>1, <2>0, <2>1, <2>2, <2>3, <2>4, WriterFacts, TransactionKeeps
<1>3. CASE DropManifestBackup(c)
  <2>1. /\ app[c] = "dropManifest" /\ UNCHANGED <<file, spare, manifest, appTroubles>> /\ To(c, "installed")
        /\ spares' = {s \in spares : s[1] # "backup"}
    BY <1>3 DEF DropManifestBackup
  <2>2. app'[c] = "installed" /\ "own" \notin spare
    BY <1>0, <2>1, WriterFacts DEF To
  <2>3. Progress(c)'
    BY <2>2
  <2>4. OwnersStay
    BY <2>1 DEF OwnersStay
  <2> QED
    BY <1>0, <1>1, <2>1, <2>2, <2>3, <2>4, WriterFacts, TransactionKeeps
<1>4. CASE FailLate(c)
  <2>1. /\ app[c] = "dropManifest" /\ AppTrouble /\ UNCHANGED spare /\ To(c, "rolledBackLate")
        /\ manifest' = IF CopiesOf("backup") = {} THEN NoManifest ELSE before[c][2]
        /\ spares' = {s \in spares : s[1] # "backup"}
        /\ file' = [file EXCEPT ![gws] = "none"]
    BY <1>4 DEF FailLate
  <2>2. app'[c] = "rolledBackLate" /\ "own" \notin spare /\ appTroubles' \in Nat
    BY <1>0, <2>1, WriterFacts DEF To, AppTrouble
  <2>3. Progress(c)'
    BY <2>2
  <2>4. OwnersStay
    BY <1>0, <2>1, WriterFacts DEF OwnersStay
  <2> QED
    BY <1>0, <2>1, <2>2, <2>3, <2>4, WriterFacts, TransactionKeeps
<1> QED
  BY <1>2, <1>3, <1>4

\* A call that fails puts the manifest and the binary back, in this order.
LEMMA UndoesKeep ==
  ASSUME AppInv, NEW c \in AppCalls, UndoManifest(c) \/ UndoBinary(c)
  PROVE  AppInv' /\ OwnersStay
<1> USE DEF Progress, Intact, NoBackup, BackedUp, ManifestBackedUp, Transacting
<1>0. /\ app[c] \in Exclusive /\ UNCHANGED <<before, meddled, appTroubles>>
      /\ {"undoGws", "undoStages"} \subseteq AppStates \ Shared
      /\ app[c] \in {"undoManifest", "undoGws"} /\ file[gws] = "ours"
  BY WriterFacts DEF UndoManifest, UndoBinary, Exclusive, AppStates, Shared
<1>1. CASE UndoManifest(c)
  <2>1. /\ app[c] = "undoManifest" /\ UNCHANGED <<file, spare>> /\ To(c, "undoGws")
        /\ manifest' = IF CopiesOf("backup") = {} THEN NoManifest ELSE before[c][2]
        /\ spares' = {s \in spares : s[1] # "backup"}
    BY <1>1 DEF UndoManifest
  <2>2. app'[c] = "undoGws" /\ file' = [file EXCEPT ![gws] = file[gws]]
    BY <1>0, <2>1, WriterFacts DEF To
  <2>3. ManifestBackedUp(c) /\ BackedUp(c)
    BY <1>0, <2>1, WriterFacts
  <2>4. manifest' = before[c][2]
    BY <2>1, <2>3, CopiesFacts
  <2>5. Progress(c)'
    BY <1>0, <2>1, <2>2, <2>3, <2>4
  <2>6. OwnersStay
    BY <2>1 DEF OwnersStay
  <2> QED
    BY <1>0, <2>1, <2>2, <2>4, <2>5, <2>6, WriterFacts, TransactionKeeps
<1>2. CASE UndoBinary(c)
  <2> DEFINE b == IF "own" \in spare THEN "ours" ELSE "none"
  <2>1. /\ app[c] = "undoGws" /\ UNCHANGED <<manifest, spares>> /\ To(c, "undoStages")
        /\ file' = [file EXCEPT ![gws] = b] /\ spare' = spare \ {"own"}
    BY <1>2 DEF UndoBinary
  <2>2. app'[c] = "undoStages" /\ file'[gws] = b
    BY <1>0, <2>1, WriterFacts, ComponentFacts DEF To
  <2>3. /\ manifest = before[c][2] /\ before[c][1] \in {"none", "ours"}
        /\ "own" \in spare <=> before[c][1] # "none"
        /\ before[c] = <<before[c][1], before[c][2]>>
    BY <2>1, <1>0, WriterFacts DEF FileStates
  <2>4. before[c] = <<b, manifest>>
    BY <2>3
  <2>5. Progress(c)'
    BY <1>0, <2>1, <2>2, <2>4
  <2>6. OwnersStay
    BY <1>0, <2>1, WriterFacts DEF OwnersStay
  <2>7. b \in {"none", "ours", file[gws]}
    OBVIOUS
  <2> HIDE DEF b
  <2> QED
    BY <1>0, <2>1, <2>2, <2>5, <2>6, <2>7, WriterFacts, TransactionKeeps
<1> QED
  BY <1>1, <1>2

\* What comes before the transaction: the download, the preflight, the old skills.
LEMMA ChecksKeep ==
  ASSUME AppInv, NEW c \in AppCalls, DownloadFails(c) \/ CheckInstall(c) \/ QuarantineFails(c)
  PROVE  AppInv' /\ OwnersStay
<1> USE DEF Progress, Intact, Transacting
<1>0. /\ app[c] \in Exclusive /\ UNCHANGED <<file, spare, manifest, spares, before, meddled>>
      /\ {"failed", "retire", "refused"} \subseteq AppStates \ Shared
      /\ app[c] \in {"check", "retire"}
  BY DEF DownloadFails, CheckInstall, QuarantineFails, Exclusive, AppStates, Shared
<1>1. PICK pc \in {"failed", "retire", "refused"} :
        /\ To(c, pc) /\ appTroubles' \in {appTroubles, appTroubles + 1}
        /\ pc = "retire" => app[c] = "check" /\ Admits
        /\ pc = "refused" => \/ app[c] = "check" /\ ~ Admits
                             \/ \E p \in Legacy \cap manifest : file[p] = "foreign"
  BY DEF DownloadFails, CheckInstall, QuarantineFails, AppTrouble
<1>2. app'[c] = pc /\ appTroubles' \in Nat /\ "own" \notin spare
  BY <1>0, <1>1, WriterFacts DEF To
<1>3. Progress(c)'
  BY <1>0, <1>1, <1>2, WriterFacts DEF Admits
<1>4. AppTypes'
  <2>1. app' \in [AppCalls -> AppStates]
    BY <1>0, <1>1, WriterFacts DEF To
  <2> QED
    BY <1>0, <1>2, <2>1 DEF AppInv, AppTypes
<1>5. Untouched'
  <2>1. ASSUME meddled = {} PROVE pc # "refused"
    <3>1. \A p \in Components : file[p] # "foreign"
      BY <2>1 DEF AppInv, Untouched
    <3>2. file[gws] # "foreign" /\ file[gws] \in FileStates
      BY <3>1, <1>0, WriterFacts, ComponentFacts
    <3>3. app[c] = "check" /\ file[gws] = "ours" => Vouched(gws)
      BY <2>1 DEF AppInv, Untouched, Vouched
    <3>4. app[c] = "check" => Admits
      BY <3>2, <3>3 DEF Admits, FileStates
    <3> QED
      BY <1>1, <3>1, <3>4, ComponentFacts
  <2>2. meddled = {} =>
          /\ \A p \in Components : file[p] # "foreign"
          /\ Pure(manifest)
          /\ \A s \in spares : Pure(s[2])
          /\ \A d \in AppCalls : Pure(before[d][2])
    BY DEF AppInv, Untouched
  <2> QED
    BY <1>0, <1>1, <2>1, <2>2, UntouchedKept
<1> QED
  BY <1>0, <1>1, <1>2, <1>3, <1>4, <1>5, WriterMoves DEF OwnersStay

\* A step that takes one recorded file away and leaves the writer where it is.
LEMMA RemovalKeeps ==
  ASSUME AppInv, NEW c \in AppCalls, app[c] \in {"retire", "remove"},
         NEW p \in Components, p \in manifest, app[c] = "retire" => p # gws,
         file' = [file EXCEPT ![p] = "none"],
         UNCHANGED <<spare, manifest, spares, app, before, meddled, appTroubles>>
  PROVE  AppInv' /\ OwnersStay
<1> USE DEF Progress, Intact, Transacting
<1>0. app[c] \in Exclusive /\ app[c] \in AppStates \ Shared
  BY DEF Exclusive, AppStates, Shared
<1>1. To(c, app[c]) /\ app[c] \notin {"check", "refused"} /\ "own" \notin spare
  BY <1>0, WriterFacts DEF To
<1>2. \A q \in Components : file'[q] = "foreign" => file[q] = "foreign"
  BY <1>0, WriterFacts
<1>3. AppTypes'
  BY DEF AppInv, AppTypes, FileStates
<1>4. Untouched'
  <2>1. meddled = {} =>
          /\ \A q \in Components : file'[q] # "foreign"
          /\ Pure(manifest)
          /\ \A s \in spares : Pure(s[2])
          /\ \A d \in AppCalls : Pure(before[d][2])
    BY <1>2 DEF AppInv, Untouched
  <2> QED
    BY <1>0, <1>1, <2>1, UntouchedKept
<1>5. Progress(c)'
  <2>1. app[c] = "retire" => file'[gws] = file[gws]
    BY <1>0, WriterFacts, ComponentFacts
  <2> QED
    BY <1>0, <2>1, WriterFacts
<1>6. OwnersStay
  BY <1>0, WriterFacts DEF OwnersStay
<1> QED
  BY <1>0, <1>1, <1>3, <1>4, <1>5, <1>6, WriterMoves

\* An install retires a legacy file the manifest names.
LEMMA RetiresKeep ==
  ASSUME AppInv, NEW c \in AppCalls, RetireOne(c)
  PROVE  AppInv' /\ OwnersStay
<1> USE DEF Progress, Intact, Transacting
<1>0. /\ app[c] = "retire" /\ app[c] \in Exclusive /\ "stage" \in AppStates \ Shared
      /\ UNCHANGED <<spare, manifest, spares, meddled, appTroubles>>
  BY DEF RetireOne, Exclusive, AppStates, Shared
<1>1. CASE \E p \in Legacy \cap manifest : file' = [file EXCEPT ![p] = "none"] /\ UNCHANGED <<app, before>>
  BY <1>0, <1>1, ComponentFacts, RemovalKeeps
<1>2. CASE /\ To(c, "stage") /\ UNCHANGED file
           /\ before' = [before EXCEPT ![c] = <<file[gws], manifest>>]
  <2>0. before \in [AppCalls -> FileStates \X Manifests] /\ <<file[gws], manifest>> \in FileStates \X Manifests
    BY <1>0, WriterFacts DEF AppInv, AppTypes
  <2>1. /\ app'[c] = "stage" /\ before'[c] = <<file[gws], manifest>> /\ "own" \notin spare
        /\ \A d \in AppCalls : d # c => before'[d] = before[d]
    BY <1>0, <1>2, <2>0, WriterFacts DEF To
  <2>2. Progress(c)'
    BY <1>0, <1>2, <2>1, WriterFacts
  <2>3. AppTypes'
    <3>1. app' \in [AppCalls -> AppStates] /\ before' \in [AppCalls -> FileStates \X Manifests]
      BY <1>0, <1>2, <2>0, WriterFacts DEF To
    <3> QED
      BY <1>0, <1>2, <3>1 DEF AppInv, AppTypes
  <2>4. Untouched'
    <3>1. meddled = {} =>
            /\ \A p \in Components : file[p] # "foreign"
            /\ Pure(manifest)
            /\ \A s \in spares : Pure(s[2])
            /\ \A d \in AppCalls : Pure(before[d][2])
      BY DEF AppInv, Untouched
    <3>2. meddled = {} => \A d \in AppCalls : Pure(before'[d][2])
      <4> SUFFICES ASSUME meddled = {}, NEW d \in AppCalls PROVE Pure(before'[d][2])
        OBVIOUS
      <4>1. CASE d = c
        <5>1. before'[d][2] = manifest
          BY <2>1, <4>1
        <5> QED
          BY <3>1, <5>1
      <4>2. CASE d # c
        BY <2>1, <3>1, <4>2
      <4> QED
        BY <4>1, <4>2
    <3> QED
      BY <1>0, <1>2, <3>1, <3>2, UntouchedKept
  <2> QED
    BY <1>0, <1>2, <2>1, <2>2, <2>3, <2>4, WriterMoves DEF OwnersStay
<1> QED
  BY <1>1, <1>2 DEF RetireOne

\* An uninstall removes what the manifest names, and the manifest last.
LEMMA UninstallKeeps ==
  ASSUME AppInv, NEW c \in AppCalls, RemoveFile(c) \/ SealUninstall(c)
  PROVE  AppInv' /\ OwnersStay
<1> USE DEF Progress, Transacting
<1>0. /\ app[c] = "remove" /\ app[c] \in Exclusive /\ "uninstalled" \in AppStates \ Shared
  BY DEF RemoveFile, SealUninstall, Exclusive, AppStates, Shared
<1>1. CASE RemoveFile(c)
  <2>1. PICK p \in manifest : file' = [file EXCEPT ![p] = "none"] /\ manifest # NoManifest
    BY <1>1 DEF RemoveFile
  <2>2. p \in Components
    BY <1>0, <2>1, WriterFacts DEF Manifests
  <2>3. UNCHANGED <<spare, manifest, spares, app, before, meddled, appTroubles>>
    BY <1>1 DEF RemoveFile
  <2> QED
    BY <1>0, <2>1, <2>2, <2>3, RemovalKeeps
<1>2. CASE SealUninstall(c)
  <2> DEFINE left == {p \in manifest \ NoManifest : file[p] # "none"}
  <2>1. /\ UNCHANGED <<file, spare, spares, before, meddled>> /\ To(c, "uninstalled")
        /\ \A p \in left : file[p] = "foreign"
        /\ manifest' = IF left = {} THEN NoManifest ELSE left
        /\ appTroubles' \in {appTroubles, appTroubles + 1}
    BY <1>2 DEF SealUninstall, AppTrouble
  <2>2. left \subseteq Components
    BY <1>0, WriterFacts DEF Manifests
  <2> HIDE DEF left
  <2>3. app'[c] = "uninstalled" /\ appTroubles' \in Nat /\ "own" \notin spare
    BY <1>0, <2>1, WriterFacts DEF To
  <2>4. Progress(c)'
    BY <2>3
  <2>5. AppTypes'
    <3>1. app' \in [AppCalls -> AppStates] /\ manifest' \in Manifests
      BY <1>0, <2>1, <2>2, WriterFacts DEF To, Manifests
    <3> QED
      BY <2>1, <2>3, <3>1 DEF AppInv, AppTypes
  <2>6. Untouched'
    <3>1. meddled = {} =>
            /\ \A p \in Components : file[p] # "foreign"
            /\ \A s \in spares : Pure(s[2])
            /\ \A d \in AppCalls : Pure(before[d][2])
      BY DEF AppInv, Untouched
    <3>2. meddled = {} => Pure(manifest')
      BY <2>1, <2>2, <3>1 DEF Pure
    <3> QED
      BY <1>0, <2>1, <3>1, <3>2, UntouchedKept
  <2> QED
    BY <1>0, <2>1, <2>3, <2>4, <2>5, <2>6, WriterMoves DEF OwnersStay
<1> QED
  BY <1>1, <1>2

\* Every step keeps the invariant.
LEMMA AppStepKeeps ==
  ASSUME AppInv, [AppNext]_appVars
  PROVE  AppInv'
<1>1. CASE UNCHANGED appVars
  BY <1>1 DEF appVars, AppInv, AppTypes, WriterAlone, Holds, RunningSound, RunsWhatIsManaged, Vouched,
     Untouched, OwnHeld, Progress, Intact, BackedUp, NoBackup, ManifestBackedUp
<1>2. CASE AppNext
  BY <1>2, EntersKeeps, MeddlesKeeps, DeathKeeps, RecoversKeeps, StagesKeep, BinaryKeeps, ManifestKeeps,
     DropsKeep, UndoesKeep, ChecksKeep, RetiresKeep, UninstallKeeps DEF AppNext, AppStep
<1> QED
  BY <1>1, <1>2

\* The invariant holds throughout.
LEMMA AppAlways == AppSpec => []AppInv
BY AppBegins, AppStepKeeps, PTL DEF AppSpec

\* For any number of calls, legacy files, meddlings and troubles: a command runs the
\* managed binary while nobody replaces it, and an install is refused only for a
\* file of the owner's (google_workspace/app_manager.py).
THEOREM ManagedCommandHolds ==
  AppSpec => [](AppTypeOK /\ RunsWhatIsManaged /\ RefusedOnlyForOwner)
<1>1. AppInv => AppTypeOK
  BY DEF AppInv, AppTypes, AppTypeOK, WriterAlone, FileStates, Manifests
<1>2. AppInv => RunsWhatIsManaged /\ RefusedOnlyForOwner
  BY DEF AppInv, RunningSound, RefusedOnlyForOwner, Untouched
<1> QED
  BY AppAlways, <1>1, <1>2, PTL

\* For any number of calls, legacy files, meddlings and troubles: no step of the
\* manager takes a file of the owner's from its path, but for one the manifest had
\* vouched for (app_manager.py).
THEOREM OwnerFilesSurviveHolds == AppSpec => OwnerFilesSurvive
<1> DEFINE A == \A p \in Components :
                  file[p] = "foreign" /\ file'[p] # "foreign" /\ (\E c \in AppCalls : Holds(c, Exclusive))
                    => Vouched(p)
<1>1. AppInv /\ [AppNext]_appVars => [A]_appVars
  <2> SUFFICES ASSUME AppInv, AppNext, NEW p \in Components, file[p] = "foreign", file'[p] # "foreign",
                      \E c \in AppCalls : Holds(c, Exclusive)
               PROVE  Vouched(p)
    OBVIOUS
  <2>1. file' # file /\ ~ AppDies /\ ~ \E q \in Components : OwnerMeddles(q)
    BY DEF AppDies, OwnerMeddles
  <2>2. PICK c \in AppCalls : AppStep(c)
    BY <2>1 DEF AppNext
  <2>3. ~ (BeginInstall(c) \/ BeginUninstall(c) \/ BeginShared(c) \/ OpenBinary(c) \/ CommandEnds(c))
    BY <2>1 DEF BeginInstall, BeginUninstall, BeginShared, OpenBinary, CommandEnds
  <2>4. ~ (RecoverInstall(c) \/ RecoverUninstall(c))
    BY RecoversKeeps
  <2>5. OwnersStay
    BY <2>2, <2>3, <2>4, StagesKeep, BinaryKeeps, ManifestKeeps, DropsKeep, UndoesKeep, ChecksKeep,
       RetiresKeep, UninstallKeeps DEF AppStep
  <2> QED
    BY <2>5 DEF OwnersStay, Vouched
<1>2. OwnerFilesSurvive <=> [][A]_appVars
  BY DEF OwnerFilesSurvive
<1> QED
  BY <1>1, <1>2, AppAlways, PTL DEF AppSpec

\* For any number of calls, legacy files, meddlings and troubles: a transaction that
\* rolls back leaves the binary and the manifest it found (app_manager.py).
THEOREM RollbackRestoresHolds == AppSpec => RollbackRestores
<1> DEFINE A == \A c \in AppCalls :
                  app[c] # "rolledBack" /\ app'[c] = "rolledBack" => before[c] = <<file'[gws], manifest'>>
<1>1. AppInv /\ [AppNext]_appVars => [A]_appVars
  <2> SUFFICES ASSUME AppInv, AppNext, NEW c \in AppCalls, app[c] # "rolledBack", app'[c] = "rolledBack"
               PROVE  before[c] = <<file'[gws], manifest'>>
    OBVIOUS
  <2>0. app \in [AppCalls -> AppStates]
    BY DEF AppInv, AppTypes
  <2>1. ~ AppDies /\ ~ \E q \in Components : OwnerMeddles(q)
    BY DEF AppDies, OwnerMeddles
  <2>2. PICK d \in AppCalls : AppStep(d)
    BY <2>1 DEF AppNext
  <2>3. \A pc : To(d, pc) => pc = "rolledBack" /\ d = c
    BY <2>0 DEF To
  <2>4. app' # app
    OBVIOUS
  <2>5. UndoStages(d) /\ d = c
    BY <2>2, <2>3, <2>4 DEF AppStep, BeginInstall, BeginUninstall, BeginShared, OpenBinary, CommandEnds,
       RecoverInstall, RecoverUninstall, Recovers, DownloadFails, CheckInstall, RetireOne, QuarantineFails,
       StageFiles, BackUpBinary, MoveBinary, BackUpManifest, MoveManifest, DropBinaryBackup,
       DropManifestBackup, FailLate, UndoManifest, UndoBinary, UndoStages, RemoveFile, SealUninstall
  <2>6. app[c] = "undoStages" /\ UNCHANGED <<file, manifest>>
    BY <2>5 DEF UndoStages
  <2> QED
    BY <2>6 DEF AppInv, Progress, Intact
<1>2. RollbackRestores <=> [][A]_appVars
  BY DEF RollbackRestores
<1> QED
  BY <1>1, <1>2, AppAlways, PTL DEF AppSpec

-----------------------------------------------------------------------------
(* The calls that load a credential and run the command with it.            *)

CommandSpec == CommandInit /\ [][CommandNext]_commandVars

CommandStates == Outcomes \union {"idle", "asked", "load", "refresh", "refreshing",
                                  "invoke", "running", "again"}
Credentials    == [gen : Nat, token : Nat]
CommandRecords == [pc : CommandStates, write : BOOLEAN, id : Accounts \union {"none"},
                   confirmed : Nat, cred : Credentials, refreshed : BOOLEAN, under : Nat]

CommandTypes ==
  /\ saved \in [Accounts -> Credentials]
  /\ owner \in Nat /\ owned \in Nat /\ changes \in Nat
  /\ locked \in Commands \union {"free"}
  /\ cmd \in [Commands -> CommandRecords]

\* What a command in one state has in its hands.
Entitled(t) ==
  /\ t.pc # "idle" => t.id \in Accounts
  /\ t.pc = "invoke" /\ t.write /\ ~ t.refreshed => t.cred.gen = t.confirmed
  /\ t.pc = "refreshing" => t.refreshed
  /\ t.pc = "running" => t.id \in Accounts /\ saved[t.id] = t.cred /\ t.under = owned

RunsSound ==
  \A r \in ranAs :
    /\ r[1] \in Commands /\ cmd[r[1]].pc # "idle"
    /\ cmd[r[1]].write =>
         r[2] = cmd[r[1]].id /\ (cmd[r[1]].refreshed \/ r[3] = cmd[r[1]].confirmed)

CommandInv ==
  /\ CommandTypes
  /\ \A c \in Commands : cmd[c].pc = "running" <=> locked = c
  /\ \A c \in Commands : Entitled(cmd[c])
  /\ RunsSound

\* No command runs at first.
LEMMA CommandBegins == CommandInit => CommandInv
<1> SUFFICES ASSUME CommandInit PROVE CommandInv
  OBVIOUS
<1>1. NewCommand \in CommandRecords /\ NewCommand.pc = "idle"
  BY DEF NewCommand, CommandRecords, CommandStates, Credentials, Absent
<1>2. CommandTypes
  BY <1>1 DEF CommandInit, CommandTypes, Credentials
<1>3. \A c \in Commands : cmd[c].pc = "idle"
  BY <1>1 DEF CommandInit
<1>4. \A c \in Commands : cmd[c].pc = "running" <=> locked = c
  BY <1>3, CommandAssumption DEF CommandInit
<1>5. \A c \in Commands : Entitled(cmd[c])
  BY <1>3 DEF Entitled
<1>6. RunsSound
  BY DEF CommandInit, RunsSound
<1> QED
  BY <1>2, <1>4, <1>5, <1>6 DEF CommandInv

\* What does not matter to the commands: the lock is free, or the accounts stay.
LEMMA OthersKeep ==
  ASSUME CommandInv, CommandTypes', UNCHANGED <<cmd, locked, ranAs>>,
         locked = "free" \/ UNCHANGED <<saved, owned>>
  PROVE  CommandInv'
<1>1. \A c \in Commands : cmd'[c].pc = "running" <=> locked' = c
  BY DEF CommandInv
<1>2. ASSUME NEW c \in Commands PROVE Entitled(cmd[c])'
  <2>1. Entitled(cmd[c]) /\ cmd'[c] = cmd[c]
    BY DEF CommandInv
  <2>2. cmd[c].pc = "running" => UNCHANGED <<saved, owned>>
    BY CommandAssumption DEF CommandInv
  <2> QED
    BY <2>1, <2>2 DEF Entitled
<1>3. RunsSound'
  BY DEF CommandInv, RunsSound
<1> QED
  BY <1>1, <1>2, <1>3 DEF CommandInv

\* A command that does not run, and will not, moves on with what it was
\* confirmed for; accounts change only while nothing runs.
LEMMA CommandGoesOn ==
  ASSUME CommandInv, NEW c \in Commands, NEW t \in CommandRecords,
         cmd' = [cmd EXCEPT ![c] = t],
         cmd[c].pc # "running", t.pc # "running", t.pc # "idle", t.id \in Accounts,
         t.pc = "invoke" /\ t.write /\ ~ t.refreshed => t.cred.gen = t.confirmed,
         t.pc = "refreshing" => t.refreshed,
         \/ cmd[c].pc = "idle"
         \/ /\ t.write = cmd[c].write /\ t.id = cmd[c].id /\ t.confirmed = cmd[c].confirmed
            /\ cmd[c].refreshed => t.refreshed,
         saved' \in [Accounts -> Credentials], changes' \in Nat,
         UNCHANGED <<owner, owned, locked, ranAs>>,
         locked = "free" \/ UNCHANGED saved
  PROVE  CommandInv'
<1>1. /\ cmd' \in [Commands -> CommandRecords]
      /\ cmd'[c] = t /\ \A d \in Commands : d # c => cmd'[d] = cmd[d]
  BY DEF CommandInv, CommandTypes
<1>2. CommandTypes'
  BY <1>1 DEF CommandInv, CommandTypes
<1>3. \A d \in Commands : cmd'[d].pc = "running" <=> locked' = d
  BY <1>1 DEF CommandInv
<1>4. ASSUME NEW d \in Commands PROVE Entitled(cmd[d])'
  <2>1. CASE d = c
    <3>1. cmd'[d] = t
      BY <1>1, <2>1
    <3> QED
      BY <3>1 DEF Entitled
  <2>2. CASE d # c
    <3>1. Entitled(cmd[d]) /\ cmd'[d] = cmd[d]
      BY <1>1, <2>2 DEF CommandInv
    <3>2. cmd[d].pc = "running" => UNCHANGED <<saved, owned>>
      BY CommandAssumption DEF CommandInv
    <3> QED
      BY <3>1, <3>2 DEF Entitled
  <2> QED
    BY <2>1, <2>2
<1>5. RunsSound'
  <2> SUFFICES ASSUME NEW r \in ranAs
               PROVE  /\ r[1] \in Commands /\ cmd'[r[1]].pc # "idle"
                      /\ cmd'[r[1]].write =>
                           r[2] = cmd'[r[1]].id /\ (cmd'[r[1]].refreshed \/ r[3] = cmd'[r[1]].confirmed)
    BY DEF RunsSound
  <2>1. /\ r[1] \in Commands /\ cmd[r[1]].pc # "idle"
        /\ cmd[r[1]].write =>
             r[2] = cmd[r[1]].id /\ (cmd[r[1]].refreshed \/ r[3] = cmd[r[1]].confirmed)
    BY DEF CommandInv, RunsSound
  <2>2. CASE r[1] = c
    BY <1>1, <2>1, <2>2
  <2>3. CASE r[1] # c
    BY <1>1, <2>1, <2>3
  <2> QED
    BY <2>2, <2>3
<1> QED
  BY <1>2, <1>3, <1>4, <1>5 DEF CommandInv

\* Naming another state keeps the rest of what a command has.
LEMMA BecomesFacts ==
  ASSUME CommandInv, NEW c \in Commands, NEW pc \in CommandStates
  PROVE  LET t == [cmd[c] EXCEPT !.pc = pc]
         IN  /\ t \in CommandRecords /\ t.pc = pc /\ t.id = cmd[c].id /\ t.write = cmd[c].write
             /\ t.confirmed = cmd[c].confirmed /\ t.refreshed = cmd[c].refreshed /\ t.cred = cmd[c].cred
             /\ Becomes(c, pc) => cmd' = [cmd EXCEPT ![c] = t]
BY DEF CommandInv, CommandTypes, CommandRecords, Becomes

\* A call that ends, or goes on without running, while accounts may be wiped.
LEMMA BecomesKeeps ==
  ASSUME CommandInv, NEW c \in Commands, NEW pc \in CommandStates, Becomes(c, pc),
         cmd[c].pc # "running", cmd[c].pc # "idle", pc \notin {"running", "idle", "invoke", "refreshing"},
         saved' \in [Accounts -> Credentials], changes' \in Nat,
         UNCHANGED <<owner, owned, locked, ranAs>>,
         locked = "free" \/ UNCHANGED saved
  PROVE  CommandInv'
<1> DEFINE t == [cmd[c] EXCEPT !.pc = pc]
<1>1. /\ t \in CommandRecords /\ t.pc = pc /\ t.id = cmd[c].id /\ t.write = cmd[c].write
      /\ t.confirmed = cmd[c].confirmed /\ t.refreshed = cmd[c].refreshed
      /\ cmd' = [cmd EXCEPT ![c] = t]
  BY BecomesFacts
<1>2. t.id \in Accounts
  BY <1>1 DEF CommandInv, Entitled
<1> HIDE DEF t
<1> QED
  BY <1>1, <1>2, CommandGoesOn

\* A cleared registry is a registry.
LEMMA ClearedType == Cleared \in [Accounts -> Credentials]
BY DEF Cleared, Absent, Credentials

\* A command that is asked for has nothing in its hands yet.
LEMMA AskingKeeps ==
  ASSUME CommandInv, NEW c \in Commands, AskRead(c) \/ AskWrite(c)
  PROVE  CommandInv'
<1>0. cmd[c] \in CommandRecords /\ cmd[c].pc = "idle" /\ changes' \in Nat
      /\ saved' \in [Accounts -> Credentials] /\ UNCHANGED <<owner, owned, locked, ranAs, saved>>
  BY DEF CommandInv, CommandTypes, AskRead, AskWrite
<1>1. ASSUME AskRead(c) PROVE CommandInv'
  <2>1. PICK a \in Connected : cmd' = [cmd EXCEPT ![c].pc = "load", ![c].id = a]
    BY <1>1 DEF AskRead
  <2> DEFINE t == [cmd[c] EXCEPT !.pc = "load", !.id = a]
  <2>2. t \in CommandRecords /\ t.pc = "load" /\ t.id \in Accounts
    BY <1>0 DEF CommandRecords, CommandStates, Connected
  <2>3. cmd' = [cmd EXCEPT ![c] = t]
    BY <2>1
  <2> HIDE DEF t
  <2> QED
    BY <1>0, <2>2, <2>3, CommandGoesOn
<1>2. ASSUME AskWrite(c) PROVE CommandInv'
  <2>1. PICK a \in Connected :
          cmd' = [cmd EXCEPT ![c].pc = "asked", ![c].write = TRUE, ![c].id = a,
                             ![c].confirmed = saved[a].gen]
    BY <1>2 DEF AskWrite
  <2> DEFINE t == [cmd[c] EXCEPT !.pc = "asked", !.write = TRUE, !.id = a, !.confirmed = saved[a].gen]
  <2>0. a \in Accounts /\ saved[a].gen \in Nat
    BY DEF Connected, CommandInv, CommandTypes, Credentials
  <2>2. t \in CommandRecords /\ t.pc = "asked" /\ t.id \in Accounts
    BY <1>0, <2>0 DEF CommandRecords, CommandStates
  <2>3. cmd' = [cmd EXCEPT ![c] = t]
    BY <2>1
  <2> HIDE DEF t
  <2> QED
    BY <1>0, <2>2, <2>3, CommandGoesOn
<1> QED
  BY <1>1, <1>2

\* A command loads the credential it was confirmed for, or is refused.
LEMMA LoadingKeeps ==
  ASSUME CommandInv, NEW c \in Commands, Load(c)
  PROVE  CommandInv'
<1> DEFINE now == saved[cmd[c].id]
<1>0. /\ cmd[c] \in CommandRecords /\ cmd[c].pc = "load" /\ changes' \in Nat
      /\ saved' \in [Accounts -> Credentials] /\ UNCHANGED <<owner, owned, locked, ranAs, saved>>
      /\ cmd[c].id \in Accounts /\ now \in Credentials
  BY DEF CommandInv, CommandTypes, Load, Entitled
<1>1. \/ Becomes(c, "not_connected")
      \/ Becomes(c, "confirmation_stale")
      \/ /\ ~ (cmd[c].write /\ now.gen # cmd[c].confirmed)
         /\ \E pc \in {"invoke", "refresh"} : cmd' = [cmd EXCEPT ![c].pc = pc, ![c].cred = now]
  BY DEF Load
<1>2. CASE Becomes(c, "not_connected") \/ Becomes(c, "confirmation_stale")
  <2>1. PICK pc \in {"not_connected", "confirmation_stale"} : Becomes(c, pc)
    BY <1>2
  <2>2. pc \in CommandStates
    BY DEF CommandStates, Outcomes
  <2> QED
    BY <1>0, <2>1, <2>2, BecomesKeeps
<1>3. CASE /\ ~ (cmd[c].write /\ now.gen # cmd[c].confirmed)
           /\ \E pc \in {"invoke", "refresh"} : cmd' = [cmd EXCEPT ![c].pc = pc, ![c].cred = now]
  <2>1. PICK pc \in {"invoke", "refresh"} : cmd' = [cmd EXCEPT ![c].pc = pc, ![c].cred = now]
    BY <1>3
  <2> DEFINE t == [cmd[c] EXCEPT !.pc = pc, !.cred = now]
  <2>2. /\ t \in CommandRecords /\ t.pc = pc /\ t.id = cmd[c].id /\ t.cred = now
        /\ t.write = cmd[c].write /\ t.confirmed = cmd[c].confirmed /\ t.refreshed = cmd[c].refreshed
    BY <1>0 DEF CommandRecords, CommandStates
  <2>3. cmd' = [cmd EXCEPT ![c] = t]
    BY <2>1
  <2>4. t.write => t.cred.gen = t.confirmed
    BY <1>3, <2>2
  <2> HIDE DEF t, now
  <2> QED
    BY <1>0, <2>2, <2>3, <2>4, CommandGoesOn
<1> QED
  BY <1>1, <1>2, <1>3

\* A refresh replaces the token of one account while no command runs.
LEMMA RefreshingKeeps ==
  ASSUME CommandInv, NEW c \in Commands, RefreshLoads(c) \/ RefreshReturns(c)
  PROVE  CommandInv'
<1> DEFINE now == saved[cmd[c].id]
<1>0. /\ cmd[c] \in CommandRecords /\ cmd[c].pc \in {"refresh", "again", "refreshing"}
      /\ UNCHANGED <<owner, owned, locked, ranAs>>
      /\ cmd[c].id \in Accounts /\ now \in Credentials
      /\ saved \in [Accounts -> Credentials] /\ changes \in Nat
      /\ "refresh_failed" \in CommandStates
  BY DEF CommandInv, CommandTypes, RefreshLoads, RefreshReturns, Entitled, CommandStates, Outcomes
<1>1. CASE RefreshLoads(c)
  <2>0. UNCHANGED <<saved, changes>>
    BY <1>1 DEF RefreshLoads
  <2>1. CASE Becomes(c, "refresh_failed")
    BY <1>0, <2>0, <2>1, BecomesKeeps
  <2>2. CASE cmd' = [cmd EXCEPT ![c].pc = "refreshing", ![c].cred = now, ![c].refreshed = TRUE]
    <3> DEFINE t == [cmd[c] EXCEPT !.pc = "refreshing", !.cred = now, !.refreshed = TRUE]
    <3>2. /\ t \in CommandRecords /\ t.pc = "refreshing" /\ t.id = cmd[c].id /\ t.refreshed = TRUE
          /\ t.write = cmd[c].write /\ t.confirmed = cmd[c].confirmed
      BY <1>0 DEF CommandRecords, CommandStates
    <3>3. cmd' = [cmd EXCEPT ![c] = t]
      BY <2>2
    <3> HIDE DEF t, now
    <3> QED
      BY <1>0, <2>0, <3>2, <3>3, CommandGoesOn
  <2> QED
    BY <1>1, <2>1, <2>2 DEF RefreshLoads
<1>2. CASE RefreshReturns(c)
  <2>0. locked = "free" /\ cmd[c].pc = "refreshing"
    BY <1>2 DEF RefreshReturns
  <2>1. \/ /\ Becomes(c, "refresh_failed") /\ changes' = changes
           /\ saved' = saved \/ saved' = Cleared
        \/ /\ Change /\ saved' = [saved EXCEPT ![cmd[c].id].token = @ + 1]
           /\ cmd' = [cmd EXCEPT ![c].pc = "invoke", ![c].cred.token = @ + 1]
    BY <1>2 DEF RefreshReturns
  <2>2. CASE /\ Becomes(c, "refresh_failed") /\ changes' = changes
             /\ saved' = saved \/ saved' = Cleared
    BY <1>0, <2>0, <2>2, ClearedType, BecomesKeeps
  <2>3. CASE /\ Change /\ saved' = [saved EXCEPT ![cmd[c].id].token = @ + 1]
             /\ cmd' = [cmd EXCEPT ![c].pc = "invoke", ![c].cred.token = @ + 1]
    <3> DEFINE t == [cmd[c] EXCEPT !.pc = "invoke", !.cred.token = @ + 1]
    <3>1. saved' \in [Accounts -> Credentials] /\ changes' \in Nat
      BY <1>0, <2>3 DEF Credentials, Change
    <3>2. /\ t \in CommandRecords /\ t.pc = "invoke" /\ t.id = cmd[c].id /\ t.refreshed = cmd[c].refreshed
          /\ t.write = cmd[c].write /\ t.confirmed = cmd[c].confirmed /\ t.cred.gen = cmd[c].cred.gen
      <4>1. [cmd[c].cred EXCEPT !.token = @ + 1] \in Credentials
            /\ [cmd[c].cred EXCEPT !.token = @ + 1].gen = cmd[c].cred.gen
        BY <1>0 DEF CommandRecords, Credentials
      <4>2. t = [cmd[c] EXCEPT !.pc = "invoke", !.cred = [cmd[c].cred EXCEPT !.token = @ + 1]]
        BY <1>0 DEF CommandRecords
      <4> HIDE DEF t
      <4> QED
        BY <1>0, <4>1, <4>2 DEF CommandRecords, CommandStates
    <3>3. cmd' = [cmd EXCEPT ![c] = t]
      BY <2>3
    <3>4. t.refreshed
      BY <2>0, <3>2 DEF CommandInv, Entitled
    <3> HIDE DEF t, now
    <3> QED
      BY <1>0, <2>0, <3>1, <3>2, <3>3, <3>4, CommandGoesOn
  <2> QED
    BY <2>1, <2>2, <2>3
<1> QED
  BY <1>1, <1>2

\* The command runs with the account as it was loaded, which is the one the write
\* was confirmed for unless a token was refreshed.
LEMMA InvokingKeeps ==
  ASSUME CommandInv, NEW c \in Commands, Invoke(c)
  PROVE  CommandInv'
<1>0. /\ cmd[c] \in CommandRecords /\ cmd[c].pc = "invoke" /\ locked = "free"
      /\ UNCHANGED <<owner, owned, changes>>
      /\ cmd[c].id \in Accounts
      /\ saved \in [Accounts -> Credentials] /\ changes \in Nat
      /\ "connection_changed" \in CommandStates /\ "assignment_changed" \in CommandStates
      /\ owner \in Nat /\ cmd \in [Commands -> CommandRecords]
  BY DEF CommandInv, CommandTypes, Invoke, Entitled, CommandStates, Outcomes
<1>1. \/ Becomes(c, "connection_changed") /\ UNCHANGED <<saved, locked, ranAs>>
      \/ Becomes(c, "assignment_changed") /\ saved' = Cleared /\ UNCHANGED <<locked, ranAs>>
      \/ /\ saved[cmd[c].id] = cmd[c].cred /\ owned = owner
         /\ cmd' = [cmd EXCEPT ![c].pc = "running", ![c].under = owner]
         /\ locked' = c
         /\ ranAs' = ranAs \union {<<c, cmd[c].id, saved[cmd[c].id].gen>>}
         /\ UNCHANGED saved
  BY DEF Invoke
<1>2. CASE Becomes(c, "connection_changed") /\ UNCHANGED <<saved, locked, ranAs>>
  BY <1>0, <1>2, BecomesKeeps
<1>3. CASE Becomes(c, "assignment_changed") /\ saved' = Cleared /\ UNCHANGED <<locked, ranAs>>
  BY <1>0, <1>3, ClearedType, BecomesKeeps
<1>4. CASE /\ saved[cmd[c].id] = cmd[c].cred /\ owned = owner
           /\ cmd' = [cmd EXCEPT ![c].pc = "running", ![c].under = owner]
           /\ locked' = c
           /\ ranAs' = ranAs \union {<<c, cmd[c].id, saved[cmd[c].id].gen>>}
           /\ UNCHANGED saved
  <2> DEFINE t == [cmd[c] EXCEPT !.pc = "running", !.under = owner]
  <2>1. /\ t \in CommandRecords /\ t.pc = "running" /\ t.under = owner /\ t.id = cmd[c].id
        /\ t.write = cmd[c].write /\ t.confirmed = cmd[c].confirmed /\ t.refreshed = cmd[c].refreshed
        /\ t.cred = cmd[c].cred
    BY <1>0 DEF CommandRecords, CommandStates
  <2>2. cmd' = [cmd EXCEPT ![c] = t]
    BY <1>4
  <2> HIDE DEF t
  <2>3. /\ cmd' \in [Commands -> CommandRecords]
        /\ cmd'[c] = t /\ \A d \in Commands : d # c => cmd'[d] = cmd[d]
    BY <1>0, <2>1, <2>2
  <2>4. CommandTypes'
    BY <1>0, <1>4, <2>3 DEF CommandInv, CommandTypes
  <2>5. \A d \in Commands : d # c => cmd[d].pc # "running"
    BY <1>0, CommandAssumption DEF CommandInv
  <2>6. \A d \in Commands : cmd'[d].pc = "running" <=> locked' = d
    BY <1>4, <2>1, <2>3, <2>5
  <2>7. \A d \in Commands : Entitled(cmd[d])'
    <3> SUFFICES ASSUME NEW d \in Commands PROVE Entitled(cmd[d])'
      OBVIOUS
    <3>1. CASE d = c
      <4>1. cmd'[d] = t
        BY <2>3, <3>1
      <4> QED
        BY <4>1, <1>0, <1>4, <2>1 DEF Entitled
    <3>2. CASE d # c
      <4>1. Entitled(cmd[d]) /\ cmd'[d] = cmd[d]
        BY <2>3, <3>2 DEF CommandInv
      <4> QED
        BY <4>1, <2>5, <3>2 DEF Entitled
    <3> QED
      BY <3>1, <3>2
  <2>8. RunsSound'
    <3> SUFFICES ASSUME NEW r \in ranAs'
                 PROVE  /\ r[1] \in Commands /\ cmd'[r[1]].pc # "idle"
                        /\ cmd'[r[1]].write =>
                             r[2] = cmd'[r[1]].id /\ (cmd'[r[1]].refreshed \/ r[3] = cmd'[r[1]].confirmed)
      BY DEF RunsSound
    <3>1. CASE r \in ranAs
      <4>1. /\ r[1] \in Commands /\ cmd[r[1]].pc # "idle"
            /\ cmd[r[1]].write =>
                 r[2] = cmd[r[1]].id /\ (cmd[r[1]].refreshed \/ r[3] = cmd[r[1]].confirmed)
        BY <3>1 DEF CommandInv, RunsSound
      <4>2. CASE r[1] = c
        BY <2>1, <2>3, <4>1, <4>2
      <4>3. CASE r[1] # c
        BY <2>3, <4>1, <4>3
      <4> QED
        BY <4>2, <4>3
    <3>2. CASE r = <<c, cmd[c].id, saved[cmd[c].id].gen>>
      <4>1. r[1] = c /\ r[2] = cmd[c].id /\ r[3] = cmd[c].cred.gen
        BY <1>4, <3>2
      <4>2. cmd[c].write /\ ~ cmd[c].refreshed => cmd[c].cred.gen = cmd[c].confirmed
        BY <1>0 DEF CommandInv, Entitled
      <4>3. cmd[c].write \in BOOLEAN /\ cmd[c].refreshed \in BOOLEAN
        BY <1>0 DEF CommandRecords
      <4> QED
        BY <2>1, <2>3, <4>1, <4>2, <4>3
    <3> QED
      BY <1>4, <3>1, <3>2
  <2> QED
    BY <2>4, <2>6, <2>7, <2>8 DEF CommandInv
<1> QED
  BY <1>1, <1>2, <1>3, <1>4

\* The end of a command: nothing else was running, and its runs stay recorded.
LEMMA ReturningKeeps ==
  ASSUME CommandInv, NEW c \in Commands, CommandReturns(c)
  PROVE  CommandInv' /\ (cmd'[c].pc \in {"ok", "failed", "again"} => cmd[c].under = owner)
<1>0. /\ cmd[c] \in CommandRecords /\ cmd[c].pc = "running" /\ locked = c /\ locked' = "free"
      /\ UNCHANGED <<owner, owned, changes, ranAs>>
      /\ cmd[c].id \in Accounts /\ cmd[c].under = owned
      /\ saved \in [Accounts -> Credentials]
      /\ cmd \in [Commands -> CommandRecords]
  BY DEF CommandInv, CommandTypes, CommandReturns, Entitled
<1>1. PICK pc \in {"ok", "failed", "again", "assignment_changed"} :
        /\ Becomes(c, pc)
        /\ saved' = saved \/ saved' = Cleared
        /\ pc # "assignment_changed" => owned = owner
  BY DEF CommandReturns, Endings
<1>2. pc \in CommandStates
  BY DEF CommandStates, Outcomes
<1> DEFINE t == [cmd[c] EXCEPT !.pc = pc]
<1>3. /\ t \in CommandRecords /\ t.pc = pc /\ t.id = cmd[c].id /\ t.write = cmd[c].write
      /\ t.confirmed = cmd[c].confirmed /\ t.refreshed = cmd[c].refreshed
      /\ cmd' = [cmd EXCEPT ![c] = t]
  BY <1>1, <1>2, BecomesFacts
<1> HIDE DEF t
<1>4. /\ cmd' \in [Commands -> CommandRecords]
      /\ cmd'[c] = t /\ \A d \in Commands : d # c => cmd'[d] = cmd[d]
  BY <1>0, <1>3
<1>5. CommandTypes'
  BY <1>0, <1>1, <1>4, ClearedType DEF CommandInv, CommandTypes
<1>6. \A d \in Commands : cmd'[d].pc # "running"
  BY <1>0, <1>1, <1>3, <1>4 DEF CommandInv
<1>7. \A d \in Commands : Entitled(cmd[d])'
  <2> SUFFICES ASSUME NEW d \in Commands PROVE Entitled(cmd[d])'
    OBVIOUS
  <2>1. CASE d = c
    <3>1. cmd'[d] = t
      BY <1>4, <2>1
    <3> QED
      BY <3>1, <1>0, <1>1, <1>3 DEF Entitled
  <2>2. CASE d # c
    <3>1. Entitled(cmd[d]) /\ cmd'[d] = cmd[d] /\ cmd'[d].pc # "running"
      BY <1>4, <1>6, <2>2 DEF CommandInv
    <3> QED
      BY <3>1 DEF Entitled
  <2> QED
    BY <2>1, <2>2
<1>8. RunsSound'
  <2> SUFFICES ASSUME NEW r \in ranAs
               PROVE  /\ r[1] \in Commands /\ cmd'[r[1]].pc # "idle"
                      /\ cmd'[r[1]].write =>
                           r[2] = cmd'[r[1]].id /\ (cmd'[r[1]].refreshed \/ r[3] = cmd'[r[1]].confirmed)
    BY <1>0 DEF RunsSound
  <2>1. /\ r[1] \in Commands /\ cmd[r[1]].pc # "idle"
        /\ cmd[r[1]].write =>
             r[2] = cmd[r[1]].id /\ (cmd[r[1]].refreshed \/ r[3] = cmd[r[1]].confirmed)
    BY DEF CommandInv, RunsSound
  <2>2. CASE r[1] = c
    BY <1>1, <1>3, <1>4, <2>1, <2>2
  <2>3. CASE r[1] # c
    BY <1>4, <2>1, <2>3
  <2> QED
    BY <2>2, <2>3
<1>9. cmd'[c].pc \in {"ok", "failed", "again"} => cmd[c].under = owner
  BY <1>0, <1>1, <1>3, <1>4
<1> QED
  BY <1>0, <1>5, <1>6, <1>7, <1>8, <1>9, CommandAssumption DEF CommandInv

\* The registry changes only while no command has the lock.
LEMMA RegistryKeeps ==
  ASSUME CommandInv,
         \/ \E c \in Commands : WipeStale(c)
         \/ \E a \in Accounts : SignsIn(a) \/ Disconnects(a)
         \/ IsReassigned
  PROVE  CommandInv'
<1>1. CommandTypes
  BY DEF CommandInv
<1>2. UNCHANGED <<cmd, locked, ranAs>> /\ (locked = "free" \/ UNCHANGED <<saved, owned>>)
  BY DEF WipeStale, SignsIn, Disconnects, IsReassigned
<1>3. CommandTypes'
  <2>1. ASSUME NEW c \in Commands, WipeStale(c) PROVE CommandTypes'
    BY <1>1, <2>1, ClearedType DEF WipeStale, CommandTypes
  <2>2. ASSUME NEW a \in Accounts, SignsIn(a) PROVE CommandTypes'
    BY <1>1, <2>2 DEF SignsIn, Change, CommandTypes, Credentials
  <2>3. ASSUME NEW a \in Accounts, Disconnects(a) PROVE CommandTypes'
    BY <1>1, <2>3 DEF Disconnects, Change, CommandTypes, Credentials, Absent
  <2>4. CASE IsReassigned
    BY <1>1, <2>4 DEF IsReassigned, Change, CommandTypes
  <2> QED
    BY <2>1, <2>2, <2>3, <2>4
<1> QED
  BY <1>2, <1>3, OthersKeep

\* A write that is confirmed again begins anew.
LEMMA ConfirmedKeeps ==
  ASSUME CommandInv, NEW c \in Commands, RepeatConfirmed(c)
  PROVE  CommandInv'
<1>1. /\ cmd[c].pc = "asked" /\ UNCHANGED <<saved, owner, owned, locked, changes, ranAs>>
      /\ Becomes(c, "load") \/ Becomes(c, "askAgain")
      /\ saved \in [Accounts -> Credentials] /\ changes \in Nat
  BY DEF RepeatConfirmed, CommandInv, CommandTypes
<1>2. "load" \in CommandStates /\ "askAgain" \in CommandStates
  BY DEF CommandStates, Outcomes
<1> QED
  BY <1>1, <1>2, BecomesKeeps

\* Every step keeps the invariant.
LEMMA CommandPreserves ==
  ASSUME CommandInv, [CommandNext]_commandVars
  PROVE  CommandInv'
<1>1. CASE UNCHANGED commandVars
  <2>1. CommandTypes' /\ UNCHANGED <<cmd, locked, ranAs, saved, owned>>
    BY <1>1 DEF commandVars, CommandInv, CommandTypes
  <2> QED
    BY <2>1, OthersKeep
<1> QED
  BY <1>1, AskingKeeps, LoadingKeeps, RefreshingKeeps, InvokingKeeps, ReturningKeeps, RegistryKeeps,
     ConfirmedKeeps DEF CommandNext, CommandStep

\* The invariant holds throughout.
LEMMA CommandAlways == CommandSpec => []CommandInv
BY CommandBegins, CommandPreserves, PTL DEF CommandSpec

\* For any number of commands, accounts and events: a write runs with the account
\* and the permissions the owner confirmed, and the account a running command uses
\* is not replaced under it (google_workspace/app.py).
THEOREM CommandsRunAsConfirmed ==
  CommandSpec => [](CommandTypeOK /\ WritesAsConfirmed /\ AccountStaysWhileRunning)
<1>1. CommandInv => CommandTypeOK
  <2> SUFFICES ASSUME CommandInv PROVE CommandTypeOK
    OBVIOUS
  <2>1. \A c \in Commands : cmd[c].pc \in CommandStates
    BY DEF CommandInv, CommandTypes, CommandRecords
  <2> QED
    BY <2>1 DEF CommandTypeOK, CommandInv, CommandTypes, CommandStates
<1>2. CommandInv => WritesAsConfirmed
  BY DEF CommandInv, WritesAsConfirmed, RunsSound
<1>3. CommandInv => AccountStaysWhileRunning
  BY DEF CommandInv, AccountStaysWhileRunning, Entitled
<1> QED
  BY CommandAlways, <1>1, <1>2, <1>3, PTL

\* For any number of commands, accounts and events: what a command printed under a
\* former owner is given to nobody (google_workspace/app.py).
THEOREM OutputIsTheOwnersHolds == CommandSpec => OutputIsTheOwners
<1> DEFINE A == \A c \in Commands :
                  cmd[c].pc = "running" /\ cmd'[c].pc \in {"ok", "failed", "again"} => cmd[c].under = owner
<1>1. CommandInv /\ [CommandNext]_commandVars => [A]_commandVars
  <2> SUFFICES ASSUME CommandInv, CommandNext, NEW c \in Commands,
                      cmd[c].pc = "running", cmd'[c].pc \in {"ok", "failed", "again"}
               PROVE  cmd[c].under = owner
    OBVIOUS
  <2>1. locked = c /\ cmd \in [Commands -> CommandRecords]
    BY DEF CommandInv, CommandTypes
  <2>2. cmd'[c].pc # cmd[c].pc
    OBVIOUS
  <2>5. cmd' # cmd
    BY <2>2
  <2>6. PICK d \in Commands : AskRead(d) \/ AskWrite(d) \/ CommandStep(d)
    BY <2>5 DEF CommandNext, WipeStale, SignsIn, Disconnects, IsReassigned
  <2>7. CASE cmd[d].pc = "running"
    <3>1. d = c
      BY <2>1, <2>7 DEF CommandInv
    <3>2. CommandReturns(c)
      BY <2>6, <2>7, <3>1 DEF AskRead, AskWrite, CommandStep, RepeatConfirmed, Load, RefreshLoads,
                              RefreshReturns, Invoke
    <3> QED
      BY <3>2, ReturningKeeps
  <2>8. CASE cmd[d].pc # "running"
    <3>1. d # c
      BY <2>8
    <3>2. \A pc : Becomes(d, pc) => cmd'[c] = cmd[c]
      BY <2>1, <3>1 DEF Becomes
    <3>3. AskRead(d) \/ AskWrite(d) => cmd'[c] = cmd[c]
      BY <2>1, <3>1 DEF AskRead, AskWrite
    <3>4. RepeatConfirmed(d) \/ CommandReturns(d) => cmd'[c] = cmd[c]
      BY <3>2 DEF RepeatConfirmed, CommandReturns
    <3>5. Load(d) => cmd'[c] = cmd[c]
      BY <2>1, <3>1, <3>2 DEF Load
    <3>6. RefreshLoads(d) \/ RefreshReturns(d) => cmd'[c] = cmd[c]
      BY <2>1, <3>1, <3>2 DEF RefreshLoads, RefreshReturns
    <3>7. Invoke(d) => cmd'[c] = cmd[c]
      BY <2>1, <3>1, <3>2 DEF Invoke
    <3> QED
      BY <2>2, <2>6, <3>3, <3>4, <3>5, <3>6, <3>7 DEF CommandStep
  <2> QED
    BY <2>7, <2>8
<1> HIDE DEF A
<1>2. CommandSpec => [][A]_commandVars
  BY CommandAlways, <1>1, PTL DEF CommandSpec
<1> QED
  BY <1>2 DEF OutputIsTheOwners, A

-----------------------------------------------------------------------------
(* The permission chooser.                                                  *)

ChooserSpec == ChooserInit /\ [][ChooserNext]_chooserVars

WatcherStates == {"none", "start", "ready", "poll", "connect", "complete", "report", "clean",
                  "done", "dead"}
CallerStates  == {"begin", "spawn", "wait", "send", "sent", "refused"}

\* The watchers that have come past the ready file.
Watching == {w \in Copies : watcher[w] \notin {"none", "start", "ready"}}

NotesSound ==
  /\ notes \in {{}, {"state"}, {"state", "ready"}}
  /\ caller \in {"begin", "spawn"} => "ready" \notin notes
  /\ caller \notin {"begin", "spawn", "wait"} => notes = {} \/ "ready" \in notes
  /\ "ready" \in notes => \E w \in Watching : watcher[w] # "done"

ButtonSound ==
  /\ caller \in {"begin", "spawn"} => ~ button /\ \A w \in Copies : watcher[w] = "none"
  /\ button \/ caller \in {"send", "sent"} => Watching # {}

SignInsSound ==
  /\ \A w \in Copies : watcher[w] = "complete" => w \in signIns
  /\ chooser = "completed" => signIns # {}

ChooserInv ==
  /\ chooser \in {"none", "open", "selected", "completed", "failed", "gone"}
  /\ signIns \subseteq Copies /\ saidFailed \subseteq Copies /\ silenced \subseteq Copies
  /\ caller \in CallerStates
  /\ watcher \in [Copies -> WatcherStates]
  /\ button \in BOOLEAN
  /\ NotesSound /\ ButtonSound /\ SignInsSound

\* At first nobody watches, and no button is shown.
LEMMA ChooserBegins == ChooserInit => ChooserInv
BY DEF ChooserInit, ChooserInv, CallerStates, WatcherStates, NotesSound, ButtonSound,
       SignInsSound, Watching

\* The tool call: it opens the chooser, spawns the watchers and sends the button.
LEMMA CallerSteps ==
  ASSUME ChooserInv, CallerStep
  PROVE  ChooserInv'
<1> USE DEF ChooserInv, NotesSound, ButtonSound, SignInsSound, CallerStates, Watching
<1>1. CASE OpenChooser
  BY <1>1 DEF OpenChooser
<1>2. CASE Spawn
  <2>1. /\ caller = "spawn" /\ caller' = "wait"
        /\ UNCHANGED <<chooser, notes, button, signIns, saidFailed, silenced>>
        /\ watcher' \in [Copies -> {"none", "start"}]
    BY <1>2 DEF Spawn
  <2>2. watcher' \in [Copies -> WatcherStates] /\ \A w \in Copies : watcher'[w] # "complete"
    BY <2>1 DEF WatcherStates
  <2> QED
    BY <2>1, <2>2
<1>3. CASE SeesReady
  BY <1>3 DEF SeesReady
<1>4. CASE GivesUp
  BY <1>4 DEF GivesUp
<1>5. CASE WaitsInVain
  BY <1>5 DEF WaitsInVain
<1>6. CASE SendButton
  BY <1>6 DEF SendButton
<1> QED
  BY <1>1, <1>2, <1>3, <1>4, <1>5, <1>6 DEF CallerStep

\* A watcher that has come past the ready file stays past it, and one that ends
\* has removed the files.
LEMMA WatcherSteps ==
  ASSUME ChooserInv, NEW w \in Copies, WatcherStep(w) \/ WatcherDies(w)
  PROVE  ChooserInv'
<1>0. PICK pc \in WatcherStates : watcher' = [watcher EXCEPT ![w] = pc]
  BY DEF WatcherStep, WatcherDies, WatcherLoads, WatcherReady, WatcherPolls, WatcherConnects,
         WatcherCompletes, WatcherReports, WatcherCleans, ToWatcher, WatcherStates
<1>1. /\ watcher' \in [Copies -> WatcherStates]
      /\ watcher'[w] = pc /\ \A v \in Copies : v # w => watcher'[v] = watcher[v]
      /\ watcher \in [Copies -> WatcherStates]
  BY <1>0 DEF ChooserInv
<1>2. caller' = caller /\ button' = button
  BY DEF WatcherStep, WatcherDies, WatcherLoads, WatcherReady, WatcherPolls, WatcherConnects,
         WatcherCompletes, WatcherReports, WatcherCleans
<1>3. watcher[w] # "none" /\ watcher[w] # "done" /\ (w \in Watching => w \in Watching')
  BY <1>1 DEF WatcherStep, WatcherDies, WatcherLoads, WatcherReady, WatcherPolls, WatcherConnects,
         WatcherCompletes, WatcherReports, WatcherCleans, ToWatcher, Watching, ChooserInv
<1>4. Watching \subseteq Watching'
  BY <1>1, <1>3 DEF Watching
<1>5. ButtonSound'
  BY <1>1, <1>2, <1>3, <1>4 DEF ButtonSound, ChooserInv
<1>6. /\ signIns' \subseteq Copies /\ saidFailed' \subseteq Copies /\ silenced' \subseteq Copies
      /\ chooser' \in {"none", "open", "selected", "completed", "failed", "gone"}
      /\ SignInsSound'
  BY <1>1 DEF WatcherStep, WatcherDies, WatcherLoads, WatcherReady, WatcherPolls, WatcherConnects,
         WatcherCompletes, WatcherReports, WatcherCleans, ToWatcher, ChooserInv, SignInsSound
<1>7. NotesSound'
  <2>1. CASE notes' = notes /\ (watcher'[w] = "done" => notes = {})
    <3>1. "ready" \in notes => \E v \in Watching' : watcher'[v] # "done"
      <4> SUFFICES ASSUME "ready" \in notes PROVE \E v \in Watching' : watcher'[v] # "done"
        OBVIOUS
      <4>1. PICK v \in Watching : watcher[v] # "done"
        BY DEF ChooserInv, NotesSound
      <4>2. v \in Copies /\ v \in Watching'
        BY <1>4, <4>1 DEF Watching
      <4>3. watcher'[v] # "done"
        BY <1>1, <2>1, <4>1, <4>2
      <4> QED
        BY <4>2, <4>3
    <3> QED
      BY <1>2, <2>1, <3>1 DEF ChooserInv, NotesSound
  <2>2. CASE notes' = {}
    BY <2>2 DEF NotesSound
  <2>3. CASE WatcherReady(w) /\ "state" \in notes
    <3>1. notes' = {"state", "ready"} /\ watcher'[w] = "poll"
      BY <1>1, <2>3 DEF WatcherReady, ToWatcher, ChooserInv, NotesSound
    <3>2. caller' \notin {"begin", "spawn"}
      BY <1>2, <1>3 DEF ChooserInv, ButtonSound
    <3> QED
      BY <3>1, <3>2 DEF NotesSound, Watching
  <2> QED
    BY <1>1, <2>1, <2>2, <2>3 DEF WatcherStep, WatcherDies, WatcherLoads, WatcherReady, WatcherPolls,
       WatcherConnects, WatcherCompletes, WatcherReports, WatcherCleans, ToWatcher, ChooserInv, NotesSound
<1> QED
  BY <1>1, <1>2, <1>5, <1>6, <1>7 DEF ChooserInv

\* Every step keeps the invariant.
LEMMA ChooserStep ==
  ASSUME ChooserInv, [ChooserNext]_chooserVars
  PROVE  ChooserInv'
<1> USE DEF ChooserInv, NotesSound, ButtonSound, SignInsSound, Watching
<1>1. CASE UNCHANGED chooserVars
  BY <1>1 DEF chooserVars
<1>2. CASE OwnerSelects \/ ChooserCloses
  BY <1>2 DEF OwnerSelects, ChooserCloses
<1> QED
  BY <1>1, <1>2, CallerSteps, WatcherSteps DEF ChooserNext

\* For any number of workers: while the owner's button can be pressed a worker has
\* come past its ready file, and a chooser is completed only with a sign-in begun
\* (permission_chooser_worker.py, permission_chooser.py).
THEOREM ChooserIsWatched ==
  ChooserSpec => [](ChooserTypeOK /\ ButtonIsWatched /\ CompletedIsStarted)
<1>1. ChooserInv => ChooserTypeOK
  BY DEF ChooserInv, ChooserTypeOK, NotesSound, Watching
<1>2. ChooserInv => ButtonIsWatched /\ CompletedIsStarted
  BY DEF ChooserInv, ButtonIsWatched, CompletedIsStarted, ButtonSound, SignInsSound, Watching
<1> QED
  BY ChooserBegins, ChooserStep, <1>1, <1>2, PTL DEF ChooserSpec
=============================================================================
