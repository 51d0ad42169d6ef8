--------------------------- MODULE ComputerProofs ---------------------------
(* The theorems about the parts, for the Computer they are parts of: every *)
(* step of the Computer is a step of one part and leaves the others alone. *)
EXTENDS Computer, SecretProofs, ShareProofs, HatProofs, GoogleToolProofs

\* A Computer begins with each of its parts at its own beginning.
LEMMA PartsBegin ==
  ComputerInit =>
    /\ StoreInit /\ SkillInit /\ GatewayInit /\ ProcessInit /\ ShareInit
    /\ AppInit /\ CommandInit /\ ChooserInit /\ SlackInit /\ Init
BY DEF ComputerInit

\* What another part does leaves the handoffs as they are.
LEMMA SecretsStep ==
  [ComputerNext]_computerVars => [SlackNext]_slackAllVars
<1> SUFFICES ASSUME [ComputerNext]_computerVars, ~(UNCHANGED slackAllVars) PROVE SlackNext
  OBVIOUS
<1>1. UNCHANGED computerVars => UNCHANGED slackAllVars
  BY DEF computerVars, agentVars
<1>2. \/ StoreMoves \/ SkillsMove \/ GatewayMoves \/ ProcessesMove \/ SharesMove
      \/ AppMoves \/ CommandMoves \/ ChooserMoves \/ CursorMoves
      => UNCHANGED slackAllVars
  BY DEF StoreMoves, SkillsMove, GatewayMoves, ProcessesMove, SharesMove, AppMoves,
         CommandMoves, ChooserMoves, CursorMoves, agentVars
<1> QED
  BY <1>1, <1>2 DEF ComputerNext, SecretsMove

\* What another part does leaves the gateway, its processes and the shares as
\* they are.
LEMMA SharingSteps ==
  [ComputerNext]_computerVars =>
    [GatewayNext]_gatewayVars /\ [ProcessNext]_processVars /\ [ShareNext]_shareVars
<1> SUFFICES ASSUME [ComputerNext]_computerVars
             PROVE  [GatewayNext]_gatewayVars /\ [ProcessNext]_processVars /\ [ShareNext]_shareVars
  OBVIOUS
<1>1. \/ UNCHANGED computerVars \/ StoreMoves \/ SkillsMove
      \/ AppMoves \/ CommandMoves \/ ChooserMoves \/ SecretsMove \/ CursorMoves
      => UNCHANGED gatewayVars /\ UNCHANGED processVars /\ UNCHANGED shareVars
  BY DEF computerVars, sharingVars, StoreMoves, SkillsMove, AppMoves, CommandMoves,
         ChooserMoves, SecretsMove, CursorMoves
<1>2. GatewayMoves => GatewayNext /\ UNCHANGED processVars /\ UNCHANGED shareVars
  BY DEF GatewayMoves
<1>3. ProcessesMove => ProcessNext /\ UNCHANGED gatewayVars /\ UNCHANGED shareVars
  BY DEF ProcessesMove
<1>4. SharesMove => ShareNext /\ UNCHANGED gatewayVars /\ UNCHANGED processVars
  BY DEF SharesMove
<1> QED
  BY <1>1, <1>2, <1>3, <1>4 DEF ComputerNext

\* What another part does leaves the Hat's store, its skills and the mailbox cursor
\* as they are.
LEMMA HatSteps ==
  [ComputerNext]_computerVars =>
    [StoreNext]_storeVars /\ [SkillNext]_skillVars /\ [Next]_vars
<1> SUFFICES ASSUME [ComputerNext]_computerVars
             PROVE  [StoreNext]_storeVars /\ [SkillNext]_skillVars /\ [Next]_vars
  OBVIOUS
<1>1. \/ UNCHANGED computerVars \/ GatewayMoves \/ ProcessesMove \/ SharesMove
      \/ AppMoves \/ CommandMoves \/ ChooserMoves \/ SecretsMove
      => UNCHANGED storeVars /\ UNCHANGED skillVars /\ UNCHANGED vars
  BY DEF computerVars, hatVars, agentVars, GatewayMoves, ProcessesMove, SharesMove, AppMoves,
         CommandMoves, ChooserMoves, SecretsMove
<1>2. StoreMoves => StoreNext /\ UNCHANGED skillVars /\ UNCHANGED vars
  BY DEF StoreMoves, agentVars
<1>3. SkillsMove => SkillNext /\ UNCHANGED storeVars /\ UNCHANGED vars
  BY DEF SkillsMove, agentVars
<1>4. CursorMoves => Next /\ UNCHANGED storeVars /\ UNCHANGED skillVars
  BY DEF CursorMoves, hatVars
<1> QED
  BY <1>1, <1>2, <1>3, <1>4 DEF ComputerNext

\* What another part does leaves the managed command, its calls and the permission
\* chooser as they are.
LEMMA GoogleSteps ==
  [ComputerNext]_computerVars =>
    [AppNext]_appVars /\ [CommandNext]_commandVars /\ [ChooserNext]_chooserVars
<1> SUFFICES ASSUME [ComputerNext]_computerVars
             PROVE  [AppNext]_appVars /\ [CommandNext]_commandVars /\ [ChooserNext]_chooserVars
  OBVIOUS
<1>1. \/ UNCHANGED computerVars \/ StoreMoves \/ SkillsMove \/ GatewayMoves
      \/ ProcessesMove \/ SharesMove \/ SecretsMove \/ CursorMoves
      => UNCHANGED appVars /\ UNCHANGED commandVars /\ UNCHANGED chooserVars
  BY DEF computerVars, googleVars, StoreMoves, SkillsMove, GatewayMoves, ProcessesMove,
         SharesMove, SecretsMove, CursorMoves
<1>2. AppMoves => AppNext /\ UNCHANGED commandVars /\ UNCHANGED chooserVars
  BY DEF AppMoves
<1>3. CommandMoves => CommandNext /\ UNCHANGED appVars /\ UNCHANGED chooserVars
  BY DEF CommandMoves
<1>4. ChooserMoves => ChooserNext /\ UNCHANGED appVars /\ UNCHANGED commandVars
  BY DEF ChooserMoves
<1> QED
  BY <1>1, <1>2, <1>3, <1>4 DEF ComputerNext

\* A behaviour of the Computer is, part by part, a behaviour of each part.
LEMMA PartsBehave ==
  ComputerSpec =>
    /\ StoreSpec /\ SkillSpec /\ Spec
    /\ AppSpec /\ CommandSpec /\ ChooserSpec
    /\ GatewaySpec /\ ProcessSpec /\ VisualSpec
    /\ SecretSpec
BY PartsBegin, HatSteps, GoogleSteps, SharingSteps, SecretsStep, PTL
   DEF ComputerSpec, StoreSpec, SkillSpec, Spec, AppSpec, CommandSpec, ChooserSpec,
       GatewaySpec, ProcessSpec, VisualSpec, SecretSpec

\* On every Computer, for any number of handoffs, workers and troubles: what the
\* platform lists as installed is there, a one-time key has a worker or the death
\* that left it, and Hermes has no token without its allowlist (secrets/handoff.py,
\* slack/connection.py).
THEOREM ComputerKeepsSecrets == ComputerSpec => []SecretsAreSound
<1>1. SecretSpec => []SecretsAreSound
  BY SecretsSafety, PTL
<1> QED
  BY <1>1, PartsBehave

\* On every Computer, for any number of browsers, threads, calls and shares: a
\* request is forwarded once and a handoff lets one browser in, only the recorded
\* processes run but for those a failed check let go, an active session has its key
\* and a revoked one has none (local_app_sharing/gateway.py, tool.py, connector.py).
THEOREM ComputerSharesSoundly == ComputerSpec => []SharesAreSound
<1>1. /\ (ForwardedOnce /\ HandoffsAreOneTime) /\ (GatewayIsRecorded /\ ConnectorIsCurrent)
      /\ (ActiveHasKey /\ RevokedHasNoKey)
      => SharesAreSound
  BY DEF SharesAreSound
<1> QED
  BY <1>1, PartsBehave, RequestsAreForwardedOnce, ProcessesAreRecorded, VisualsAreSound, PTL

\* On every Computer, for any number of saves, wears, skills, faults and mishaps: a
\* credential reported as saved can be read at the Hat's handle, or at the one before
\* when a local rename has failed, no skill is active without being listed, and the
\* platform is told of no commit that is not installed (hats/secrets.py,
\* skill_installer.py).
THEOREM ComputerWearsHats == ComputerSpec => []HatsAreSound
<1>1. SavedIsReadable /\ NoOrphanSkills /\ ReportIsNotAhead => HatsAreSound
  BY DEF HatsAreSound
<1> QED
  BY <1>1, PartsBehave, SavedIsReadableHolds, NoOrphanSkillsHolds, ReportIsNotAheadHolds, PTL

\* On every Computer, for any number of calls, commands, accounts, workers and
\* troubles: a command runs with the managed binary and as it was confirmed, an
\* interrupted install is never taken for the owner's file, and a chooser's button
\* is watched (app_manager.py, app.py, permission_chooser_worker.py).
THEOREM ComputerRunsTools == ComputerSpec => []GoogleToolsAreSound
<1>1. /\ (AppTypeOK /\ RunsWhatIsManaged /\ RefusedOnlyForOwner)
      /\ (CommandTypeOK /\ WritesAsConfirmed /\ AccountStaysWhileRunning)
      /\ (ChooserTypeOK /\ ButtonIsWatched /\ CompletedIsStarted)
      => GoogleToolsAreSound
  BY DEF GoogleToolsAreSound
<1> QED
  BY <1>1, PartsBehave, ManagedCommandHolds, CommandsRunAsConfirmed, ChooserIsWatched, PTL

\* On every Computer, for any page size and any changes of the Inbox: no scan of the
\* mailbox passes over an email, save one that lay where the scan was to go on when
\* an older email left (channel.py _messages).
THEOREM ComputerScansMail == ComputerSpec => []MailIsScanned
<1>1. NothingSkipped /\ PrefixIngested => MailIsScanned
  BY DEF MailIsScanned
<1>2. Spec => [](NothingSkipped /\ PrefixIngested)
  BY NothingSkippedHolds
<1> QED
  BY <1>1, <1>2, PartsBehave, PTL

\* On every Computer, whatever the bounds: every variable stays in its set, each
\* lock has the holder the progress of the calls says it has, and the gateway's
\* registries keep their limits (all the parts of the module Computer).
THEOREM ComputerKeepsTypes == ComputerSpec => []ComputerTypeOK
<1>1. /\ StoreTypeOK /\ SkillTypeOK /\ GatewayTypeOK
      /\ (ProcessTypeOK /\ GatewayIsRecorded /\ ConnectorIsCurrent)
      /\ (ShareTypeOK /\ ActiveHasKey /\ RevokedHasNoKey)
      /\ (AppTypeOK /\ RunsWhatIsManaged /\ RefusedOnlyForOwner)
      /\ (CommandTypeOK /\ WritesAsConfirmed /\ AccountStaysWhileRunning)
      /\ (ChooserTypeOK /\ ButtonIsWatched /\ CompletedIsStarted)
      /\ (SecretTypeOK /\ SecretsAreSound) /\ TypeOK
      => ComputerTypeOK
  BY DEF ComputerTypeOK
<1> QED
  BY <1>1, PartsBehave, StoreTypeOKHolds, SkillTypeOKHolds, GatewayIsBounded,
     ProcessesAreRecorded, VisualsAreSound, ManagedCommandHolds, CommandsRunAsConfirmed,
     ChooserIsWatched, SecretsSafety, CursorTypeOKHolds, PTL

\* On every Computer, for any number of wears, calls, threads, faults and deaths: a
\* step that fails leaves what was there - a failed installation the skills and the
\* command it found, an installation the owner's files, a late answer the newer
\* cookies - and output produced under another owner goes to nobody
\* (skill_installer.py, app_manager.py, gateway.py, app.py).
THEOREM ComputerRestores == ComputerSpec => FailuresRestore
BY PartsBehave, FailedInstallHolds, OwnerFilesSurviveHolds, RollbackRestoresHolds,
   CookiesMoveForward, OutputIsTheOwnersHolds, PTL DEF FailuresRestore

\* On every Computer, for any handoffs, workers, removals and lost answers: a Slack
\* connection is shown only when it is whole, its token leaves only once revoked,
\* and what the owner submits is answered (slack/connection.py, slack/disconnect.py,
\* secrets/handoff_worker.py).
THEOREM ComputerKeepsCeremonies == ComputerSpec => CeremoniesAreWhole
BY PartsBehave, CeremoniesStayWhole, PTL
=============================================================================
