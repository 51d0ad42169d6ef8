------------------------------ MODULE Computer ------------------------------
(***************************************************************************)
(* The components of the plugin that share no state with each other: a     *)
(* Hat's credential store, its skills, the sharing gateway, its processes  *)
(* and sessions, the managed Google command, its calls, the permission     *)
(* chooser, the private handoffs with Slack, and the mailbox cursor.  Each *)
(* is a module with its own Init and Next; a behaviour of this module is a *)
(* behaviour of one of them, the one named by part, while the others stay  *)
(* as they begin.                                                          *)
(***************************************************************************)
EXTENDS HatStore, HatSkills, ShareGateway, ShareProcesses, VisualShares,
        ManagedApp, GoogleCommand, PermissionChooser, SecretProps,
        MailCursor

VARIABLE part

Parts == {"store", "skills", "gateway", "processes", "shares", "app", "command",
          "chooser", "secrets", "cursor"}

hatVars      == <<storeVars, skillVars>>
sharingVars  == <<gatewayVars, processVars, shareVars>>
googleVars   == <<appVars, commandVars, chooserVars>>
agentVars    == <<slackAllVars, vars>>
computerVars == <<part, hatVars, sharingVars, googleVars, agentVars>>

\* A part that does not move begins in one way only.
ComputerInit ==
  /\ part \in Parts
  /\ StoreInit /\ SkillInit /\ GatewayInit /\ ProcessInit /\ ShareInit
  /\ AppInit /\ CommandInit /\ ChooserInit /\ SlackInit /\ Init
  /\ part # "app" => manifest = NoManifest
  /\ part # "cursor" => box = {}
  /\ part # "secrets" => agenda = CHOOSE a \in Agendas : TRUE

Moving(p) == part = p /\ part' = p

StoreMoves     == Moving("store") /\ StoreNext /\ UNCHANGED <<skillVars, sharingVars, googleVars, agentVars>>
SkillsMove     == Moving("skills") /\ SkillNext /\ UNCHANGED <<storeVars, sharingVars, googleVars, agentVars>>
GatewayMoves   == Moving("gateway") /\ GatewayNext
                  /\ UNCHANGED <<hatVars, processVars, shareVars, googleVars, agentVars>>
ProcessesMove  == Moving("processes") /\ ProcessNext
                  /\ UNCHANGED <<hatVars, gatewayVars, shareVars, googleVars, agentVars>>
SharesMove     == Moving("shares") /\ ShareNext
                  /\ UNCHANGED <<hatVars, gatewayVars, processVars, googleVars, agentVars>>
AppMoves       == Moving("app") /\ AppNext
                  /\ UNCHANGED <<hatVars, sharingVars, commandVars, chooserVars, agentVars>>
CommandMoves   == Moving("command") /\ CommandNext
                  /\ UNCHANGED <<hatVars, sharingVars, appVars, chooserVars, agentVars>>
ChooserMoves   == Moving("chooser") /\ ChooserNext
                  /\ UNCHANGED <<hatVars, sharingVars, appVars, commandVars, agentVars>>
SecretsMove    == Moving("secrets") /\ SlackNext
                  /\ UNCHANGED <<hatVars, sharingVars, googleVars, vars>>
CursorMoves    == Moving("cursor") /\ Next
                  /\ UNCHANGED <<hatVars, sharingVars, googleVars, slackAllVars>>

ComputerNext ==
  \/ StoreMoves \/ SkillsMove \/ GatewayMoves \/ ProcessesMove \/ SharesMove
  \/ AppMoves \/ CommandMoves \/ ChooserMoves \/ SecretsMove \/ CursorMoves

\* A thread, a worker or a process that can go on does; nothing is assumed of the
\* owner, of the browser, of the platform, or of a death.  However often a worker
\* is sent back to poll, its deadline passes; and not every page is lost.
ComputerFairness ==
  /\ \A p \in Savers : WF_storeVars(part = "store" /\ SaveStep(p))
  /\ WF_storeVars(part = "store" /\ RenameStep)
  /\ \A w \in Wears : WF_skillVars(part = "skills" /\ InstallStep(w))
  /\ \A t \in Threads : WF_gatewayVars(part = "gateway" /\ GatewayStep(t))
  /\ \A c \in Calls : WF_processVars(part = "processes" /\ CallStep(c))
  /\ WF_processVars(part = "processes" /\ ServerStep)
  /\ \A c \in AppCalls : WF_appVars(part = "app" /\ app[c] # "idle" /\ AppStep(c))
  /\ \A c \in Commands : WF_commandVars(part = "command" /\ CommandStep(c))
  /\ WF_chooserVars(part = "chooser" /\ CallerStep)
  /\ \A w \in Copies : WF_chooserVars(part = "chooser" /\ WatcherStep(w))
  /\ \A k \in 1 .. 2 : WF_slackAllVars(part = "secrets" /\ CeremonyStep(k))
  /\ WF_slackAllVars(part = "secrets" /\ DisconnectStep)
  /\ WF_vars(part = "cursor" /\ Adapter)
  /\ SF_agentVars(\/ part = "secrets" /\ DeadlinePasses /\ UNCHANGED vars
                  \/ part = "cursor" /\ Ingest /\ UNCHANGED slackAllVars)

ComputerSpec == ComputerInit /\ [][ComputerNext]_computerVars /\ ComputerFairness

----------------------------------------------------------------------------
\* Every variable stays in its set, each lock has the holder the progress of the
\* calls says it has, and the gateway's registries keep their bounds.
ComputerTypeOK ==
  /\ StoreTypeOK /\ SkillTypeOK
  /\ GatewayTypeOK /\ ProcessTypeOK /\ ShareTypeOK
  /\ AppTypeOK /\ CommandTypeOK /\ ChooserTypeOK /\ SecretTypeOK /\ TypeOK

\* A Hat's reported credential can be read where the Hat looks for it, over saves,
\* renames and rollbacks (hats/secrets.py); no skill of a Hat is active without
\* being listed, and the platform is told of no commit that is not installed
\* (skill_installer.py, _wear_hat).
HatsAreSound == SavedIsReadable /\ NoOrphanSkills /\ ReportIsNotAhead

\* A sealed request is forwarded once and a handoff opens one browser session,
\* whatever the threads of the gateway do (gateway.py); only the recorded processes
\* run, save those a failed check lost; an active session has its key and a revoked
\* one has none (tool.py, connector.py).
SharesAreSound ==
  /\ ForwardedOnce /\ HandoffsAreOneTime
  /\ GatewayIsRecorded /\ ConnectorIsCurrent
  /\ ActiveHasKey /\ RevokedHasNoKey

\* A command runs with the managed binary and with the account and permissions it
\* was confirmed for; an interrupted install is never mistaken for the owner's own
\* file; a chooser's button is watched (app_manager.py, app.py,
\* permission_chooser_worker.py).
GoogleToolsAreSound ==
  /\ RunsWhatIsManaged /\ RefusedOnlyForOwner
  /\ WritesAsConfirmed /\ AccountStaysWhileRunning
  /\ ButtonIsWatched /\ CompletedIsStarted

\* Neither a finished nor an unfinished scan of the mailbox has passed over an
\* email, save one that slipped below its position (channel.py _messages).
MailIsScanned == NothingSkipped /\ PrefixIngested

\* A step that fails leaves what was there: a failed installation of skills or of
\* the Google command, the owner's own files, the browser's cookies; and output
\* produced under another owner goes to nobody.
FailuresRestore ==
  /\ FailedInstallChangesNothing
  /\ OwnerFilesSurvive /\ RollbackRestores
  /\ JarNeverGoesBack
  /\ OutputIsTheOwners

\* Whatever is begun ends: saves, installations, requests through the gateway,
\* calls that start its processes, commands, ceremonies; the owner's choice, and
\* what the owner submits, is answered.
Working ==
  \/ Saving \/ Wearing \/ Requesting \/ Calling \/ Managing \/ Commanding
  \/ Unanswered \/ Owing
WorkEnds == Working ~> ~Working
=============================================================================
