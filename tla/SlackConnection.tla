--------------------------- MODULE SlackConnection ---------------------------
(***************************************************************************)
(* Slack on top of the private handoffs: capabilities/slack/connection.py  *)
(* (the installer of a slack_connection handoff), disconnect.py and        *)
(* disconnect_worker.py (the owner-confirmed removal), and the writer both *)
(* it and channel setup use, channels/runtime.py.                          *)
(*                                                                         *)
(* Of the five values of a connection the model keeps the first and the    *)
(* last security-bearing one, in the order they are written: the allowlist *)
(* and the bot token.                                                      *)
(***************************************************************************)
EXTENDS SecretHandoff

VARIABLES
  removal,   \* the platform's status of the disconnect request
  dpc,       \* where the disconnect worker stands
  botToken,     \* the bot token it asked Slack to revoke
  envPage,      \* the env file as it read it
  revoked,   \* tokens Slack has revoked
  loaded,    \* the bot token in the gateway's own environment
  overlap    \* a removal and a save of the env file, or two saves, overlapped,
             \* or a removal revoked another token than the saved one

slackVars == <<removal, dpc, botToken, envPage, revoked, loaded, overlap>>
slackAllVars == <<handoffVars, slackVars>>

ALLOWLIST == "SLACK_ALLOWED_USERS"
TOKEN == "SLACK_BOT_TOKEN"

Writing(h, i) == wpc[h][i] \in {"saving", "saving_token", "verifying"}
Unread == [n \in Names \union SlackNames |-> None]

InFlight == {w \in SlackHandoffs \X Workers :
               Writing(w[1], w[2]) \/ wpc[w[1]][w[2]] \in {"greeting", "claiming"}}

----------------------------------------------------------------------------
\* The installer, install_submitted_slack_connection.

\* Decryption, whose failure ends the worker; then parsing, auth.test,
\* apps.connections.open, bots.info, conversations.open: nothing is saved before
\* all of them succeed.
ValidateSlack(h, i) ==
  /\ h \in SlackHandoffs
  /\ At(h, i, "installing")
  /\ \/ /\ GoesTo(h, i, "saving")
        /\ overlap' = (overlap \/ dpc \in {"rewriting", "checking"} \/ InFlight # {})
     \/ \E place \in {"rejecting", "denying"} : GoesTo(h, i, place) /\ UNCHANGED overlap
  /\ UNCHANGED <<record, privateKey, hatlock, starting, env, hat, troubles,
                 removal, dpc, botToken, envPage, revoked, loaded, agenda>>

\* _write_channel_values: each value in turn, then all are read back; Hermes
\* may fail, or the 45 s run out, at each step.
SaveSlack(h, i) ==
  /\ h \in SlackHandoffs
  /\ \/ /\ At(h, i, "saving")
        /\ env' = [env EXCEPT ![ALLOWLIST] = h]
        /\ GoesTo(h, i, "saving_token") /\ NoTrouble
     \/ /\ At(h, i, "saving_token")
        /\ env' = [env EXCEPT ![TOKEN] = h]
        /\ GoesTo(h, i, "verifying") /\ NoTrouble
     \/ /\ At(h, i, "verifying")
        /\ GoesTo(h, i, IF env[ALLOWLIST] = h /\ env[TOKEN] = h
                        THEN "greeting" ELSE "rejecting")
        /\ NoTrouble /\ UNCHANGED env
     \/ /\ Writing(h, i)
        /\ Trouble /\ GoesTo(h, i, "rejecting") /\ UNCHANGED env
  /\ UNCHANGED <<record, privateKey, hatlock, starting, hat, slackVars, agenda>>

\* The owner's greeting comes before the claim; a revoked token cannot send it.
GreetOwner(h, i) ==
  /\ At(h, i, "greeting")
  /\ \/ h \notin revoked /\ NoTrouble /\ GoesTo(h, i, "claiming")
     \/ h \in revoked /\ NoTrouble /\ GoesTo(h, i, "rejecting")
     \/ Trouble /\ GoesTo(h, i, "rejecting")
  /\ UNCHANGED <<record, privateKey, hatlock, starting, env, hat, slackVars, agenda>>

\* A failed attempt is reported and the worker goes on polling: the owner may
\* submit again.  If neither form of the report arrives, run_worker ends.
RejectSlack(h, i) ==
  /\ At(h, i, "rejecting")
  /\ \/ NoTrouble /\ record' = Claimed(h, "failed") /\ GoesTo(h, i, "polling")
     \/ /\ Trouble
        /\ record' \in {record, Claimed(h, "failed")}
        /\ wpc' \in {[wpc EXCEPT ![h][i] = place] : place \in {"polling", "denying"}}
  /\ UNCHANGED <<privateKey, hatlock, starting, env, hat, slackVars, agenda>>

----------------------------------------------------------------------------
\* Disconnecting.

\* start_slack_disconnect: the platform opens a removal, or answers with the
\* open one; a worker is started for it.  Its lock lets one run.
StartDisconnect ==
  /\ Removal \in Opened
  /\ removal # "removed"
  /\ dpc \in {"none", "dead"}
  /\ removal' = IF removal \in {"pending", "confirmed"} THEN removal ELSE "pending"
  /\ dpc' = "polling"
  /\ UNCHANGED <<handoffVars, botToken, envPage, revoked, loaded, overlap>>

\* The platform (external): the owner confirms, or lets the prompt expire.
OwnerConfirms ==
  /\ removal = "pending"
  /\ removal' = "confirmed"
  /\ UNCHANGED <<handoffVars, dpc, botToken, envPage, revoked, loaded, overlap>>

RemovalExpires ==
  /\ removal \in {"pending", "confirmed"}
  /\ removal' = "expired"
  /\ UNCHANGED <<handoffVars, dpc, botToken, envPage, revoked, loaded, overlap>>

\* The platform has the gateway restarted after a claim and after a removal;
\* it loads what is saved (external).
GatewayRestarts ==
  /\ removal = "removed" \/ \E h \in SlackHandoffs : record[h] = "claimed"
  /\ Removal \in Opened
  /\ loaded # env[TOKEN]
  /\ loaded' = env[TOKEN]
  /\ UNCHANGED <<handoffVars, removal, dpc, botToken, envPage, revoked, overlap>>

\* run_worker's loop; after the deadline it ends.
DisconnectPolls ==
  /\ dpc = "polling"
  /\ \/ removal = "confirmed" /\ dpc' = "revoking"
     \/ removal \in {"removed", "failed", "expired"} /\ dpc' = "none"
  /\ UNCHANGED <<handoffVars, removal, botToken, envPage, revoked, loaded, overlap>>

\* Mutant: an answer that confirms nothing counts as a revocation.
RevokesBlindly ==
  /\ dpc = "revoking"
  /\ botToken' = env[TOKEN]
  /\ dpc' = "reading"
  /\ \/ revoked' = revoked \union ({botToken'} \ {None}) /\ NoTrouble
     \/ Trouble /\ UNCHANGED revoked
  /\ UNCHANGED <<ceremony, env, hat, removal, envPage, loaded, overlap>>

\* disconnect_slack_locally up to the revocation: the token in the worker's own
\* environment, which it may have from the gateway, before the saved one.
\* Without a confirmed revocation everything stays as it is.
RevokeSlack ==
  /\ dpc = "revoking"
  /\ botToken' \in {env[TOKEN]} \union ({loaded} \ {None})
  /\ overlap' = (overlap \/ botToken' # env[TOKEN])
  /\ \/ /\ dpc' = "reading"
        /\ revoked' = revoked \union ({botToken'} \ {None})
        /\ NoTrouble
     \/ /\ dpc' = "keeping"
        /\ botToken' # None
        /\ Trouble
        /\ revoked' \in {revoked, revoked \union {botToken'}}
  /\ UNCHANGED <<ceremony, env, hat, removal, envPage, loaded>>

\* _remove_names_from_env_file reads the whole file ...
ReadEnvFile ==
  /\ dpc = "reading"
  /\ envPage' = env
  /\ dpc' = "rewriting"
  /\ overlap' = (overlap \/ InFlight # {} \/ env[TOKEN] # botToken)
  /\ UNCHANGED <<handoffVars, removal, botToken, revoked, loaded>>

\* ... and writes it back without the Slack names.
RewriteEnvFile ==
  /\ dpc = "rewriting"
  /\ env' = [n \in DOMAIN env |-> IF n \in SlackNames THEN None ELSE envPage[n]]
  /\ envPage' = Unread /\ botToken' = None
  /\ dpc' = "checking"
  /\ UNCHANGED <<ceremony, hat, troubles, removal, revoked, loaded, overlap>>

\* The names are read again; the result is sent until it arrives.
CheckAbsence ==
  /\ dpc = "checking"
  /\ dpc' = IF \A n \in SlackNames : env[n] = None THEN "reporting" ELSE "keeping"
  /\ UNCHANGED <<handoffVars, removal, botToken, envPage, revoked, loaded, overlap>>

ReportDisconnect ==
  /\ dpc \in {"reporting", "keeping"}
  /\ removal' = IF removal # "confirmed" THEN removal
                ELSE IF dpc = "reporting" THEN "removed" ELSE "failed"
  /\ dpc' = "none"
  /\ UNCHANGED <<handoffVars, botToken, envPage, revoked, loaded, overlap>>

\* Past the deadline the worker stops asking and stops sending.
DisconnectExpires ==
  /\ dpc \in {"polling", "reporting", "keeping"}
  /\ removal = "expired"
  /\ dpc' = "none"
  /\ UNCHANGED <<handoffVars, removal, botToken, envPage, revoked, loaded, overlap>>

DisconnectDies ==
  /\ dpc \notin {"none", "dead"}
  /\ Trouble
  /\ dpc' = "dead" /\ envPage' = Unread /\ botToken' = None
  /\ UNCHANGED <<ceremony, env, hat, removal, revoked, loaded, overlap>>

----------------------------------------------------------------------------
SlackStep(h, i) ==
  ValidateSlack(h, i) \/ SaveSlack(h, i) \/ GreetOwner(h, i) \/ RejectSlack(h, i)

\* A step of the handoffs beside Slack: it may save to the file being rewritten.
BesideSlack ==
  /\ overlap' = (overlap \/ (env' # env /\ dpc = "rewriting"))
  /\ UNCHANGED <<removal, dpc, botToken, envPage, revoked, loaded>>

SlackInit ==
  /\ HandoffInit
  /\ removal = "none" /\ dpc = "none" /\ botToken = None
  /\ envPage = Unread /\ revoked = {} /\ loaded = None /\ overlap = FALSE

DisconnectStep ==
  \/ DisconnectPolls \/ RevokeSlack \/ ReadEnvFile \/ RewriteEnvFile
  \/ CheckAbsence \/ ReportDisconnect \/ DisconnectExpires

SlackNext ==
  \/ HandoffNext /\ BesideSlack
  \/ \E h \in SlackHandoffs \intersect Opened, i \in Workers : SlackStep(h, i)
  \/ StartDisconnect \/ OwnerConfirms \/ RemovalExpires \/ GatewayRestarts
  \/ DisconnectStep \/ DisconnectDies

\* The tool starts what it asked for and workers run until they end.
CeremonyStep(k) ==
  \E h \in {agenda[k]} \ {Removal}, i \in Workers :
    \/ (WriteKey(h) \/ StartWorker(h) \/ WorkerStep(h, i)) /\ BesideSlack
    \/ SlackStep(h, i)

\* A worker compares the time with its deadline in every round.
DeadlinePasses ==
  \E h \in Opened \ {Removal}, i \in Workers : WorkerExpires(h, i) /\ BesideSlack
=============================================================================
