---------------------------- MODULE SecretHandoff ----------------------------
(***************************************************************************)
(* Private secret handoffs (capabilities/secrets/handoff.py and            *)
(* handoff_worker.py): a tool call opens a handoff at the platform and     *)
(* starts a detached worker, the user's browser seals a value for the      *)
(* Computer's key, the worker saves it and claims the handoff.             *)
(*                                                                         *)
(* The key of a one-time handoff is a file, written before its workers are *)
(* started, that they share and the first to end removes.  Handoffs of a   *)
(* Hat use the Hat's stable key, and their workers one lock beside it.     *)
(*                                                                         *)
(* A saved value is named by the handoff it came from.                     *)
(***************************************************************************)
EXTENDS Naturals, FiniteSets

CONSTANTS
  Secrets,      \* handoffs of one Computer secret (one-time key)
  Required,     \* the same for a credential an installed Hat needs (Hat's key)
  HatSecrets,   \* handoffs of one secret bound to a Hat (one-time key)
  Bundles,      \* hat_credentials: the credentials a Hat defines
  Transfers,    \* hat_installation_credentials: a creator's sealed bundle
  SlackHandoffs,  \* slack_connection (one-time key)
  Names,        \* names of credentials
  NamesOf,      \* handoff -> the names it asks for
  Twice,        \* bound: the handoffs that may get a second worker
  None,         \* no value, no owner of the Hat's worker lock, no tool call
  Removal,      \* the Slack disconnect, in an agenda
  Agendas,      \* bound: the pairs of ceremonies opened in one behaviour
  MaxTroubles   \* bound on crashes, lost answers and failed steps

Persistent == Bundles \union Transfers \union Required
OneTime == Secrets \union HatSecrets \union SlackHandoffs
Handoffs == Persistent \union OneTime
Workers == {1, 2}

SlackNames == {"SLACK_ALLOWED_USERS", "SLACK_BOT_TOKEN"}

\* A handoff is of one kind (handoff_type), and the kinds use keys of their own.
ASSUME HandoffsAssumption ==
  /\ {None, Removal} \intersect Handoffs = {}
  /\ Persistent \intersect OneTime = {}
  /\ Secrets \intersect HatSecrets = {}
  /\ SlackHandoffs \intersect (Secrets \union HatSecrets) = {}
  /\ Bundles \intersect Transfers = {}
  /\ Required \intersect (Bundles \union Transfers) = {}
  /\ Agendas \subseteq (Handoffs \union {Removal}) \X (Handoffs \union {Removal})
  /\ NamesOf \in [Handoffs \ SlackHandoffs -> (SUBSET Names) \ {{}}]
  /\ Names \intersect SlackNames = {}
  /\ Twice \subseteq Handoffs
  /\ MaxTroubles \in Nat

VARIABLES
  record,    \* the platform's status of each handoff
  privateKey,   \* private-secret-handoffs/<id>/private.pem is there
  wpc,       \* where each worker of a handoff stands; "unstarted": it never ran
  hatlock,   \* credentials-private.worker.lock: the worker inside, or None
  starting,  \* the handoff the tool is starting a worker for, or None
  env,       \* the Hermes env file: name -> the handoff its value came from
  hat,       \* the Hat's local store, likewise
  troubles,  \* troubles so far
  agenda     \* what is opened in this behaviour

ceremony == <<record, privateKey, wpc, hatlock, starting, agenda>>
handoffVars == <<ceremony, env, hat, troubles>>

Trouble == troubles < MaxTroubles /\ troubles' = troubles + 1
NoTrouble == UNCHANGED troubles

Opened == {agenda[1], agenda[2]}

Started(h) == {i \in Workers : wpc[h][i] # "none"}
GoesTo(h, i, place) == wpc' = [wpc EXCEPT ![h][i] = place]
At(h, i, place) == wpc[h][i] = place

\* The statuses in which a worker stops polling; a failed Slack connection may
\* be submitted again.
Terminal(h) ==
  {"claimed", "expired"} \union (IF h \in SlackHandoffs THEN {} ELSE {"failed"})

----------------------------------------------------------------------------
\* The platform and the user (external).

Open(h) ==
  \/ record[h] \in {"pending", "submitted"}
  \/ h \in SlackHandoffs /\ record[h] = "failed"

Submit(h) ==
  /\ \/ record[h] = "pending"
     \/ h \in SlackHandoffs /\ record[h] = "failed"
  /\ record' = [record EXCEPT ![h] = "submitted"]
  /\ UNCHANGED <<privateKey, wpc, hatlock, starting, env, hat, troubles, agenda>>

Expire(h) ==
  /\ Open(h)
  /\ record' = [record EXCEPT ![h] = "expired"]
  /\ UNCHANGED <<privateKey, wpc, hatlock, starting, env, hat, troubles, agenda>>

\* What a claim does to the record where it arrives.
Claimed(h, status) ==
  [record EXCEPT ![h] = IF Open(h) THEN status ELSE @]

----------------------------------------------------------------------------
\* The tool call.

\* POST private-secret-handoffs/v1: a handoff the platform does not have yet.
Requests(h) ==
  /\ record[h] = "none" /\ h \in Opened
  /\ record' = [record EXCEPT ![h] = "pending"]

\* The platform keeps one open handoff of a name and binding.
AlreadyOpen(h) == record[h] \in {"pending", "submitted"}

\* _request_private_secret_handoff, and for Slack start_slack_connection.  For a
\* handoff that is already open the call ends there, with a key nobody uses.
RequestHandoff(h) ==
  /\ starting = None
  /\ h \in OneTime /\ Requests(h)
  /\ h \in SlackHandoffs => \A g \in SlackHandoffs : ~Open(g)
  /\ starting' = h
  /\ UNCHANGED <<privateKey, wpc, hatlock, env, hat, troubles, agenda>>

\* start_hat_credentials_handoff, start_hat_installation_credentials and
\* start_hat_installation_required_credential use the Hat's stable key, and
\* start another worker for a handoff that is already open.
RequestForHat(h) ==
  /\ starting = None
  /\ h \in Persistent
  /\ \/ Requests(h)
     \/ /\ AlreadyOpen(h)
        /\ Started(h) = {} \/ (Started(h) = {1} /\ h \in Twice)
        /\ UNCHANGED record
  /\ starting' = h
  /\ UNCHANGED <<privateKey, wpc, hatlock, env, hat, troubles, agenda>>

\* _write_private_key_file: the key is on disk before a worker is started.  A
\* failed write ends the call, and nothing takes away what it left.
WriteKey(h) ==
  /\ starting = h /\ h \in OneTime
  /\ Started(h) = {} /\ ~privateKey[h]
  /\ \/ /\ NoTrouble
        /\ privateKey' = [privateKey EXCEPT ![h] = TRUE]
        /\ UNCHANGED <<starting, wpc>>
     \/ /\ Trouble
        /\ \E written \in BOOLEAN : privateKey' = [privateKey EXCEPT ![h] = written]
        /\ starting' = None /\ GoesTo(h, 1, "unstarted")
  /\ UNCHANGED <<record, hatlock, env, hat, agenda>>

\* _start_worker_process.  systemd-run may have started the worker although its
\* answer came too late: then a second one is started by hand, and the first may
\* have ended by then.  If no start succeeds, the one-time key goes and the tool
\* reports it; the platform keeps the handoff open.
StartWorker(h) ==
  LET next == IF Started(h) = {} THEN 1 ELSE 2 IN
  /\ starting = h
  /\ h \in OneTime => privateKey[h] \/ Started(h) # {}
  /\ \/ /\ NoTrouble
        /\ starting' = None
        /\ GoesTo(h, next, "started")
        /\ UNCHANGED privateKey
     \/ /\ Trouble
        /\ Started(h) = {} /\ h \in Twice
        /\ GoesTo(h, 1, "started")
        /\ UNCHANGED <<starting, privateKey>>
     \/ /\ Trouble
        /\ starting' = None
        /\ privateKey' = [privateKey EXCEPT ![h] = FALSE]
        /\ UNCHANGED wpc
  /\ UNCHANGED <<record, hatlock, env, hat, agenda>>

\* The process of the tool dies before it has started a worker.
PluginDies(h) ==
  /\ starting = h /\ starting' = None
  /\ Trouble
  /\ IF h \in OneTime /\ Started(h) = {} THEN GoesTo(h, 1, "unstarted") ELSE UNCHANGED wpc
  /\ UNCHANGED <<record, privateKey, hatlock, env, hat, agenda>>

----------------------------------------------------------------------------
\* The worker.

\* run_worker: the key is read once; without it the worker reports a failure.
WorkerReadsKey(h, i) ==
  /\ h \in OneTime
  /\ At(h, i, "started")
  /\ GoesTo(h, i, IF privateKey[h] THEN "polling" ELSE "denying")
  /\ UNCHANGED <<record, privateKey, hatlock, starting, env, hat, troubles, agenda>>

\* _run_persistent_hat_worker: whoever finds the lock held leaves.
WorkerLocks(h, i) ==
  /\ h \in Persistent
  /\ At(h, i, "started")
  /\ IF hatlock = None
       THEN hatlock' = <<h, i>> /\ GoesTo(h, i, "polling")
       ELSE GoesTo(h, i, "done") /\ UNCHANGED hatlock
  /\ UNCHANGED <<record, privateKey, starting, env, hat, troubles, agenda>>

\* GET private-secret-handoffs/v1/<id>: any failure ends the worker.
WorkerPolls(h, i) ==
  /\ wpc[h][i] \in {"polling", "failed_seen"}
  /\ \/ /\ record[h] = "submitted"
        /\ GoesTo(h, i, "installing") /\ NoTrouble
     \/ /\ record[h] \in Terminal(h)
        /\ GoesTo(h, i, "ending") /\ NoTrouble
     \/ /\ record[h] = "failed" /\ h \in SlackHandoffs
        /\ At(h, i, "polling")
        /\ GoesTo(h, i, "failed_seen") /\ NoTrouble
     \/ Trouble /\ GoesTo(h, i, "denying")
  /\ UNCHANGED <<record, privateKey, hatlock, starting, env, hat, agenda>>

\* The deadline of a one-time worker; Hat workers have none.
WorkerExpires(h, i) ==
  /\ h \in OneTime
  /\ \/ At(h, i, "polling") /\ GoesTo(h, i, "denying")
     \/ At(h, i, "failed_seen") /\ GoesTo(h, i, "ending")
  /\ UNCHANGED <<record, privateKey, hatlock, starting, env, hat, troubles, agenda>>

\* Writing fails: decryption, Hermes, the Hat's store, its names.
InstallFails(h, i) ==
  /\ h \notin SlackHandoffs
  /\ wpc[h][i] \in {"installing", "copying", "recording"}
  /\ Trouble
  /\ GoesTo(h, i, "denying")
  /\ UNCHANGED <<record, privateKey, hatlock, starting, env, hat, agenda>>

\* _install_submitted_secret, a Computer secret: Hermes writes its env file.
InstallSecret(h, i) ==
  /\ h \in Secrets \union Required
  /\ At(h, i, "installing")
  /\ env' = [n \in DOMAIN env |-> IF n \in NamesOf[h] THEN h ELSE env[n]]
  /\ GoesTo(h, i, "claiming")
  /\ UNCHANGED <<record, privateKey, hatlock, starting, hat, troubles, agenda>>

\* The same for a secret of a Hat: its store, then the platform's metadata.
InstallHatSecret(h, i) ==
  /\ h \in HatSecrets
  /\ \/ /\ At(h, i, "installing")
        /\ hat' = [n \in Names |-> IF n \in NamesOf[h] THEN h ELSE hat[n]]
        /\ GoesTo(h, i, "recording")
     \/ /\ At(h, i, "recording")
        /\ GoesTo(h, i, "claiming")
        /\ UNCHANGED hat
  /\ UNCHANGED <<record, privateKey, hatlock, starting, env, troubles, agenda>>

\* Mutant: a blank field is accepted whether or not a value is saved.
InstallsAnyBundle(h, i) ==
  /\ h \in Bundles
  /\ At(h, i, "installing")
  /\ \E submitted \in (SUBSET NamesOf[h]) \ {{}} :
       hat' = [n \in Names |-> IF n \in submitted THEN h ELSE hat[n]]
  /\ GoesTo(h, i, "claiming")
  /\ UNCHANGED <<record, privateKey, hatlock, starting, env, troubles, agenda>>

\* _install_hat_credentials_bundle: fields left blank keep their saved values,
\* and there must be one.
InstallBundle(h, i) ==
  /\ h \in Bundles
  /\ At(h, i, "installing")
  /\ \E submitted \in (SUBSET NamesOf[h]) \ {{}} :
       IF \A n \in NamesOf[h] \ submitted : hat[n] # None
         THEN /\ hat' = [n \in Names |-> IF n \in submitted THEN h ELSE hat[n]]
              /\ GoesTo(h, i, "claiming")
         ELSE GoesTo(h, i, "denying") /\ UNCHANGED hat
  /\ UNCHANGED <<record, privateKey, hatlock, starting, env, troubles, agenda>>

\* _install_hat_installation_credentials_bundle: the Hat's store in one write,
\* then the env file name by name.
InstallTransfer(h, i) ==
  /\ h \in Transfers
  /\ \/ /\ At(h, i, "installing")
        /\ hat' = [n \in Names |-> IF n \in NamesOf[h] THEN h ELSE hat[n]]
        /\ GoesTo(h, i, "copying")
        /\ UNCHANGED env
     \/ /\ At(h, i, "copying")
        /\ \E n \in NamesOf[h] : env[n] # h /\ env' = [env EXCEPT ![n] = h]
        /\ UNCHANGED <<hat, wpc>>
     \/ /\ At(h, i, "copying")
        /\ \A n \in NamesOf[h] : env[n] = h
        /\ GoesTo(h, i, "claiming")
        /\ UNCHANGED <<env, hat>>
  /\ UNCHANGED <<record, privateKey, hatlock, starting, troubles, agenda>>

\* _claim_handoff with installed=true, and once more in the older form if that
\* raises: it arrives or not, and its answer arrives or not.
WorkerClaims(h, i) ==
  /\ At(h, i, "claiming")
  /\ \/ /\ NoTrouble
        /\ record' = Claimed(h, "claimed")
        /\ GoesTo(h, i, "ending")
     \/ /\ Trouble
        /\ record' \in {record, Claimed(h, "claimed")}
        /\ GoesTo(h, i, IF h \in SlackHandoffs THEN "rejecting" ELSE "denying")
  /\ UNCHANGED <<privateKey, hatlock, starting, env, hat, agenda>>

\* The handlers of exceptions and deadlines: installed=false, whatever comes.
WorkerDenies(h, i) ==
  /\ At(h, i, "denying")
  /\ \/ NoTrouble /\ record' = Claimed(h, "failed")
     \/ Trouble /\ UNCHANGED record
  /\ GoesTo(h, i, "ending")
  /\ UNCHANGED <<privateKey, hatlock, starting, env, hat, agenda>>

\* _cleanup_key_path, or the end of the locked block.
WorkerEnds(h, i) ==
  /\ At(h, i, "ending")
  /\ GoesTo(h, i, "done")
  /\ privateKey' = [privateKey EXCEPT ![h] = FALSE]
  /\ hatlock' = IF hatlock = <<h, i>> THEN None ELSE hatlock
  /\ UNCHANGED <<record, starting, env, hat, troubles, agenda>>

\* The worker's process dies; the kernel releases its lock.
WorkerDies(h, i) ==
  /\ wpc[h][i] \notin {"none", "unstarted", "done", "dead"}
  /\ Trouble
  /\ GoesTo(h, i, "dead")
  /\ hatlock' = IF hatlock = <<h, i>> THEN None ELSE hatlock
  /\ UNCHANGED <<record, privateKey, starting, env, hat, agenda>>

HandoffInit ==
  /\ record = [h \in Handoffs |-> "none"]
  /\ privateKey = [h \in Handoffs |-> FALSE]
  /\ wpc = [h \in Handoffs |-> [i \in Workers |-> "none"]]
  /\ hatlock = None
  /\ starting = None
  /\ env = [n \in Names \union SlackNames |-> None]
  /\ hat = [n \in Names |-> None]
  /\ troubles = 0
  /\ agenda \in Agendas

WorkerStep(h, i) ==
  \/ WorkerReadsKey(h, i) \/ WorkerLocks(h, i) \/ WorkerPolls(h, i)
  \/ InstallSecret(h, i) \/ InstallHatSecret(h, i) \/ InstallBundle(h, i)
  \/ InstallTransfer(h, i) \/ InstallFails(h, i)
  \/ WorkerClaims(h, i) \/ WorkerDenies(h, i) \/ WorkerEnds(h, i)

HandoffNext ==
  \E h \in Opened \ {Removal} :
    \/ Submit(h) \/ Expire(h) \/ RequestHandoff(h) \/ RequestForHat(h)
    \/ WriteKey(h) \/ StartWorker(h) \/ PluginDies(h)
    \/ \E i \in Workers : \/ WorkerStep(h, i)
                          \/ WorkerExpires(h, i)
                          \/ WorkerDies(h, i)
=============================================================================
