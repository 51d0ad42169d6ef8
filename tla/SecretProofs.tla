---------------------------- MODULE SecretProofs ----------------------------
(* Proof of SecretsAreSound: where a one-time key and a worker come from,  *)
(* and what is in the env file and in the Hat's store at each step of an   *)
(* installation.                                                           *)
EXTENDS SecretProps, TLAPS, FiniteSetTheorems

SecretSpec == SlackInit /\ [][SlackNext]_slackAllVars

-----------------------------------------------------------------------------
(* Types.                                                                  *)

Statuses == {"none", "pending", "submitted", "claimed", "failed", "expired"}
Places ==
  {"none", "started", "polling", "failed_seen", "installing", "copying",
   "recording", "saving", "saving_token", "verifying", "greeting",
   "claiming", "rejecting", "denying", "ending", "done", "dead", "unstarted"}
EnvFiles == [Names \union SlackNames -> Handoffs \union {None}]

\* Slack's values come from Slack's handoffs.
TypeInv ==
  /\ SecretTypeOK
  /\ {env[TOKEN], env[ALLOWLIST]} \subseteq SlackHandoffs \union {None}

\* A worker's step moves that worker only.
LEMMA OneWorkerMoves ==
  ASSUME wpc \in [Handoffs -> [Workers -> Places]],
         NEW h \in Handoffs, NEW i \in Workers, NEW place \in Places,
         GoesTo(h, i, place)
  PROVE  /\ wpc' \in [Handoffs -> [Workers -> Places]]
         /\ \A g \in Handoffs, j \in Workers :
              wpc'[g][j] = IF g = h /\ j = i THEN place ELSE wpc[g][j]
BY DEF GoesTo

\* A claim changes the record of its handoff, if that is open.
LEMMA ClaimMoves ==
  ASSUME record \in [Handoffs -> Statuses], NEW h \in Handoffs,
         NEW s \in Statuses \ {"none"}
  PROVE  /\ Claimed(h, s) \in [Handoffs -> Statuses]
         /\ \A g \in Handoffs :
              /\ g # h => Claimed(h, s)[g] = record[g]
              /\ Claimed(h, s)[g] \in {record[g], s}
              /\ record[g] = "none" <=> Claimed(h, s)[g] = "none"
BY DEF Claimed, Open, Statuses

\* The names a handoff asks for are credentials, and none is a name of Slack.
LEMMA AskedNames ==
  ASSUME NEW h \in Handoffs \ SlackHandoffs
  PROVE  NamesOf[h] \subseteq Names /\ NamesOf[h] \intersect SlackNames = {}
BY HandoffsAssumption

\* What is opened in a behaviour is a handoff, or the removal.
LEMMA OpenedHandoffs ==
  ASSUME agenda \in Agendas
  PROVE  Opened \ {Removal} \subseteq Handoffs /\ SlackHandoffs \intersect Opened \subseteq Handoffs
BY HandoffsAssumption DEF Opened, Handoffs, OneTime

\* The actions of a step, for the proofs by cases.
ToolStep(h) ==
  \/ Submit(h) \/ Expire(h) \/ RequestHandoff(h) \/ RequestForHat(h)
  \/ WriteKey(h) \/ StartWorker(h) \/ PluginDies(h)
AnyWorkerStep(h, i) == WorkerStep(h, i) \/ WorkerExpires(h, i) \/ WorkerDies(h, i)
RemovalStep ==
  \/ StartDisconnect \/ OwnerConfirms \/ RemovalExpires \/ GatewayRestarts
  \/ DisconnectStep \/ DisconnectDies

\* A step is the tool's, a worker's, a worker's with Slack, or the removal's.
LEMMA StepKinds ==
  ASSUME agenda \in Agendas, SlackNext
  PROVE  \/ \E h \in Handoffs : ToolStep(h) /\ BesideSlack
         \/ \E h \in Handoffs, i \in Workers : AnyWorkerStep(h, i) /\ BesideSlack
         \/ \E h \in SlackHandoffs, i \in Workers : SlackStep(h, i)
         \/ RemovalStep
BY OpenedHandoffs DEF SlackNext, HandoffNext, ToolStep, AnyWorkerStep, RemovalStep


\* Every step keeps the types.
LEMMA TypeInvStep ==
  ASSUME TypeInv, [SlackNext]_slackAllVars
  PROVE  TypeInv'
<1>1. CASE UNCHANGED slackAllVars
  BY <1>1 DEF slackAllVars, TypeInv, SecretTypeOK, BesideSlack, handoffVars, ceremony, slackVars, NoTrouble, Trouble
<1>2. CASE \E h \in Handoffs : ToolStep(h) /\ BesideSlack
  <2> SUFFICES ASSUME NEW h \in Handoffs, ToolStep(h), BesideSlack PROVE TypeInv'
    BY <1>2
  <2>1. CASE Submit(h)
    BY <2>1, HandoffsAssumption, OneWorkerMoves DEF Submit, Requests, AlreadyOpen, Started, TypeInv, SecretTypeOK, BesideSlack, handoffVars, ceremony, slackVars, NoTrouble, Trouble
  <2>2. CASE Expire(h)
    BY <2>2, HandoffsAssumption, OneWorkerMoves DEF Expire, Requests, AlreadyOpen, Started, TypeInv, SecretTypeOK, BesideSlack, handoffVars, ceremony, slackVars, NoTrouble, Trouble
  <2>3. CASE RequestHandoff(h)
    BY <2>3, HandoffsAssumption, OneWorkerMoves DEF RequestHandoff, Requests, AlreadyOpen, Started, TypeInv, SecretTypeOK, BesideSlack, handoffVars, ceremony, slackVars, NoTrouble, Trouble
  <2>4. CASE RequestForHat(h)
    BY <2>4, HandoffsAssumption, OneWorkerMoves DEF RequestForHat, Requests, AlreadyOpen, Started, TypeInv, SecretTypeOK, BesideSlack, handoffVars, ceremony, slackVars, NoTrouble, Trouble
  <2>5. CASE WriteKey(h) \/ StartWorker(h) \/ PluginDies(h)
    <3>1. wpc' \in [Handoffs -> [Workers -> Places]]
      <4>1. wpc \in [Handoffs -> [Workers -> Places]]
        BY DEF TypeInv, SecretTypeOK, Places
      <4>2. /\ \A k : [wpc EXCEPT ![h][k] = "started"] \in [Handoffs -> [Workers -> Places]]
            /\ [wpc EXCEPT ![h][1] = "unstarted"] \in [Handoffs -> [Workers -> Places]]
        BY <4>1 DEF Places
      <4> QED
        BY <2>5, <4>1, <4>2 DEF WriteKey, StartWorker, PluginDies, GoesTo
    <3>2. privateKey' \in [Handoffs -> BOOLEAN] /\ troubles' \in 0 .. MaxTroubles
      <4>1. privateKey \in [Handoffs -> BOOLEAN] /\ troubles \in 0 .. MaxTroubles
        BY DEF TypeInv, SecretTypeOK
      <4>2. troubles' \in 0 .. MaxTroubles
        BY <2>5, <4>1, HandoffsAssumption DEF WriteKey, StartWorker, PluginDies, NoTrouble, Trouble
      <4>3. ASSUME NEW b \in BOOLEAN PROVE [privateKey EXCEPT ![h] = b] \in [Handoffs -> BOOLEAN]
        BY <4>1
      <4> QED
        BY <2>5, <4>1, <4>2, <4>3 DEF WriteKey, StartWorker, PluginDies
    <3>3. /\ starting' \in {starting, None}
          /\ UNCHANGED <<record, hatlock, env, hat, agenda>>
      BY <2>5 DEF WriteKey, StartWorker, PluginDies
    <3> QED
      BY <3>1, <3>2, <3>3 DEF TypeInv, SecretTypeOK, Places, BesideSlack
  <2> QED
    BY <2>1, <2>2, <2>3, <2>4, <2>5 DEF ToolStep
<1>3. CASE \E h \in Handoffs, i \in Workers : AnyWorkerStep(h, i) /\ BesideSlack
  <2> SUFFICES ASSUME NEW h \in Handoffs, NEW i \in Workers, AnyWorkerStep(h, i), BesideSlack PROVE TypeInv'
    BY <1>3
  <2>0. /\ wpc \in [Handoffs -> [Workers -> Places]] /\ record \in [Handoffs -> Statuses]
        /\ env \in EnvFiles /\ {env[TOKEN], env[ALLOWLIST]} \subseteq SlackHandoffs \union {None}
        /\ hat \in [Names -> Handoffs \union {None}]
        /\ hatlock \in (Persistent \X Workers) \union {None} /\ privateKey \in [Handoffs -> BOOLEAN]
        /\ troubles \in 0 .. MaxTroubles /\ h \in Handoffs
    BY DEF TypeInv, SecretTypeOK, Places, Statuses, EnvFiles, Handoffs, OneTime
  <2>1. CASE WorkerReadsKey(h, i)
    <3>1. wpc' \in [Handoffs -> [Workers -> Places]]
      BY <2>1, <2>0, OneWorkerMoves DEF WorkerReadsKey, Places, handoffVars, ceremony, slackVars, NoTrouble, Trouble
    <3>2. record' \in [Handoffs -> Statuses]
      BY <2>1, <2>0, ClaimMoves DEF WorkerReadsKey, Statuses, handoffVars, ceremony, slackVars, NoTrouble, Trouble
    <3>3. env' \in EnvFiles /\ {env'[TOKEN], env'[ALLOWLIST]} \subseteq SlackHandoffs \union {None}
      BY <2>1, <2>0, AskedNames, HandoffsAssumption DEF WorkerReadsKey, handoffVars, ceremony, slackVars, NoTrouble, Trouble, EnvFiles, TOKEN, ALLOWLIST, SlackNames, Handoffs, OneTime, Persistent
    <3>4. hat' \in [Names -> Handoffs \union {None}]
      BY <2>1, <2>0, AskedNames DEF WorkerReadsKey, handoffVars, ceremony, slackVars, NoTrouble, Trouble
    <3>5. hatlock' \in (Persistent \X Workers) \union {None} /\ privateKey' \in [Handoffs -> BOOLEAN]
      BY <2>1, <2>0 DEF WorkerReadsKey, handoffVars, ceremony, slackVars, NoTrouble, Trouble
    <3>6. troubles' \in 0 .. MaxTroubles
      BY <2>1, <2>0, HandoffsAssumption DEF WorkerReadsKey, handoffVars, ceremony, slackVars, NoTrouble, Trouble
    <3> QED
      BY <2>1, <3>1, <3>2, <3>3, <3>4, <3>5, <3>6 DEF WorkerReadsKey, TypeInv, SecretTypeOK, Places, Statuses, EnvFiles, handoffVars, ceremony, slackVars, NoTrouble, Trouble, BesideSlack
  <2>2. CASE WorkerLocks(h, i)
    <3>1. wpc' \in [Handoffs -> [Workers -> Places]]
      BY <2>2, <2>0, OneWorkerMoves DEF WorkerLocks, Places, handoffVars, ceremony, slackVars, NoTrouble, Trouble
    <3>2. record' \in [Handoffs -> Statuses]
      BY <2>2, <2>0, ClaimMoves DEF WorkerLocks, Statuses, handoffVars, ceremony, slackVars, NoTrouble, Trouble
    <3>3. env' \in EnvFiles /\ {env'[TOKEN], env'[ALLOWLIST]} \subseteq SlackHandoffs \union {None}
      BY <2>2, <2>0, AskedNames, HandoffsAssumption DEF WorkerLocks, handoffVars, ceremony, slackVars, NoTrouble, Trouble, EnvFiles, TOKEN, ALLOWLIST, SlackNames, Handoffs, OneTime, Persistent
    <3>4. hat' \in [Names -> Handoffs \union {None}]
      BY <2>2, <2>0, AskedNames DEF WorkerLocks, handoffVars, ceremony, slackVars, NoTrouble, Trouble
    <3>5. hatlock' \in (Persistent \X Workers) \union {None} /\ privateKey' \in [Handoffs -> BOOLEAN]
      BY <2>2, <2>0 DEF WorkerLocks, handoffVars, ceremony, slackVars, NoTrouble, Trouble
    <3>6. troubles' \in 0 .. MaxTroubles
      BY <2>2, <2>0, HandoffsAssumption DEF WorkerLocks, handoffVars, ceremony, slackVars, NoTrouble, Trouble
    <3> QED
      BY <2>2, <3>1, <3>2, <3>3, <3>4, <3>5, <3>6 DEF WorkerLocks, TypeInv, SecretTypeOK, Places, Statuses, EnvFiles, handoffVars, ceremony, slackVars, NoTrouble, Trouble, BesideSlack
  <2>3. CASE WorkerPolls(h, i)
    <3>1. wpc' \in [Handoffs -> [Workers -> Places]]
      BY <2>3, <2>0, OneWorkerMoves DEF WorkerPolls, Places, handoffVars, ceremony, slackVars, NoTrouble, Trouble
    <3>2. record' \in [Handoffs -> Statuses]
      BY <2>3, <2>0, ClaimMoves DEF WorkerPolls, Statuses, handoffVars, ceremony, slackVars, NoTrouble, Trouble
    <3>3. env' \in EnvFiles /\ {env'[TOKEN], env'[ALLOWLIST]} \subseteq SlackHandoffs \union {None}
      BY <2>3, <2>0, AskedNames, HandoffsAssumption DEF WorkerPolls, handoffVars, ceremony, slackVars, NoTrouble, Trouble, EnvFiles, TOKEN, ALLOWLIST, SlackNames, Handoffs, OneTime, Persistent
    <3>4. hat' \in [Names -> Handoffs \union {None}]
      BY <2>3, <2>0, AskedNames DEF WorkerPolls, handoffVars, ceremony, slackVars, NoTrouble, Trouble
    <3>5. hatlock' \in (Persistent \X Workers) \union {None} /\ privateKey' \in [Handoffs -> BOOLEAN]
      BY <2>3, <2>0 DEF WorkerPolls, handoffVars, ceremony, slackVars, NoTrouble, Trouble
    <3>6. troubles' \in 0 .. MaxTroubles
      BY <2>3, <2>0, HandoffsAssumption DEF WorkerPolls, handoffVars, ceremony, slackVars, NoTrouble, Trouble
    <3> QED
      BY <2>3, <3>1, <3>2, <3>3, <3>4, <3>5, <3>6 DEF WorkerPolls, TypeInv, SecretTypeOK, Places, Statuses, EnvFiles, handoffVars, ceremony, slackVars, NoTrouble, Trouble, BesideSlack
  <2>4. CASE InstallSecret(h, i)
    <3>1. wpc' \in [Handoffs -> [Workers -> Places]]
      BY <2>4, <2>0, OneWorkerMoves DEF InstallSecret, Places, handoffVars, ceremony, slackVars, NoTrouble, Trouble
    <3>2. record' \in [Handoffs -> Statuses]
      BY <2>4, <2>0, ClaimMoves DEF InstallSecret, Statuses, handoffVars, ceremony, slackVars, NoTrouble, Trouble
    <3>3. env' \in EnvFiles /\ {env'[TOKEN], env'[ALLOWLIST]} \subseteq SlackHandoffs \union {None}
      BY <2>4, <2>0, AskedNames, HandoffsAssumption DEF InstallSecret, handoffVars, ceremony, slackVars, NoTrouble, Trouble, EnvFiles, TOKEN, ALLOWLIST, SlackNames, Handoffs, OneTime, Persistent
    <3>4. hat' \in [Names -> Handoffs \union {None}]
      BY <2>4, <2>0, AskedNames DEF InstallSecret, handoffVars, ceremony, slackVars, NoTrouble, Trouble
    <3>5. hatlock' \in (Persistent \X Workers) \union {None} /\ privateKey' \in [Handoffs -> BOOLEAN]
      BY <2>4, <2>0 DEF InstallSecret, handoffVars, ceremony, slackVars, NoTrouble, Trouble
    <3>6. troubles' \in 0 .. MaxTroubles
      BY <2>4, <2>0, HandoffsAssumption DEF InstallSecret, handoffVars, ceremony, slackVars, NoTrouble, Trouble
    <3> QED
      BY <2>4, <3>1, <3>2, <3>3, <3>4, <3>5, <3>6 DEF InstallSecret, TypeInv, SecretTypeOK, Places, Statuses, EnvFiles, handoffVars, ceremony, slackVars, NoTrouble, Trouble, BesideSlack
  <2>5. CASE InstallHatSecret(h, i)
    <3>1. wpc' \in [Handoffs -> [Workers -> Places]]
      BY <2>5, <2>0, OneWorkerMoves DEF InstallHatSecret, Places, handoffVars, ceremony, slackVars, NoTrouble, Trouble
    <3>2. record' \in [Handoffs -> Statuses]
      BY <2>5, <2>0, ClaimMoves DEF InstallHatSecret, Statuses, handoffVars, ceremony, slackVars, NoTrouble, Trouble
    <3>3. env' \in EnvFiles /\ {env'[TOKEN], env'[ALLOWLIST]} \subseteq SlackHandoffs \union {None}
      BY <2>5, <2>0, AskedNames, HandoffsAssumption DEF InstallHatSecret, handoffVars, ceremony, slackVars, NoTrouble, Trouble, EnvFiles, TOKEN, ALLOWLIST, SlackNames, Handoffs, OneTime, Persistent
    <3>4. hat' \in [Names -> Handoffs \union {None}]
      BY <2>5, <2>0, AskedNames DEF InstallHatSecret, handoffVars, ceremony, slackVars, NoTrouble, Trouble
    <3>5. hatlock' \in (Persistent \X Workers) \union {None} /\ privateKey' \in [Handoffs -> BOOLEAN]
      BY <2>5, <2>0 DEF InstallHatSecret, handoffVars, ceremony, slackVars, NoTrouble, Trouble
    <3>6. troubles' \in 0 .. MaxTroubles
      BY <2>5, <2>0, HandoffsAssumption DEF InstallHatSecret, handoffVars, ceremony, slackVars, NoTrouble, Trouble
    <3> QED
      BY <2>5, <3>1, <3>2, <3>3, <3>4, <3>5, <3>6 DEF InstallHatSecret, TypeInv, SecretTypeOK, Places, Statuses, EnvFiles, handoffVars, ceremony, slackVars, NoTrouble, Trouble, BesideSlack
  <2>6. CASE InstallBundle(h, i)
    <3>1. wpc' \in [Handoffs -> [Workers -> Places]]
      BY <2>6, <2>0, OneWorkerMoves DEF InstallBundle, Places, handoffVars, ceremony, slackVars, NoTrouble, Trouble
    <3>2. record' \in [Handoffs -> Statuses]
      BY <2>6, <2>0, ClaimMoves DEF InstallBundle, Statuses, handoffVars, ceremony, slackVars, NoTrouble, Trouble
    <3>3. env' \in EnvFiles /\ {env'[TOKEN], env'[ALLOWLIST]} \subseteq SlackHandoffs \union {None}
      BY <2>6, <2>0, AskedNames, HandoffsAssumption DEF InstallBundle, handoffVars, ceremony, slackVars, NoTrouble, Trouble, EnvFiles, TOKEN, ALLOWLIST, SlackNames, Handoffs, OneTime, Persistent
    <3>4. hat' \in [Names -> Handoffs \union {None}]
      BY <2>6, <2>0, AskedNames DEF InstallBundle, handoffVars, ceremony, slackVars, NoTrouble, Trouble
    <3>5. hatlock' \in (Persistent \X Workers) \union {None} /\ privateKey' \in [Handoffs -> BOOLEAN]
      BY <2>6, <2>0 DEF InstallBundle, handoffVars, ceremony, slackVars, NoTrouble, Trouble
    <3>6. troubles' \in 0 .. MaxTroubles
      BY <2>6, <2>0, HandoffsAssumption DEF InstallBundle, handoffVars, ceremony, slackVars, NoTrouble, Trouble
    <3> QED
      BY <2>6, <3>1, <3>2, <3>3, <3>4, <3>5, <3>6 DEF InstallBundle, TypeInv, SecretTypeOK, Places, Statuses, EnvFiles, handoffVars, ceremony, slackVars, NoTrouble, Trouble, BesideSlack
  <2>7. CASE InstallTransfer(h, i)
    <3>1. wpc' \in [Handoffs -> [Workers -> Places]]
      BY <2>7, <2>0, OneWorkerMoves DEF InstallTransfer, Places, handoffVars, ceremony, slackVars, NoTrouble, Trouble
    <3>2. record' \in [Handoffs -> Statuses]
      BY <2>7, <2>0, ClaimMoves DEF InstallTransfer, Statuses, handoffVars, ceremony, slackVars, NoTrouble, Trouble
    <3>3. env' \in EnvFiles /\ {env'[TOKEN], env'[ALLOWLIST]} \subseteq SlackHandoffs \union {None}
      BY <2>7, <2>0, AskedNames, HandoffsAssumption DEF InstallTransfer, handoffVars, ceremony, slackVars, NoTrouble, Trouble, EnvFiles, TOKEN, ALLOWLIST, SlackNames, Handoffs, OneTime, Persistent
    <3>4. hat' \in [Names -> Handoffs \union {None}]
      BY <2>7, <2>0, AskedNames DEF InstallTransfer, handoffVars, ceremony, slackVars, NoTrouble, Trouble
    <3>5. hatlock' \in (Persistent \X Workers) \union {None} /\ privateKey' \in [Handoffs -> BOOLEAN]
      BY <2>7, <2>0 DEF InstallTransfer, handoffVars, ceremony, slackVars, NoTrouble, Trouble
    <3>6. troubles' \in 0 .. MaxTroubles
      BY <2>7, <2>0, HandoffsAssumption DEF InstallTransfer, handoffVars, ceremony, slackVars, NoTrouble, Trouble
    <3> QED
      BY <2>7, <3>1, <3>2, <3>3, <3>4, <3>5, <3>6 DEF InstallTransfer, TypeInv, SecretTypeOK, Places, Statuses, EnvFiles, handoffVars, ceremony, slackVars, NoTrouble, Trouble, BesideSlack
  <2>8. CASE InstallFails(h, i)
    <3>1. wpc' \in [Handoffs -> [Workers -> Places]]
      BY <2>8, <2>0, OneWorkerMoves DEF InstallFails, Places, handoffVars, ceremony, slackVars, NoTrouble, Trouble
    <3>2. record' \in [Handoffs -> Statuses]
      BY <2>8, <2>0, ClaimMoves DEF InstallFails, Statuses, handoffVars, ceremony, slackVars, NoTrouble, Trouble
    <3>3. env' \in EnvFiles /\ {env'[TOKEN], env'[ALLOWLIST]} \subseteq SlackHandoffs \union {None}
      BY <2>8, <2>0, AskedNames, HandoffsAssumption DEF InstallFails, handoffVars, ceremony, slackVars, NoTrouble, Trouble, EnvFiles, TOKEN, ALLOWLIST, SlackNames, Handoffs, OneTime, Persistent
    <3>4. hat' \in [Names -> Handoffs \union {None}]
      BY <2>8, <2>0, AskedNames DEF InstallFails, handoffVars, ceremony, slackVars, NoTrouble, Trouble
    <3>5. hatlock' \in (Persistent \X Workers) \union {None} /\ privateKey' \in [Handoffs -> BOOLEAN]
      BY <2>8, <2>0 DEF InstallFails, handoffVars, ceremony, slackVars, NoTrouble, Trouble
    <3>6. troubles' \in 0 .. MaxTroubles
      BY <2>8, <2>0, HandoffsAssumption DEF InstallFails, handoffVars, ceremony, slackVars, NoTrouble, Trouble
    <3> QED
      BY <2>8, <3>1, <3>2, <3>3, <3>4, <3>5, <3>6 DEF InstallFails, TypeInv, SecretTypeOK, Places, Statuses, EnvFiles, handoffVars, ceremony, slackVars, NoTrouble, Trouble, BesideSlack
  <2>9. CASE WorkerClaims(h, i)
    <3>1. wpc' \in [Handoffs -> [Workers -> Places]]
      BY <2>9, <2>0, OneWorkerMoves DEF WorkerClaims, Places, handoffVars, ceremony, slackVars, NoTrouble, Trouble
    <3>2. record' \in [Handoffs -> Statuses]
      BY <2>9, <2>0, ClaimMoves DEF WorkerClaims, Statuses, handoffVars, ceremony, slackVars, NoTrouble, Trouble
    <3>3. env' \in EnvFiles /\ {env'[TOKEN], env'[ALLOWLIST]} \subseteq SlackHandoffs \union {None}
      BY <2>9, <2>0, AskedNames, HandoffsAssumption DEF WorkerClaims, handoffVars, ceremony, slackVars, NoTrouble, Trouble, EnvFiles, TOKEN, ALLOWLIST, SlackNames, Handoffs, OneTime, Persistent
    <3>4. hat' \in [Names -> Handoffs \union {None}]
      BY <2>9, <2>0, AskedNames DEF WorkerClaims, handoffVars, ceremony, slackVars, NoTrouble, Trouble
    <3>5. hatlock' \in (Persistent \X Workers) \union {None} /\ privateKey' \in [Handoffs -> BOOLEAN]
      BY <2>9, <2>0 DEF WorkerClaims, handoffVars, ceremony, slackVars, NoTrouble, Trouble
    <3>6. troubles' \in 0 .. MaxTroubles
      BY <2>9, <2>0, HandoffsAssumption DEF WorkerClaims, handoffVars, ceremony, slackVars, NoTrouble, Trouble
    <3> QED
      BY <2>9, <3>1, <3>2, <3>3, <3>4, <3>5, <3>6 DEF WorkerClaims, TypeInv, SecretTypeOK, Places, Statuses, EnvFiles, handoffVars, ceremony, slackVars, NoTrouble, Trouble, BesideSlack
  <2>10. CASE WorkerDenies(h, i)
    <3>1. wpc' \in [Handoffs -> [Workers -> Places]]
      BY <2>10, <2>0, OneWorkerMoves DEF WorkerDenies, Places, handoffVars, ceremony, slackVars, NoTrouble, Trouble
    <3>2. record' \in [Handoffs -> Statuses]
      BY <2>10, <2>0, ClaimMoves DEF WorkerDenies, Statuses, handoffVars, ceremony, slackVars, NoTrouble, Trouble
    <3>3. env' \in EnvFiles /\ {env'[TOKEN], env'[ALLOWLIST]} \subseteq SlackHandoffs \union {None}
      BY <2>10, <2>0, AskedNames, HandoffsAssumption DEF WorkerDenies, handoffVars, ceremony, slackVars, NoTrouble, Trouble, EnvFiles, TOKEN, ALLOWLIST, SlackNames, Handoffs, OneTime, Persistent
    <3>4. hat' \in [Names -> Handoffs \union {None}]
      BY <2>10, <2>0, AskedNames DEF WorkerDenies, handoffVars, ceremony, slackVars, NoTrouble, Trouble
    <3>5. hatlock' \in (Persistent \X Workers) \union {None} /\ privateKey' \in [Handoffs -> BOOLEAN]
      BY <2>10, <2>0 DEF WorkerDenies, handoffVars, ceremony, slackVars, NoTrouble, Trouble
    <3>6. troubles' \in 0 .. MaxTroubles
      BY <2>10, <2>0, HandoffsAssumption DEF WorkerDenies, handoffVars, ceremony, slackVars, NoTrouble, Trouble
    <3> QED
      BY <2>10, <3>1, <3>2, <3>3, <3>4, <3>5, <3>6 DEF WorkerDenies, TypeInv, SecretTypeOK, Places, Statuses, EnvFiles, handoffVars, ceremony, slackVars, NoTrouble, Trouble, BesideSlack
  <2>11. CASE WorkerEnds(h, i)
    <3>1. wpc' \in [Handoffs -> [Workers -> Places]]
      BY <2>11, <2>0, OneWorkerMoves DEF WorkerEnds, Places, handoffVars, ceremony, slackVars, NoTrouble, Trouble
    <3>2. record' \in [Handoffs -> Statuses]
      BY <2>11, <2>0, ClaimMoves DEF WorkerEnds, Statuses, handoffVars, ceremony, slackVars, NoTrouble, Trouble
    <3>3. env' \in EnvFiles /\ {env'[TOKEN], env'[ALLOWLIST]} \subseteq SlackHandoffs \union {None}
      BY <2>11, <2>0, AskedNames, HandoffsAssumption DEF WorkerEnds, handoffVars, ceremony, slackVars, NoTrouble, Trouble, EnvFiles, TOKEN, ALLOWLIST, SlackNames, Handoffs, OneTime, Persistent
    <3>4. hat' \in [Names -> Handoffs \union {None}]
      BY <2>11, <2>0, AskedNames DEF WorkerEnds, handoffVars, ceremony, slackVars, NoTrouble, Trouble
    <3>5. hatlock' \in (Persistent \X Workers) \union {None} /\ privateKey' \in [Handoffs -> BOOLEAN]
      BY <2>11, <2>0 DEF WorkerEnds, handoffVars, ceremony, slackVars, NoTrouble, Trouble
    <3>6. troubles' \in 0 .. MaxTroubles
      BY <2>11, <2>0, HandoffsAssumption DEF WorkerEnds, handoffVars, ceremony, slackVars, NoTrouble, Trouble
    <3> QED
      BY <2>11, <3>1, <3>2, <3>3, <3>4, <3>5, <3>6 DEF WorkerEnds, TypeInv, SecretTypeOK, Places, Statuses, EnvFiles, handoffVars, ceremony, slackVars, NoTrouble, Trouble, BesideSlack
  <2>12. CASE WorkerExpires(h, i)
    <3>1. wpc' \in [Handoffs -> [Workers -> Places]]
      BY <2>12, <2>0, OneWorkerMoves DEF WorkerExpires, Places, handoffVars, ceremony, slackVars, NoTrouble, Trouble
    <3>2. record' \in [Handoffs -> Statuses]
      BY <2>12, <2>0, ClaimMoves DEF WorkerExpires, Statuses, handoffVars, ceremony, slackVars, NoTrouble, Trouble
    <3>3. env' \in EnvFiles /\ {env'[TOKEN], env'[ALLOWLIST]} \subseteq SlackHandoffs \union {None}
      BY <2>12, <2>0, AskedNames, HandoffsAssumption DEF WorkerExpires, handoffVars, ceremony, slackVars, NoTrouble, Trouble, EnvFiles, TOKEN, ALLOWLIST, SlackNames, Handoffs, OneTime, Persistent
    <3>4. hat' \in [Names -> Handoffs \union {None}]
      BY <2>12, <2>0, AskedNames DEF WorkerExpires, handoffVars, ceremony, slackVars, NoTrouble, Trouble
    <3>5. hatlock' \in (Persistent \X Workers) \union {None} /\ privateKey' \in [Handoffs -> BOOLEAN]
      BY <2>12, <2>0 DEF WorkerExpires, handoffVars, ceremony, slackVars, NoTrouble, Trouble
    <3>6. troubles' \in 0 .. MaxTroubles
      BY <2>12, <2>0, HandoffsAssumption DEF WorkerExpires, handoffVars, ceremony, slackVars, NoTrouble, Trouble
    <3> QED
      BY <2>12, <3>1, <3>2, <3>3, <3>4, <3>5, <3>6 DEF WorkerExpires, TypeInv, SecretTypeOK, Places, Statuses, EnvFiles, handoffVars, ceremony, slackVars, NoTrouble, Trouble, BesideSlack
  <2>13. CASE WorkerDies(h, i)
    <3>1. wpc' \in [Handoffs -> [Workers -> Places]]
      BY <2>13, <2>0, OneWorkerMoves DEF WorkerDies, Places, handoffVars, ceremony, slackVars, NoTrouble, Trouble
    <3>2. record' \in [Handoffs -> Statuses]
      BY <2>13, <2>0, ClaimMoves DEF WorkerDies, Statuses, handoffVars, ceremony, slackVars, NoTrouble, Trouble
    <3>3. env' \in EnvFiles /\ {env'[TOKEN], env'[ALLOWLIST]} \subseteq SlackHandoffs \union {None}
      BY <2>13, <2>0, AskedNames, HandoffsAssumption DEF WorkerDies, handoffVars, ceremony, slackVars, NoTrouble, Trouble, EnvFiles, TOKEN, ALLOWLIST, SlackNames, Handoffs, OneTime, Persistent
    <3>4. hat' \in [Names -> Handoffs \union {None}]
      BY <2>13, <2>0, AskedNames DEF WorkerDies, handoffVars, ceremony, slackVars, NoTrouble, Trouble
    <3>5. hatlock' \in (Persistent \X Workers) \union {None} /\ privateKey' \in [Handoffs -> BOOLEAN]
      BY <2>13, <2>0 DEF WorkerDies, handoffVars, ceremony, slackVars, NoTrouble, Trouble
    <3>6. troubles' \in 0 .. MaxTroubles
      BY <2>13, <2>0, HandoffsAssumption DEF WorkerDies, handoffVars, ceremony, slackVars, NoTrouble, Trouble
    <3> QED
      BY <2>13, <3>1, <3>2, <3>3, <3>4, <3>5, <3>6 DEF WorkerDies, TypeInv, SecretTypeOK, Places, Statuses, EnvFiles, handoffVars, ceremony, slackVars, NoTrouble, Trouble, BesideSlack
  <2> QED
    BY <2>1, <2>2, <2>3, <2>4, <2>5, <2>6, <2>7, <2>8, <2>9, <2>10, <2>11, <2>12, <2>13 DEF AnyWorkerStep, WorkerStep
<1>4. CASE \E h \in SlackHandoffs, i \in Workers : SlackStep(h, i)
  <2> SUFFICES ASSUME NEW h \in SlackHandoffs, NEW i \in Workers, SlackStep(h, i) PROVE TypeInv'
    BY <1>4
  <2>0. /\ wpc \in [Handoffs -> [Workers -> Places]] /\ record \in [Handoffs -> Statuses]
        /\ env \in EnvFiles /\ {env[TOKEN], env[ALLOWLIST]} \subseteq SlackHandoffs \union {None}
        /\ hat \in [Names -> Handoffs \union {None}]
        /\ hatlock \in (Persistent \X Workers) \union {None} /\ privateKey \in [Handoffs -> BOOLEAN]
        /\ troubles \in 0 .. MaxTroubles /\ h \in Handoffs
    BY DEF TypeInv, SecretTypeOK, Places, Statuses, EnvFiles, Handoffs, OneTime
  <2>1. CASE ValidateSlack(h, i)
    <3>1. wpc' \in [Handoffs -> [Workers -> Places]]
      BY <2>1, <2>0, OneWorkerMoves DEF ValidateSlack, Places, handoffVars, ceremony, slackVars, NoTrouble, Trouble
    <3>2. record' \in [Handoffs -> Statuses]
      BY <2>1, <2>0, ClaimMoves DEF ValidateSlack, Statuses, handoffVars, ceremony, slackVars, NoTrouble, Trouble
    <3>3. env' \in EnvFiles /\ {env'[TOKEN], env'[ALLOWLIST]} \subseteq SlackHandoffs \union {None}
      BY <2>1, <2>0, AskedNames, HandoffsAssumption DEF ValidateSlack, handoffVars, ceremony, slackVars, NoTrouble, Trouble, EnvFiles, TOKEN, ALLOWLIST, SlackNames, Handoffs, OneTime, Persistent
    <3>4. hat' \in [Names -> Handoffs \union {None}]
      BY <2>1, <2>0, AskedNames DEF ValidateSlack, handoffVars, ceremony, slackVars, NoTrouble, Trouble
    <3>5. hatlock' \in (Persistent \X Workers) \union {None} /\ privateKey' \in [Handoffs -> BOOLEAN]
      BY <2>1, <2>0 DEF ValidateSlack, handoffVars, ceremony, slackVars, NoTrouble, Trouble
    <3>6. troubles' \in 0 .. MaxTroubles
      BY <2>1, <2>0, HandoffsAssumption DEF ValidateSlack, handoffVars, ceremony, slackVars, NoTrouble, Trouble
    <3> QED
      BY <2>1, <3>1, <3>2, <3>3, <3>4, <3>5, <3>6 DEF ValidateSlack, TypeInv, SecretTypeOK, Places, Statuses, EnvFiles, handoffVars, ceremony, slackVars, NoTrouble, Trouble, BesideSlack
  <2>2. CASE SaveSlack(h, i)
    <3>1. wpc' \in [Handoffs -> [Workers -> Places]]
      BY <2>2, <2>0, OneWorkerMoves DEF SaveSlack, Places, handoffVars, ceremony, slackVars, NoTrouble, Trouble
    <3>2. record' \in [Handoffs -> Statuses]
      BY <2>2, <2>0, ClaimMoves DEF SaveSlack, Statuses, handoffVars, ceremony, slackVars, NoTrouble, Trouble
    <3>3. env' \in EnvFiles /\ {env'[TOKEN], env'[ALLOWLIST]} \subseteq SlackHandoffs \union {None}
      BY <2>2, <2>0, AskedNames, HandoffsAssumption DEF SaveSlack, handoffVars, ceremony, slackVars, NoTrouble, Trouble, EnvFiles, TOKEN, ALLOWLIST, SlackNames, Handoffs, OneTime, Persistent
    <3>4. hat' \in [Names -> Handoffs \union {None}]
      BY <2>2, <2>0, AskedNames DEF SaveSlack, handoffVars, ceremony, slackVars, NoTrouble, Trouble
    <3>5. hatlock' \in (Persistent \X Workers) \union {None} /\ privateKey' \in [Handoffs -> BOOLEAN]
      BY <2>2, <2>0 DEF SaveSlack, handoffVars, ceremony, slackVars, NoTrouble, Trouble
    <3>6. troubles' \in 0 .. MaxTroubles
      BY <2>2, <2>0, HandoffsAssumption DEF SaveSlack, handoffVars, ceremony, slackVars, NoTrouble, Trouble
    <3> QED
      BY <2>2, <3>1, <3>2, <3>3, <3>4, <3>5, <3>6 DEF SaveSlack, TypeInv, SecretTypeOK, Places, Statuses, EnvFiles, handoffVars, ceremony, slackVars, NoTrouble, Trouble, BesideSlack
  <2>3. CASE GreetOwner(h, i)
    <3>1. wpc' \in [Handoffs -> [Workers -> Places]]
      BY <2>3, <2>0, OneWorkerMoves DEF GreetOwner, Places, handoffVars, ceremony, slackVars, NoTrouble, Trouble
    <3>2. record' \in [Handoffs -> Statuses]
      BY <2>3, <2>0, ClaimMoves DEF GreetOwner, Statuses, handoffVars, ceremony, slackVars, NoTrouble, Trouble
    <3>3. env' \in EnvFiles /\ {env'[TOKEN], env'[ALLOWLIST]} \subseteq SlackHandoffs \union {None}
      BY <2>3, <2>0, AskedNames, HandoffsAssumption DEF GreetOwner, handoffVars, ceremony, slackVars, NoTrouble, Trouble, EnvFiles, TOKEN, ALLOWLIST, SlackNames, Handoffs, OneTime, Persistent
    <3>4. hat' \in [Names -> Handoffs \union {None}]
      BY <2>3, <2>0, AskedNames DEF GreetOwner, handoffVars, ceremony, slackVars, NoTrouble, Trouble
    <3>5. hatlock' \in (Persistent \X Workers) \union {None} /\ privateKey' \in [Handoffs -> BOOLEAN]
      BY <2>3, <2>0 DEF GreetOwner, handoffVars, ceremony, slackVars, NoTrouble, Trouble
    <3>6. troubles' \in 0 .. MaxTroubles
      BY <2>3, <2>0, HandoffsAssumption DEF GreetOwner, handoffVars, ceremony, slackVars, NoTrouble, Trouble
    <3> QED
      BY <2>3, <3>1, <3>2, <3>3, <3>4, <3>5, <3>6 DEF GreetOwner, TypeInv, SecretTypeOK, Places, Statuses, EnvFiles, handoffVars, ceremony, slackVars, NoTrouble, Trouble, BesideSlack
  <2>4. CASE RejectSlack(h, i)
    <3>1. wpc' \in [Handoffs -> [Workers -> Places]]
      <4>1. {"polling", "denying"} \subseteq Places
        BY DEF Places
      <4>2. \E place \in Places : wpc' = [wpc EXCEPT ![h][i] = place]
        BY <2>4, <4>1 DEF RejectSlack, GoesTo
      <4> QED
        BY <2>0, <4>2
    <3>2. record' \in [Handoffs -> Statuses]
      BY <2>4, <2>0, ClaimMoves DEF RejectSlack, Statuses, handoffVars, ceremony, slackVars, NoTrouble, Trouble
    <3>3. env' \in EnvFiles /\ {env'[TOKEN], env'[ALLOWLIST]} \subseteq SlackHandoffs \union {None}
      BY <2>4, <2>0, AskedNames, HandoffsAssumption DEF RejectSlack, handoffVars, ceremony, slackVars, NoTrouble, Trouble, EnvFiles, TOKEN, ALLOWLIST, SlackNames, Handoffs, OneTime, Persistent
    <3>4. hat' \in [Names -> Handoffs \union {None}]
      BY <2>4, <2>0, AskedNames DEF RejectSlack, handoffVars, ceremony, slackVars, NoTrouble, Trouble
    <3>5. hatlock' \in (Persistent \X Workers) \union {None} /\ privateKey' \in [Handoffs -> BOOLEAN]
      BY <2>4, <2>0 DEF RejectSlack, handoffVars, ceremony, slackVars, NoTrouble, Trouble
    <3>6. troubles' \in 0 .. MaxTroubles
      BY <2>4, <2>0, HandoffsAssumption DEF RejectSlack, handoffVars, ceremony, slackVars, NoTrouble, Trouble
    <3> QED
      BY <2>4, <3>1, <3>2, <3>3, <3>4, <3>5, <3>6 DEF RejectSlack, TypeInv, SecretTypeOK, Places, Statuses, EnvFiles, handoffVars, ceremony, slackVars, NoTrouble, Trouble, BesideSlack
  <2> QED
    BY <2>1, <2>2, <2>3, <2>4 DEF SlackStep
<1>5. CASE RemovalStep
  <2>1. CASE StartDisconnect
    BY <2>1, HandoffsAssumption DEF StartDisconnect, TOKEN, ALLOWLIST, SlackNames, Unread, TypeInv, SecretTypeOK, BesideSlack, handoffVars, ceremony, slackVars, NoTrouble, Trouble
  <2>2. CASE OwnerConfirms
    BY <2>2, HandoffsAssumption DEF OwnerConfirms, TOKEN, ALLOWLIST, SlackNames, Unread, TypeInv, SecretTypeOK, BesideSlack, handoffVars, ceremony, slackVars, NoTrouble, Trouble
  <2>3. CASE RemovalExpires
    BY <2>3, HandoffsAssumption DEF RemovalExpires, TOKEN, ALLOWLIST, SlackNames, Unread, TypeInv, SecretTypeOK, BesideSlack, handoffVars, ceremony, slackVars, NoTrouble, Trouble
  <2>4. CASE GatewayRestarts
    BY <2>4, HandoffsAssumption DEF GatewayRestarts, TOKEN, ALLOWLIST, SlackNames, Unread, TypeInv, SecretTypeOK, BesideSlack, handoffVars, ceremony, slackVars, NoTrouble, Trouble
  <2>5. CASE DisconnectPolls
    BY <2>5, HandoffsAssumption DEF DisconnectPolls, TOKEN, ALLOWLIST, SlackNames, Unread, TypeInv, SecretTypeOK, BesideSlack, handoffVars, ceremony, slackVars, NoTrouble, Trouble
  <2>6. CASE RevokeSlack
    BY <2>6, HandoffsAssumption DEF RevokeSlack, TOKEN, ALLOWLIST, SlackNames, Unread, TypeInv, SecretTypeOK, BesideSlack, handoffVars, ceremony, slackVars, NoTrouble, Trouble
  <2>7. CASE ReadEnvFile
    BY <2>7, HandoffsAssumption DEF ReadEnvFile, TOKEN, ALLOWLIST, SlackNames, Unread, TypeInv, SecretTypeOK, BesideSlack, handoffVars, ceremony, slackVars, NoTrouble, Trouble
  <2>8. CASE RewriteEnvFile
    BY <2>8, HandoffsAssumption DEF RewriteEnvFile, TOKEN, ALLOWLIST, SlackNames, Unread, TypeInv, SecretTypeOK, BesideSlack, handoffVars, ceremony, slackVars, NoTrouble, Trouble
  <2>9. CASE CheckAbsence
    BY <2>9, HandoffsAssumption DEF CheckAbsence, TOKEN, ALLOWLIST, SlackNames, Unread, TypeInv, SecretTypeOK, BesideSlack, handoffVars, ceremony, slackVars, NoTrouble, Trouble
  <2>10. CASE ReportDisconnect
    BY <2>10, HandoffsAssumption DEF ReportDisconnect, TOKEN, ALLOWLIST, SlackNames, Unread, TypeInv, SecretTypeOK, BesideSlack, handoffVars, ceremony, slackVars, NoTrouble, Trouble
  <2>11. CASE DisconnectExpires
    BY <2>11, HandoffsAssumption DEF DisconnectExpires, TOKEN, ALLOWLIST, SlackNames, Unread, TypeInv, SecretTypeOK, BesideSlack, handoffVars, ceremony, slackVars, NoTrouble, Trouble
  <2>12. CASE DisconnectDies
    BY <2>12, HandoffsAssumption DEF DisconnectDies, TOKEN, ALLOWLIST, SlackNames, Unread, TypeInv, SecretTypeOK, BesideSlack, handoffVars, ceremony, slackVars, NoTrouble, Trouble
  <2> QED
    BY <2>1, <2>2, <2>3, <2>4, <2>5, <2>6, <2>7, <2>8, <2>9, <2>10, <2>11, <2>12, <1>5 DEF RemovalStep, DisconnectStep
<1> QED
  BY <1>1, <1>2, <1>3, <1>4, <1>5, StepKinds DEF TypeInv, SecretTypeOK

-----------------------------------------------------------------------------
(* Keys.                                                                   *)

\* What is true of a worker's step, whatever it does: it moves a worker that was
\* started, it opens no handoff, and it leaves no key behind when it ends.
OneMove(h, i) ==
  /\ wpc[h][i] # "none" /\ wpc'[h][i] # "none"
  /\ \A g \in Handoffs, j \in Workers : g # h \/ j # i => wpc'[g][j] = wpc[g][j]
  /\ \A g \in Handoffs : record'[g] = "none" <=> record[g] = "none"
  /\ starting' = starting
  /\ \A g \in Handoffs : privateKey'[g] => privateKey[g]
  /\ wpc'[h][i] = "done" => h \in Persistent \/ ~privateKey'[h]

\* No worker's step moves another one, or ends with its key left behind.
LEMMA WorkerMoves ==
  ASSUME TypeInv, NEW h \in Handoffs, NEW i \in Workers,
         AnyWorkerStep(h, i) \/ SlackStep(h, i)
  PROVE  OneMove(h, i)
<1>0. /\ wpc \in [Handoffs -> [Workers -> Places]] /\ record \in [Handoffs -> Statuses]
      /\ env \in EnvFiles /\ {env[TOKEN], env[ALLOWLIST]} \subseteq SlackHandoffs \union {None}
      /\ hat \in [Names -> Handoffs \union {None}]
      /\ hatlock \in (Persistent \X Workers) \union {None} /\ privateKey \in [Handoffs -> BOOLEAN]
      /\ troubles \in 0 .. MaxTroubles /\ h \in Handoffs
  BY DEF TypeInv, SecretTypeOK, Places, Statuses, EnvFiles, Handoffs, OneTime
<1>1. CASE WorkerReadsKey(h, i)
  BY <1>0, <1>1, OneWorkerMoves, ClaimMoves DEF WorkerReadsKey, OneMove, At, Places, Statuses
<1>2. CASE WorkerLocks(h, i)
  BY <1>0, <1>2, OneWorkerMoves, ClaimMoves DEF WorkerLocks, OneMove, At, Places, Statuses
<1>3. CASE WorkerPolls(h, i)
  BY <1>0, <1>3, OneWorkerMoves, ClaimMoves DEF WorkerPolls, OneMove, At, Places, Statuses
<1>4. CASE InstallSecret(h, i)
  BY <1>0, <1>4, OneWorkerMoves, ClaimMoves DEF InstallSecret, OneMove, At, Places, Statuses
<1>5. CASE InstallHatSecret(h, i)
  BY <1>0, <1>5, OneWorkerMoves, ClaimMoves DEF InstallHatSecret, OneMove, At, Places, Statuses
<1>6. CASE InstallBundle(h, i)
  BY <1>0, <1>6, OneWorkerMoves, ClaimMoves DEF InstallBundle, OneMove, At, Places, Statuses
<1>7. CASE InstallTransfer(h, i)
  BY <1>0, <1>7, OneWorkerMoves, ClaimMoves DEF InstallTransfer, OneMove, At, Places, Statuses
<1>8. CASE InstallFails(h, i)
  BY <1>0, <1>8, OneWorkerMoves, ClaimMoves DEF InstallFails, OneMove, At, Places, Statuses
<1>9. CASE WorkerClaims(h, i)
  BY <1>0, <1>9, OneWorkerMoves, ClaimMoves DEF WorkerClaims, OneMove, At, Places, Statuses
<1>10. CASE WorkerDenies(h, i)
  BY <1>0, <1>10, OneWorkerMoves, ClaimMoves DEF WorkerDenies, OneMove, At, Places, Statuses
<1>11. CASE WorkerEnds(h, i)
  BY <1>0, <1>11, OneWorkerMoves, ClaimMoves DEF WorkerEnds, OneMove, At, Places, Statuses
<1>12. CASE WorkerExpires(h, i)
  BY <1>0, <1>12, OneWorkerMoves, ClaimMoves DEF WorkerExpires, OneMove, At, Places, Statuses
<1>13. CASE WorkerDies(h, i)
  BY <1>0, <1>13, OneWorkerMoves, ClaimMoves DEF WorkerDies, OneMove, At, Places, Statuses
<1>14. CASE ValidateSlack(h, i)
  BY <1>0, <1>14, OneWorkerMoves, ClaimMoves DEF ValidateSlack, OneMove, At, Places, Statuses
<1>15. CASE SaveSlack(h, i)
  BY <1>0, <1>15, OneWorkerMoves, ClaimMoves DEF SaveSlack, OneMove, At, Places, Statuses, Writing
<1>16. CASE GreetOwner(h, i)
  BY <1>0, <1>16, OneWorkerMoves, ClaimMoves DEF GreetOwner, OneMove, At, Places, Statuses
<1>17. CASE RejectSlack(h, i)
  <2>1. {"polling", "denying"} \subseteq Places
    BY DEF Places
  <2>2. \E place \in {"polling", "denying"} : GoesTo(h, i, place)
    BY <1>17 DEF RejectSlack, GoesTo
  <2> QED
    BY <1>0, <1>17, <2>1, <2>2, OneWorkerMoves, ClaimMoves DEF RejectSlack, OneMove, At, Statuses
<1> QED
  BY <1>1, <1>2, <1>3, <1>4, <1>5, <1>6, <1>7, <1>8, <1>9, <1>10, <1>11, <1>12, <1>13, <1>14, <1>15, <1>16, <1>17 DEF AnyWorkerStep, WorkerStep, SlackStep

\* What was never requested is not being started and has no worker.
StartInv ==
  \A h \in Handoffs : record[h] = "none" =>
    starting # h /\ \A i \in Workers : wpc[h][i] = "none"

\* A Hat's handoff has no key of its own.
KeyInv == KeyHasAWorker /\ \A h \in Persistent : ~privateKey[h]

\* A removal's step leaves the ceremonies alone.
LEMMA RemovalMoves ==
  ASSUME RemovalStep
  PROVE  UNCHANGED ceremony
BY DEF RemovalStep, DisconnectStep, StartDisconnect, OwnerConfirms, RemovalExpires,
       GatewayRestarts, DisconnectPolls, RevokeSlack, ReadEnvFile, RewriteEnvFile,
       CheckAbsence, ReportDisconnect, DisconnectExpires, DisconnectDies, handoffVars

\* Every step keeps StartInv.
LEMMA StartInvStep ==
  ASSUME TypeInv, StartInv, [SlackNext]_slackAllVars
  PROVE  StartInv'
<1>0. OneTime \subseteq Handoffs /\ SlackHandoffs \subseteq Handoffs /\ None \notin Handoffs
  BY HandoffsAssumption DEF Handoffs, OneTime
<1>1. CASE UNCHANGED ceremony
  BY <1>1 DEF StartInv, ceremony
<1>2. CASE \E h \in Handoffs : ToolStep(h)
  <2> SUFFICES ASSUME NEW h \in Handoffs, ToolStep(h) PROVE StartInv'
    BY <1>2
  <2>0. record \in [Handoffs -> Statuses] /\ wpc \in [Handoffs -> [Workers -> Places]]
    BY DEF TypeInv, SecretTypeOK, Statuses, Places
  <2>1. CASE Submit(h)
    BY <2>0, <2>1, <1>0 DEF Submit, StartInv
  <2>2. CASE Expire(h)
    BY <2>0, <2>2, <1>0 DEF Expire, Open, StartInv
  <2>3. CASE RequestHandoff(h)
    BY <2>0, <2>3, <1>0 DEF RequestHandoff, Requests, StartInv
  <2>4. CASE RequestForHat(h)
    <3>1. h \notin OneTime
      BY <2>4, HandoffsAssumption DEF RequestForHat
    <3> QED
      BY <2>0, <2>4, <3>1, <1>0 DEF RequestForHat, Requests, AlreadyOpen, StartInv
  <2>5. CASE WriteKey(h) \/ StartWorker(h) \/ PluginDies(h)
    <3>1. \A g \in Handoffs, j \in Workers : g # h => wpc'[g][j] = wpc[g][j]
      BY <2>0, <2>5 DEF WriteKey, StartWorker, PluginDies, GoesTo
    <3>2. starting = h /\ starting' \in {starting, None} /\ record' = record
      BY <2>5 DEF WriteKey, StartWorker, PluginDies
    <3> QED
      BY <1>0, <3>1, <3>2 DEF StartInv
  <2> QED
    BY <2>1, <2>2, <2>3, <2>4, <2>5 DEF ToolStep
<1>3. ASSUME NEW h \in Handoffs, NEW i \in Workers, OneMove(h, i) PROVE StartInv'
  BY <1>0, <1>3 DEF OneMove, StartInv
<1> QED
  BY <1>0, <1>1, <1>2, <1>3, StepKinds, WorkerMoves, RemovalMoves
  DEF TypeInv, SecretTypeOK, slackAllVars, handoffVars

\* Every step keeps KeyInv: a key comes with a worker, and whoever ends takes it.
LEMMA KeyInvStep ==
  ASSUME TypeInv, StartInv, KeyInv, [SlackNext]_slackAllVars
  PROVE  KeyInv'
<1>0. /\ OneTime \subseteq Handoffs /\ SlackHandoffs \subseteq Handoffs
      /\ Persistent \subseteq Handoffs /\ Persistent \intersect OneTime = {}
  BY HandoffsAssumption DEF Handoffs, OneTime
<1>1. CASE UNCHANGED ceremony
  BY <1>1 DEF KeyInv, KeyHasAWorker, Started, ceremony
<1>2. CASE \E h \in Handoffs : ToolStep(h)
  <2> SUFFICES ASSUME NEW h \in Handoffs, ToolStep(h) PROVE KeyInv'
    BY <1>2
  <2>0. wpc \in [Handoffs -> [Workers -> Places]] /\ privateKey \in [Handoffs -> BOOLEAN]
    BY DEF TypeInv, SecretTypeOK, Places
  <2> DEFINE Kept(g) == privateKey[g] =>
               \/ starting = g /\ \A j \in Workers : wpc[g][j] = "none"
               \/ \E j \in Workers : wpc[g][j] \notin {"none", "done"}
  <2>1. KeyInv <=> \A g \in Handoffs : Kept(g) /\ (g \in Persistent => ~privateKey[g])
    BY <1>0 DEF KeyInv, KeyHasAWorker, Started
  <2>2. KeyInv' <=> \A g \in Handoffs : Kept(g)' /\ (g \in Persistent => ~privateKey'[g])
    BY <1>0 DEF KeyInv, KeyHasAWorker, Started
  <2>3. CASE Submit(h) \/ Expire(h)
    BY <2>1, <2>2, <2>3 DEF Submit, Expire
  <2>4. CASE RequestHandoff(h) \/ RequestForHat(h)
    <3>1. starting = None /\ UNCHANGED <<privateKey, wpc>>
      BY <2>4 DEF RequestHandoff, RequestForHat
    <3> QED
      BY <2>1, <2>2, <3>1, HandoffsAssumption
  <2>5. CASE WriteKey(h) \/ StartWorker(h) \/ PluginDies(h)
    <3>1. \A g \in Handoffs \ {h} : privateKey'[g] = privateKey[g] /\ wpc'[g] = wpc[g]
      BY <2>0, <2>5 DEF WriteKey, StartWorker, PluginDies, GoesTo
    <3>2. starting = h /\ (privateKey'[h] => privateKey[h] \/ h \in OneTime)
      BY <2>0, <2>5 DEF WriteKey, StartWorker, PluginDies
    <3>3. Kept(h)'
      <4>1. CASE WriteKey(h)
        <5>1. \A j \in Workers : wpc[h][j] = "none"
          BY <4>1 DEF WriteKey, Started
        <5>2. CASE UNCHANGED <<starting, wpc>>
          BY <3>2, <5>1, <5>2
        <5>3. CASE GoesTo(h, 1, "unstarted")
          BY <2>0, <5>3 DEF GoesTo, Workers
        <5> QED
          BY <4>1, <5>2, <5>3 DEF WriteKey
      <4>2. CASE StartWorker(h)
        <5>1. CASE \E i \in Workers : GoesTo(h, i, "started")
          BY <2>0, <5>1 DEF GoesTo
        <5>2. CASE privateKey' = [privateKey EXCEPT ![h] = FALSE]
          BY <2>0, <5>2
        <5> QED
          BY <4>2, <5>1, <5>2 DEF StartWorker, Workers
      <4>3. CASE PluginDies(h)
        <5>1. CASE GoesTo(h, 1, "unstarted")
          BY <2>0, <5>1 DEF GoesTo, Workers
        <5>2. CASE UNCHANGED wpc /\ ~(h \in OneTime /\ Started(h) = {})
          <6>1. h \notin OneTime => ~privateKey'[h]
            BY <1>0, <2>1, <4>3 DEF PluginDies, Handoffs
          <6>2. Started(h) # {} => Kept(h)'
            BY <2>1, <4>3, <5>2 DEF PluginDies, Started
          <6> QED
            BY <5>2, <6>1, <6>2
        <5> QED
          BY <4>3, <5>1, <5>2 DEF PluginDies
      <4> QED
        BY <2>5, <4>1, <4>2, <4>3
    <3>4. \A g \in Handoffs \ {h} : Kept(g)'
      BY <2>1, <3>1, <3>2
    <3> QED
      BY <1>0, <2>1, <2>2, <3>1, <3>2, <3>3, <3>4
  <2> QED
    BY <2>3, <2>4, <2>5 DEF ToolStep
<1>3. ASSUME NEW h \in Handoffs, NEW i \in Workers, OneMove(h, i) PROVE KeyInv'
  <2>1. \A g \in Persistent : ~privateKey'[g]
    BY <1>0, <1>3 DEF OneMove, KeyInv
  <2>2. ASSUME NEW g \in Handoffs, privateKey'[g]
        PROVE  \/ starting' = g /\ Started(g)' = {}
               \/ \E j \in Workers : wpc'[g][j] \notin {"none", "done"}
    <3>1. CASE starting = g /\ Started(g) = {}
      <4>1. h # g /\ starting' = starting
        BY <1>3, <3>1 DEF OneMove, Started
      <4> QED
        BY <1>3, <3>1, <4>1 DEF OneMove, Started
    <3>2. ASSUME NEW j \in Workers, wpc[g][j] \notin {"none", "done"}, g # h \/ j # i
          PROVE  wpc'[g][j] \notin {"none", "done"}
      BY <1>3, <3>2 DEF OneMove
    <3>3. ASSUME wpc[g][i] \notin {"none", "done"}, g = h
          PROVE  wpc'[g][i] \notin {"none", "done"}
      BY <1>3, <2>1, <2>2, <3>3 DEF OneMove
    <3> QED
      BY <1>3, <2>2, <3>1, <3>2, <3>3 DEF OneMove, KeyInv, KeyHasAWorker
  <2> QED
    BY <2>1, <2>2 DEF KeyInv, KeyHasAWorker
<1> QED
  BY <1>0, <1>1, <1>2, <1>3, StepKinds, WorkerMoves, RemovalMoves
  DEF TypeInv, SecretTypeOK, slackAllVars, handoffVars

-----------------------------------------------------------------------------
(* Values.                                                                 *)

Landed(p) == p \notin {"saving", "saving_token", "verifying", "greeting", "claiming"}

\* Between its reading and its writing of the env file a removal has the values
\* that are there, and no Slack connection is being saved; a token follows its
\* allowlist.
BundleInv ==
  /\ dpc = "rewriting" =>
       /\ \A n \in Names : envPage[n] = env[n]
       /\ \A h \in SlackHandoffs, i \in Workers : Landed(wpc[h][i])
  /\ \A h \in SlackHandoffs, i \in Workers :
       wpc[h][i] = "saving_token" => env[ALLOWLIST] # None
  /\ env[TOKEN] # None => env[ALLOWLIST] # None

HatSaved(h) == \A n \in NamesOf[h] : hat[n] # None
Saved(h) ==
  /\ h \in Secrets \union Required \union Transfers => \A n \in NamesOf[h] : env[n] # None
  /\ h \in HatSecrets \union Bundles \union Transfers => HatSaved(h)

\* Who claims has saved, and who copies or records has the Hat's part of it.
SavedInv ==
  \A h \in Handoffs \ SlackHandoffs :
    /\ record[h] = "claimed" => Saved(h)
    /\ \A i \in Workers :
         /\ wpc[h][i] = "claiming" => Saved(h)
         /\ wpc[h][i] \in {"copying", "recording"} => HatSaved(h)

ValueInv == ~overlap => BundleInv /\ SavedInv

\* A credential that is saved stays saved.
ValuesStay ==
  /\ \A n \in Names : env[n] # None => env'[n] # None
  /\ \A n \in Names : hat[n] # None => hat'[n] # None

\* Nothing of Slack is being saved when no ceremony is in flight.
LEMMA NothingInFlight ==
  ASSUME InFlight = {}
  PROVE  \A h \in SlackHandoffs, i \in Workers : Landed(wpc[h][i])
<1> SUFFICES ASSUME NEW h \in SlackHandoffs, NEW i \in Workers, ~Landed(wpc[h][i]) PROVE FALSE
  OBVIOUS
<1>1. <<h, i>> \in InFlight
  BY DEF InFlight, Landed, Writing
<1> QED
  BY <1>1

\* What a worker's step does to the values, beside Slack.
BesideMove(h, i) ==
  /\ ValuesStay
  /\ env'[TOKEN] = env[TOKEN] /\ env'[ALLOWLIST] = env[ALLOWLIST]
  /\ h \in SlackHandoffs => Landed(wpc'[h][i])

\* A worker's step that saves nothing of Slack's leaves values in place.
LEMMA BesideMoves ==
  ASSUME TypeInv, NEW h \in Handoffs, NEW i \in Workers, AnyWorkerStep(h, i)
  PROVE  BesideMove(h, i)
<1>0. /\ wpc \in [Handoffs -> [Workers -> Places]] /\ env \in EnvFiles
      /\ hat \in [Names -> Handoffs \union {None}] /\ None \notin Handoffs
  BY HandoffsAssumption DEF TypeInv, SecretTypeOK, Places, EnvFiles
<1>1. CASE WorkerReadsKey(h, i)
  BY <1>0, <1>1, OneWorkerMoves DEF WorkerReadsKey, BesideMove, ValuesStay, At, Landed, Places
<1>2. CASE WorkerLocks(h, i)
  BY <1>0, <1>2, OneWorkerMoves DEF WorkerLocks, BesideMove, ValuesStay, At, Landed, Places
<1>3. CASE WorkerPolls(h, i)
  BY <1>0, <1>3, OneWorkerMoves DEF WorkerPolls, BesideMove, ValuesStay, At, Landed, Places
<1>4. CASE InstallSecret(h, i)
  <2>1. ValuesStay /\ env'[TOKEN] = env[TOKEN] /\ env'[ALLOWLIST] = env[ALLOWLIST]
    BY <1>0, <1>4, AskedNames, HandoffsAssumption
    DEF InstallSecret, ValuesStay, EnvFiles, TOKEN, ALLOWLIST, SlackNames, OneTime, Persistent
  <2>2. h \notin SlackHandoffs
    BY <1>4, HandoffsAssumption DEF InstallSecret, OneTime, Persistent
  <2> QED
    BY <2>1, <2>2 DEF BesideMove
<1>5. CASE InstallHatSecret(h, i)
  <2>1. ValuesStay /\ env'[TOKEN] = env[TOKEN] /\ env'[ALLOWLIST] = env[ALLOWLIST]
    BY <1>0, <1>5, AskedNames, HandoffsAssumption
    DEF InstallHatSecret, ValuesStay, EnvFiles, TOKEN, ALLOWLIST, SlackNames, OneTime, Persistent
  <2>2. h \notin SlackHandoffs
    BY <1>5, HandoffsAssumption DEF InstallHatSecret, OneTime, Persistent
  <2> QED
    BY <2>1, <2>2 DEF BesideMove
<1>6. CASE InstallBundle(h, i)
  <2>1. ValuesStay /\ env'[TOKEN] = env[TOKEN] /\ env'[ALLOWLIST] = env[ALLOWLIST]
    BY <1>0, <1>6, AskedNames, HandoffsAssumption
    DEF InstallBundle, ValuesStay, EnvFiles, TOKEN, ALLOWLIST, SlackNames, OneTime, Persistent
  <2>2. h \notin SlackHandoffs
    BY <1>6, HandoffsAssumption DEF InstallBundle, OneTime, Persistent
  <2> QED
    BY <2>1, <2>2 DEF BesideMove
<1>7. CASE InstallTransfer(h, i)
  <2>1. ValuesStay /\ env'[TOKEN] = env[TOKEN] /\ env'[ALLOWLIST] = env[ALLOWLIST]
    BY <1>0, <1>7, AskedNames, HandoffsAssumption
    DEF InstallTransfer, ValuesStay, EnvFiles, TOKEN, ALLOWLIST, SlackNames, OneTime, Persistent
  <2>2. h \notin SlackHandoffs
    BY <1>7, HandoffsAssumption DEF InstallTransfer, OneTime, Persistent
  <2> QED
    BY <2>1, <2>2 DEF BesideMove
<1>8. CASE InstallFails(h, i)
  BY <1>0, <1>8, OneWorkerMoves DEF InstallFails, BesideMove, ValuesStay, At, Landed, Places
<1>9. CASE WorkerClaims(h, i)
  BY <1>0, <1>9, OneWorkerMoves DEF WorkerClaims, BesideMove, ValuesStay, At, Landed, Places
<1>10. CASE WorkerDenies(h, i)
  BY <1>0, <1>10, OneWorkerMoves DEF WorkerDenies, BesideMove, ValuesStay, At, Landed, Places
<1>11. CASE WorkerEnds(h, i)
  BY <1>0, <1>11, OneWorkerMoves DEF WorkerEnds, BesideMove, ValuesStay, At, Landed, Places
<1>12. CASE WorkerExpires(h, i)
  BY <1>0, <1>12, OneWorkerMoves DEF WorkerExpires, BesideMove, ValuesStay, At, Landed, Places
<1>13. CASE WorkerDies(h, i)
  BY <1>0, <1>13, OneWorkerMoves DEF WorkerDies, BesideMove, ValuesStay, At, Landed, Places
<1> QED
  BY <1>1, <1>2, <1>3, <1>4, <1>5, <1>6, <1>7, <1>8, <1>9, <1>10, <1>11, <1>12, <1>13 DEF AnyWorkerStep, WorkerStep

\* Every step keeps BundleInv, unless a removal and a save overlap.
LEMMA BundleInvStep ==
  ASSUME TypeInv, ~overlap', ~overlap => BundleInv, [SlackNext]_slackAllVars
  PROVE  BundleInv' /\ ~overlap
<1>0. /\ wpc \in [Handoffs -> [Workers -> Places]] /\ env \in EnvFiles
      /\ SlackHandoffs \subseteq Handoffs /\ None \notin Handoffs
      /\ TOKEN # ALLOWLIST /\ TOKEN \notin Names /\ ALLOWLIST \notin Names
      /\ {TOKEN, ALLOWLIST} = SlackNames /\ overlap \in BOOLEAN
  BY HandoffsAssumption DEF TypeInv, SecretTypeOK, Places, EnvFiles, Handoffs, OneTime,
                            TOKEN, ALLOWLIST, SlackNames
<1>1. CASE UNCHANGED slackAllVars
  BY <1>1 DEF BundleInv, slackAllVars, handoffVars, ceremony, slackVars
<1>2. CASE \E h \in Handoffs : ToolStep(h) /\ BesideSlack
  <2> SUFFICES ASSUME NEW h \in Handoffs, ToolStep(h), BesideSlack PROVE BundleInv' /\ ~overlap
    BY <1>2
  <2>1. ~overlap /\ UNCHANGED <<env, dpc, envPage>>
    BY DEF BesideSlack, ToolStep, Submit, Expire, RequestHandoff, RequestForHat, WriteKey, StartWorker, PluginDies
  <2>2. \A g \in Handoffs, j \in Workers : wpc'[g][j] \in {wpc[g][j], "started", "unstarted"}
    BY <1>0 DEF ToolStep, Submit, Expire, RequestHandoff, RequestForHat, WriteKey, StartWorker, PluginDies, GoesTo
  <2> QED
    BY <1>0, <2>1, <2>2 DEF BundleInv, Landed
<1>3. CASE \E h \in Handoffs, i \in Workers : AnyWorkerStep(h, i) /\ BesideSlack
  <2> SUFFICES ASSUME NEW h \in Handoffs, NEW i \in Workers, AnyWorkerStep(h, i), BesideSlack
               PROVE  BundleInv' /\ ~overlap
    BY <1>3
  <2>1. ~overlap /\ UNCHANGED <<dpc, envPage>> /\ (dpc = "rewriting" => env' = env)
    BY DEF BesideSlack
  <2>2. \A g \in SlackHandoffs, j \in Workers : wpc'[g][j] = wpc[g][j] \/ Landed(wpc'[g][j])
    BY <1>0, BesideMoves, WorkerMoves DEF BesideMove, OneMove
  <2> QED
    BY <1>0, <2>1, <2>2, BesideMoves DEF BesideMove, BundleInv, Landed
<1>4. CASE \E h \in SlackHandoffs, i \in Workers : SlackStep(h, i)
  <2> SUFFICES ASSUME NEW h \in SlackHandoffs, NEW i \in Workers, SlackStep(h, i)
               PROVE  BundleInv' /\ ~overlap
    BY <1>4
  <2>0. h \in Handoffs
    BY <1>0
  <2>1. CASE ValidateSlack(h, i)
    <3>1. ~overlap /\ UNCHANGED <<env, dpc, envPage>>
      <4>1. ~overlap
        BY <2>1, Zenon DEF ValidateSlack
      <4> QED
        BY <2>1, <4>1 DEF ValidateSlack
    <3>2. \A g \in SlackHandoffs, j \in Workers :
            wpc'[g][j] = wpc[g][j] \/ wpc'[g][j] \in {"saving", "rejecting", "denying"}
      BY <1>0, <2>0, <2>1, OneWorkerMoves DEF ValidateSlack, Places
    <3>3. dpc = "rewriting" => wpc'[h][i] \in {"rejecting", "denying"}
      <4>1. dpc = "rewriting" => \E place \in {"rejecting", "denying"} : GoesTo(h, i, place)
        BY <2>1, Zenon DEF ValidateSlack
      <4> QED
        BY <1>0, <2>0, <4>1, OneWorkerMoves DEF Places
    <3>4. \A g \in SlackHandoffs, j \in Workers : g # h \/ j # i => wpc'[g][j] = wpc[g][j]
      BY <2>0, WorkerMoves, <1>0 DEF OneMove
    <3> QED
      BY <1>0, <3>1, <3>2, <3>3, <3>4 DEF BundleInv, Landed
  <2>2. CASE SaveSlack(h, i)
    <3>1. ~overlap /\ BundleInv /\ UNCHANGED <<dpc, envPage>>
      BY <2>2 DEF SaveSlack, slackVars
    <3>2. dpc # "rewriting"
      BY <2>2, <3>1 DEF SaveSlack, BundleInv, Landed, Writing, At
    <3>3. CASE At(h, i, "saving") /\ GoesTo(h, i, "saving_token") /\ env' = [env EXCEPT ![ALLOWLIST] = h]
      <4>1. env'[ALLOWLIST] = h /\ env'[TOKEN] = env[TOKEN] /\ h # None
        BY <1>0, <2>0, <3>3 DEF EnvFiles
      <4> QED
        BY <3>1, <3>2, <4>1 DEF BundleInv
    <3>4. CASE At(h, i, "saving_token") /\ GoesTo(h, i, "verifying") /\ env' = [env EXCEPT ![TOKEN] = h]
      <4>1. env'[ALLOWLIST] = env[ALLOWLIST] /\ env[ALLOWLIST] # None
        BY <1>0, <3>1, <3>4 DEF EnvFiles, BundleInv, At
      <4> QED
        BY <3>1, <3>2, <4>1 DEF BundleInv
    <3>5. CASE /\ env' = env
               /\ GoesTo(h, i, "greeting") \/ GoesTo(h, i, "rejecting")
      <4>1. \A g \in SlackHandoffs, j \in Workers :
              wpc'[g][j] = wpc[g][j] \/ wpc'[g][j] \in {"greeting", "rejecting"}
        BY <1>0, <2>0, <3>5, OneWorkerMoves DEF Places
      <4> QED
        BY <3>1, <3>2, <3>5, <4>1 DEF BundleInv
    <3> QED
      BY <2>2, <3>3, <3>4, <3>5 DEF SaveSlack
  <2>3. CASE GreetOwner(h, i) \/ RejectSlack(h, i)
    <3>1. ~overlap /\ BundleInv /\ UNCHANGED <<env, dpc, envPage>>
      BY <2>3 DEF GreetOwner, RejectSlack, slackVars
    <3>2. /\ \A g \in SlackHandoffs, j \in Workers :
               g # h \/ j # i => wpc'[g][j] = wpc[g][j]
      BY <2>0, WorkerMoves, <1>0 DEF OneMove
    <3>3. \/ wpc[h][i] = "greeting" /\ wpc'[h][i] = "claiming"
          \/ wpc'[h][i] \in {"rejecting", "polling", "denying"}
      BY <1>0, <2>0, <2>3 DEF GreetOwner, RejectSlack, GoesTo, At
    <3> QED
      BY <3>1, <3>2, <3>3 DEF BundleInv, Landed
  <2> QED
    BY <2>1, <2>2, <2>3 DEF SlackStep
<1>5. CASE RemovalStep
  <2>1. wpc' = wpc
    BY <1>5, RemovalMoves DEF ceremony
  <2>2. CASE ReadEnvFile
    BY <2>1, <2>2, NothingInFlight DEF ReadEnvFile, BundleInv, handoffVars
  <2>3. CASE RewriteEnvFile
    <3>1. ~overlap /\ env'[TOKEN] = None /\ dpc' # "rewriting"
      BY <1>0, <2>3 DEF RewriteEnvFile, EnvFiles
    <3>2. \A h \in SlackHandoffs, i \in Workers : wpc[h][i] # "saving_token"
      BY <2>3, <3>1 DEF RewriteEnvFile, BundleInv, Landed
    <3> QED
      BY <2>1, <3>1, <3>2 DEF BundleInv
  <2>4. CASE ~ReadEnvFile /\ ~RewriteEnvFile
    <3>1. ~overlap /\ env' = env
      <4>1. CASE RevokeSlack
        <5>1. ~overlap
          BY <4>1, Zenon DEF RevokeSlack
        <5> QED
          BY <4>1, <5>1 DEF RevokeSlack
      <4>2. CASE ~RevokeSlack
        BY <1>5, <2>4, <4>2 DEF RemovalStep, DisconnectStep, StartDisconnect, OwnerConfirms,
             RemovalExpires, GatewayRestarts, DisconnectPolls, CheckAbsence,
             ReportDisconnect, DisconnectExpires, DisconnectDies, handoffVars
      <4> QED
        BY <4>1, <4>2
    <3>2. dpc' # "rewriting" \/ UNCHANGED <<dpc, envPage>>
      BY <1>5, <2>4 DEF RemovalStep, DisconnectStep, StartDisconnect, OwnerConfirms,
             RemovalExpires, GatewayRestarts, DisconnectPolls, RevokeSlack, CheckAbsence,
             ReportDisconnect, DisconnectExpires, DisconnectDies
    <3> QED
      BY <2>1, <3>1, <3>2 DEF BundleInv
  <2> QED
    BY <2>2, <2>3, <2>4
<1> QED
  BY <1>1, <1>2, <1>3, <1>4, <1>5, StepKinds DEF TypeInv, SecretTypeOK

\* What a worker's step leads to that a claim rests on.
InstallMove(h, i) ==
  /\ \A g \in Handoffs :
       record'[g] = "claimed" => record[g] = "claimed" \/ (g = h /\ wpc[h][i] = "claiming")
  /\ h \notin SlackHandoffs =>
       /\ wpc'[h][i] = "claiming" => Saved(h)'
       /\ wpc'[h][i] \in {"copying", "recording"} => HatSaved(h)'

\* What an installation's step saves, and where the worker is afterwards.
LEMMA InstallMoves ==
  ASSUME TypeInv, SavedInv, NEW h \in Handoffs, NEW i \in Workers, AnyWorkerStep(h, i)
  PROVE  InstallMove(h, i)
<1>0. /\ wpc \in [Handoffs -> [Workers -> Places]] /\ env \in EnvFiles
      /\ hat \in [Names -> Handoffs \union {None}] /\ None \notin Handoffs
      /\ record \in [Handoffs -> Statuses]
      /\ h \notin SlackHandoffs => NamesOf[h] \subseteq Names
  BY HandoffsAssumption, AskedNames DEF TypeInv, SecretTypeOK, Places, EnvFiles, Statuses
<1>1. CASE InstallSecret(h, i)
  <2>1. h \notin SlackHandoffs \union HatSecrets \union Bundles \union Transfers
    BY <1>1, HandoffsAssumption DEF InstallSecret, OneTime, Persistent
  <2>2. \A n \in NamesOf[h] : env'[n] = h
    BY <1>0, <1>1, <2>1 DEF InstallSecret, EnvFiles
  <2>3. wpc'[h][i] = "claiming" /\ record' = record
    BY <1>0, <1>1, OneWorkerMoves DEF InstallSecret, Places
  <2> QED
    BY <1>0, <2>1, <2>2, <2>3 DEF InstallMove, Saved
<1>2. CASE InstallHatSecret(h, i)
  <2>1. h \notin SlackHandoffs \union Secrets \union Required \union Transfers
    BY <1>2, HandoffsAssumption DEF InstallHatSecret, OneTime, Persistent
  <2>2. CASE At(h, i, "installing")
    <3>1. \A n \in NamesOf[h] : hat'[n] = h
      BY <1>0, <1>2, <2>1, <2>2 DEF InstallHatSecret, At
    <3>2. wpc'[h][i] = "recording" /\ record' = record
      BY <1>0, <1>2, <2>2, OneWorkerMoves DEF InstallHatSecret, At, Places
    <3> QED
      BY <1>0, <3>1, <3>2 DEF InstallMove, HatSaved
  <2>3. CASE At(h, i, "recording")
    <3>1. HatSaved(h)'
      BY <1>2, <2>1, <2>3 DEF InstallHatSecret, At, SavedInv, HatSaved
    <3>2. wpc'[h][i] = "claiming" /\ record' = record
      BY <1>0, <1>2, <2>3, OneWorkerMoves DEF InstallHatSecret, At, Places
    <3> QED
      BY <2>1, <3>1, <3>2 DEF InstallMove, Saved
  <2> QED
    BY <1>2, <2>2, <2>3 DEF InstallHatSecret
<1>3. CASE InstallBundle(h, i)
  <2>1. h \notin SlackHandoffs \union Secrets \union Required \union Transfers
    BY <1>3, HandoffsAssumption DEF InstallBundle, OneTime, Persistent
  <2>2. CASE GoesTo(h, i, "denying") /\ record' = record
    BY <1>0, <2>2, OneWorkerMoves DEF InstallMove, Places
  <2>3. CASE /\ GoesTo(h, i, "claiming") /\ record' = record
             /\ \E submitted \in SUBSET NamesOf[h] :
                  /\ \A n \in NamesOf[h] \ submitted : hat[n] # None
                  /\ hat' = [n \in Names |-> IF n \in submitted THEN h ELSE hat[n]]
    <3>1. HatSaved(h)'
      BY <1>0, <2>1, <2>3 DEF HatSaved
    <3>2. wpc'[h][i] = "claiming"
      BY <1>0, <2>3, OneWorkerMoves DEF Places
    <3> QED
      BY <2>1, <2>3, <3>1, <3>2 DEF InstallMove, Saved
  <2> QED
    BY <1>3, <2>2, <2>3 DEF InstallBundle
<1>4. CASE InstallTransfer(h, i)
  <2>1. h \notin SlackHandoffs
    BY <1>4, HandoffsAssumption DEF InstallTransfer, OneTime, Persistent
  <2>2. CASE At(h, i, "installing")
    <3>1. \A n \in NamesOf[h] : hat'[n] = h
      BY <1>0, <1>4, <2>1, <2>2 DEF InstallTransfer, At
    <3>2. wpc'[h][i] = "copying" /\ record' = record
      BY <1>0, <1>4, <2>2, OneWorkerMoves DEF InstallTransfer, At, Places
    <3> QED
      BY <1>0, <3>1, <3>2 DEF InstallMove, HatSaved
  <2>3. CASE At(h, i, "copying")
    <3>1. HatSaved(h)' /\ record' = record
      BY <1>4, <2>1, <2>3 DEF InstallTransfer, At, SavedInv, HatSaved
    <3>2. wpc' = wpc \/ (GoesTo(h, i, "claiming") /\ env' = env /\ \A n \in NamesOf[h] : env[n] = h)
      BY <1>4, <2>3 DEF InstallTransfer, At
    <3>3. CASE wpc' = wpc
      BY <2>3, <3>1, <3>3 DEF InstallMove, At
    <3>4. CASE GoesTo(h, i, "claiming") /\ env' = env /\ \A n \in NamesOf[h] : env[n] = h
      BY <1>0, <3>1, <3>4 DEF InstallMove, Saved
    <3> QED
      BY <3>2, <3>3, <3>4
  <2> QED
    BY <1>4, <2>2, <2>3 DEF InstallTransfer
<1>5. CASE WorkerClaims(h, i)
  BY <1>0, <1>5, OneWorkerMoves, ClaimMoves DEF WorkerClaims, InstallMove, At, Places, Statuses
<1>6. CASE WorkerDenies(h, i)
  BY <1>0, <1>6, OneWorkerMoves, ClaimMoves DEF WorkerDenies, InstallMove, Places, Statuses
<1>7. CASE \/ WorkerReadsKey(h, i) \/ WorkerLocks(h, i) \/ WorkerPolls(h, i) \/ InstallFails(h, i)
           \/ WorkerEnds(h, i) \/ WorkerExpires(h, i) \/ WorkerDies(h, i)
  BY <1>0, <1>7, OneWorkerMoves DEF WorkerReadsKey, WorkerLocks, WorkerPolls, InstallFails,
     WorkerEnds, WorkerExpires, WorkerDies, InstallMove, Places
<1> QED
  BY <1>1, <1>2, <1>3, <1>4, <1>5, <1>6, <1>7 DEF AnyWorkerStep, WorkerStep

\* What is saved stays so, whatever else is claimed.
LEMMA SavedStays ==
  ASSUME ValuesStay, NEW h \in Handoffs \ SlackHandoffs
  PROVE  (Saved(h) => Saved(h)') /\ (HatSaved(h) => HatSaved(h)')
BY AskedNames DEF ValuesStay, Saved, HatSaved

\* Every step keeps SavedInv, unless a removal and a save overlap.
LEMMA SavedInvStep ==
  ASSUME TypeInv, BundleInv, SavedInv, [SlackNext]_slackAllVars
  PROVE  SavedInv'
<1>0. /\ wpc \in [Handoffs -> [Workers -> Places]] /\ env \in EnvFiles
      /\ record \in [Handoffs -> Statuses]
      /\ SlackHandoffs \subseteq Handoffs /\ TOKEN \notin Names /\ ALLOWLIST \notin Names
  BY HandoffsAssumption DEF TypeInv, SecretTypeOK, Places, Statuses, EnvFiles, Handoffs,
                            OneTime, TOKEN, ALLOWLIST, SlackNames
<1>1. CASE UNCHANGED slackAllVars
  BY <1>1 DEF SavedInv, Saved, HatSaved, slackAllVars, handoffVars, ceremony
<1>2. CASE \E h \in Handoffs : ToolStep(h) /\ BesideSlack
  <2> SUFFICES ASSUME NEW h \in Handoffs, ToolStep(h) PROVE SavedInv'
    BY <1>2
  <2>1. UNCHANGED <<env, hat>>
    BY DEF ToolStep, Submit, Expire, RequestHandoff, RequestForHat, WriteKey, StartWorker, PluginDies
  <2>2. \A g \in Handoffs, j \in Workers : wpc'[g][j] \in {wpc[g][j], "started", "unstarted"}
    BY <1>0 DEF ToolStep, Submit, Expire, RequestHandoff, RequestForHat, WriteKey, StartWorker, PluginDies, GoesTo
  <2>3. \A g \in Handoffs : record'[g] = "claimed" => record[g] = "claimed"
    BY <1>0 DEF ToolStep, Submit, Expire, RequestHandoff, Requests, RequestForHat, WriteKey, StartWorker, PluginDies
  <2> QED
    BY <2>1, <2>2, <2>3 DEF SavedInv, Saved, HatSaved
<1>3. CASE \E h \in Handoffs, i \in Workers : AnyWorkerStep(h, i) /\ BesideSlack
  <2> SUFFICES ASSUME NEW h \in Handoffs, NEW i \in Workers, AnyWorkerStep(h, i) PROVE SavedInv'
    BY <1>3
  <2>1. OneMove(h, i) /\ BesideMove(h, i) /\ InstallMove(h, i)
    BY WorkerMoves, BesideMoves, InstallMoves
  <2> SUFFICES ASSUME NEW g \in Handoffs \ SlackHandoffs
               PROVE  /\ record'[g] = "claimed" => Saved(g)'
                      /\ \A j \in Workers :
                           /\ wpc'[g][j] = "claiming" => Saved(g)'
                           /\ wpc'[g][j] \in {"copying", "recording"} => HatSaved(g)'
    BY DEF SavedInv
  <2>2. (Saved(g) => Saved(g)') /\ (HatSaved(g) => HatSaved(g)')
    BY <2>1, SavedStays DEF BesideMove
  <2>3. record'[g] = "claimed" => Saved(g)'
    BY <2>1, <2>2 DEF InstallMove, SavedInv
  <2>4. ASSUME NEW j \in Workers
        PROVE  /\ wpc'[g][j] = "claiming" => Saved(g)'
               /\ wpc'[g][j] \in {"copying", "recording"} => HatSaved(g)'
    <3>1. CASE g = h /\ j = i
      BY <2>1, <3>1 DEF InstallMove
    <3>2. CASE g # h \/ j # i
      BY <2>1, <2>2, <3>2 DEF OneMove, SavedInv
    <3> QED
      BY <3>1, <3>2
  <2> QED
    BY <2>3, <2>4
<1>4. CASE \E h \in SlackHandoffs, i \in Workers : SlackStep(h, i)
  <2> SUFFICES ASSUME NEW h \in SlackHandoffs, NEW i \in Workers, SlackStep(h, i) PROVE SavedInv'
    BY <1>4
  <2>0. h \in Handoffs
    BY <1>0
  <2>1. \A n \in Names : env'[n] = env[n] /\ hat'[n] = hat[n]
    BY <1>0 DEF SlackStep, ValidateSlack, SaveSlack, GreetOwner, RejectSlack, EnvFiles
  <2>2. \A g \in Handoffs \ SlackHandoffs, j \in Workers : wpc'[g][j] = wpc[g][j]
    BY <2>0, WorkerMoves DEF OneMove
  <2>3. \A g \in Handoffs \ SlackHandoffs : record'[g] = record[g]
    BY <1>0, <2>0, ClaimMoves DEF SlackStep, ValidateSlack, SaveSlack, GreetOwner, RejectSlack, Statuses
  <2>4. ValuesStay
    BY <2>1 DEF ValuesStay
  <2> QED
    BY <2>2, <2>3, <2>4, SavedStays DEF SavedInv
<1>5. CASE RemovalStep
  <2>1. wpc' = wpc /\ record' = record
    BY <1>5, RemovalMoves DEF ceremony
  <2>2. hat' = hat /\ (RewriteEnvFile \/ env' = env)
    BY <1>5 DEF RemovalStep, DisconnectStep, StartDisconnect, OwnerConfirms,
             RemovalExpires, GatewayRestarts, DisconnectPolls, RevokeSlack, ReadEnvFile,
             RewriteEnvFile, CheckAbsence, ReportDisconnect, DisconnectExpires,
             DisconnectDies, handoffVars
  <2>3. RewriteEnvFile => \A n \in Names : env'[n] = env[n]
    BY <1>0, HandoffsAssumption DEF RewriteEnvFile, BundleInv, EnvFiles
  <2>4. ValuesStay
    BY <2>2, <2>3 DEF ValuesStay
  <2> QED
    BY <2>1, <2>4, SavedStays DEF SavedInv
<1> QED
  BY <1>1, <1>2, <1>3, <1>4, <1>5, StepKinds DEF TypeInv, SecretTypeOK

-----------------------------------------------------------------------------
(* The ceremonies.                                                         *)

\* One connection is saved at a time; the worker that has saved it, and goes on to
\* greet and to claim, finds it whole; and what a removal takes out is a token that
\* Slack has revoked.
OwnInv ==
  /\ \A g, h \in SlackHandoffs, i, j \in Workers :
       ~Landed(wpc[g][i]) /\ ~Landed(wpc[h][j]) => g = h /\ i = j
  /\ \A h \in SlackHandoffs, i \in Workers :
       wpc[h][i] \in {"greeting", "claiming"} => env[TOKEN] = h /\ env[ALLOWLIST] = h
  /\ dpc \in {"reading", "rewriting"} => botToken \in revoked \union {None}
  /\ dpc = "rewriting" => env[TOKEN] = botToken

\* Every step keeps OwnInv, unless a removal and a save, or two saves, overlap.
LEMMA OwnInvStep ==
  ASSUME TypeInv, ~overlap, ~overlap', BundleInv, OwnInv, [SlackNext]_slackAllVars
  PROVE  OwnInv'
<1>0. /\ wpc \in [Handoffs -> [Workers -> Places]] /\ env \in EnvFiles
      /\ SlackHandoffs \subseteq Handoffs /\ TOKEN # ALLOWLIST
      /\ {TOKEN, ALLOWLIST} = SlackNames
  BY DEF TypeInv, SecretTypeOK, Places, EnvFiles, Handoffs, OneTime, TOKEN, ALLOWLIST, SlackNames
<1>1. CASE UNCHANGED slackAllVars
  BY <1>1 DEF OwnInv, slackAllVars, handoffVars, ceremony, slackVars
<1>2. CASE \E h \in Handoffs : ToolStep(h) /\ BesideSlack
  <2> SUFFICES ASSUME NEW h \in Handoffs, ToolStep(h), BesideSlack PROVE OwnInv'
    BY <1>2
  <2>1. UNCHANGED <<env, dpc, botToken, revoked>>
    BY DEF BesideSlack, ToolStep, Submit, Expire, RequestHandoff, RequestForHat, WriteKey, StartWorker, PluginDies
  <2>2. \A g \in SlackHandoffs, j \in Workers : wpc'[g][j] \in {wpc[g][j], "started", "unstarted"}
    BY <1>0 DEF ToolStep, Submit, Expire, RequestHandoff, RequestForHat, WriteKey, StartWorker, PluginDies, GoesTo
  <2> QED
    BY <2>1, <2>2 DEF OwnInv, Landed
<1>3. CASE \E h \in Handoffs, i \in Workers : AnyWorkerStep(h, i) /\ BesideSlack
  <2> SUFFICES ASSUME NEW h \in Handoffs, NEW i \in Workers, AnyWorkerStep(h, i), BesideSlack
               PROVE  OwnInv'
    BY <1>3
  <2>1. UNCHANGED <<dpc, botToken, revoked>>
    BY DEF BesideSlack
  <2>2. \A g \in SlackHandoffs, j \in Workers : wpc'[g][j] = wpc[g][j] \/ Landed(wpc'[g][j])
    BY <1>0, BesideMoves, WorkerMoves DEF BesideMove, OneMove
  <2>3. env'[TOKEN] = env[TOKEN] /\ env'[ALLOWLIST] = env[ALLOWLIST]
    BY BesideMoves DEF BesideMove
  <2> QED
    BY <2>1, <2>2, <2>3 DEF OwnInv, Landed
<1>4. CASE \E h \in SlackHandoffs, i \in Workers : SlackStep(h, i)
  <2> SUFFICES ASSUME NEW h \in SlackHandoffs, NEW i \in Workers, SlackStep(h, i) PROVE OwnInv'
    BY <1>4
  <2>1. \A g \in SlackHandoffs, j \in Workers : g # h \/ j # i => wpc'[g][j] = wpc[g][j]
    BY <1>0, WorkerMoves DEF OneMove
  <2>2. UNCHANGED <<dpc, botToken, revoked>>
    BY DEF SlackStep, ValidateSlack, SaveSlack, GreetOwner, RejectSlack, slackVars
  <2>3. CASE ValidateSlack(h, i)
    <3>1. env' = env /\ wpc'[h][i] \in {"saving", "rejecting", "denying"}
      BY <1>0, <2>3, OneWorkerMoves DEF ValidateSlack, Places
    <3>2. CASE wpc'[h][i] = "saving"
      <4>1. InFlight = {}
        <5>1. \A place \in {"rejecting", "denying"} : ~GoesTo(h, i, place)
          BY <1>0, <3>2, OneWorkerMoves DEF Places
        <5>2. overlap' = (overlap \/ dpc \in {"rewriting", "checking"} \/ InFlight # {})
          BY <2>3, <5>1, Zenon DEF ValidateSlack
        <5> QED
          BY <5>2, Zenon
      <4> QED
        BY <2>1, <2>2, <3>1, <3>2, <4>1, NothingInFlight DEF OwnInv, Landed
    <3>3. CASE wpc'[h][i] \in {"rejecting", "denying"}
      BY <2>1, <2>2, <3>1, <3>3 DEF OwnInv, Landed
    <3> QED
      BY <3>1, <3>2, <3>3
  <2>4. CASE SaveSlack(h, i)
    <3>1. ~Landed(wpc[h][i])
      BY <2>4 DEF SaveSlack, At, Writing, Landed
    <3>2. dpc # "rewriting"
      BY <3>1 DEF BundleInv
    <3>3. \A g \in SlackHandoffs, j \in Workers : g # h \/ j # i => Landed(wpc[g][j])
      BY <3>1 DEF OwnInv
    <3>4. wpc'[h][i] = "greeting" => env'[TOKEN] = h /\ env'[ALLOWLIST] = h
      BY <1>0, <2>4, OneWorkerMoves DEF SaveSlack, Places
    <3>5. wpc'[h][i] # "claiming"
      BY <1>0, <2>4, OneWorkerMoves DEF SaveSlack, Places
    <3> QED
      BY <2>1, <2>2, <3>2, <3>3, <3>4, <3>5 DEF OwnInv, Landed
  <2>5. CASE GreetOwner(h, i) \/ RejectSlack(h, i)
    <3>1. env' = env
      BY <2>5 DEF GreetOwner, RejectSlack
    <3>2. \/ wpc[h][i] = "greeting" /\ wpc'[h][i] = "claiming"
          \/ wpc'[h][i] \in {"rejecting", "polling", "denying"}
      BY <1>0, <2>5 DEF GreetOwner, RejectSlack, GoesTo, At
    <3> QED
      BY <2>1, <2>2, <3>1, <3>2 DEF OwnInv, Landed
  <2> QED
    BY <2>3, <2>4, <2>5 DEF SlackStep
<1>5. CASE RemovalStep
  <2>1. wpc' = wpc
    BY <1>5, RemovalMoves DEF ceremony
  <2>2. CASE RevokeSlack
    BY <2>1, <2>2 DEF RevokeSlack, OwnInv
  <2>3. CASE ReadEnvFile
    <3>1. env[TOKEN] = botToken
      <4>1. overlap' = (overlap \/ InFlight # {} \/ env[TOKEN] # botToken)
        BY <2>3 DEF ReadEnvFile
      <4> QED
        BY <4>1, Zenon
    <3> QED
      BY <2>1, <2>3, <3>1 DEF ReadEnvFile, OwnInv, handoffVars
  <2>4. CASE RewriteEnvFile
    <3>1. \A h \in SlackHandoffs, i \in Workers : Landed(wpc[h][i])
      BY <2>4 DEF RewriteEnvFile, BundleInv
    <3> QED
      BY <2>1, <2>4, <3>1 DEF RewriteEnvFile, OwnInv, Landed
  <2>5. CASE ~RevokeSlack /\ ~ReadEnvFile /\ ~RewriteEnvFile
    <3>1. env' = env /\ (UNCHANGED <<dpc, botToken, revoked>> \/ dpc' \notin {"reading", "rewriting"})
      BY <1>5, <2>5 DEF RemovalStep, DisconnectStep, StartDisconnect, OwnerConfirms,
           RemovalExpires, GatewayRestarts, DisconnectPolls, CheckAbsence,
           ReportDisconnect, DisconnectExpires, DisconnectDies, handoffVars
    <3> QED
      BY <2>1, <3>1 DEF OwnInv
  <2> QED
    BY <2>2, <2>3, <2>4, <2>5
<1> QED
  BY <1>1, <1>2, <1>3, <1>4, <1>5, StepKinds DEF TypeInv, SecretTypeOK

-----------------------------------------------------------------------------
(* The theorems.                                                           *)

SecretInv == TypeInv /\ StartInv /\ KeyInv /\ ValueInv

\* Before anything is opened nothing is saved, claimed or on disk.
LEMMA SecretInvInit == SlackInit => SecretInv
<1> SUFFICES ASSUME SlackInit PROVE SecretInv
  OBVIOUS
<1>1. TypeInv
  <2>1. /\ wpc \in [Handoffs -> [Workers -> Places]] /\ record \in [Handoffs -> Statuses]
        /\ privateKey \in [Handoffs -> BOOLEAN]
    BY DEF SlackInit, HandoffInit, Places, Statuses
  <2>2. env \in EnvFiles /\ envPage \in EnvFiles /\ hat \in [Names -> Handoffs \union {None}]
    BY DEF SlackInit, HandoffInit, Unread, EnvFiles
  <2>3. env[TOKEN] = None /\ env[ALLOWLIST] = None
    BY DEF SlackInit, HandoffInit, TOKEN, ALLOWLIST, SlackNames
  <2>4. troubles \in 0 .. MaxTroubles
    BY HandoffsAssumption DEF SlackInit, HandoffInit
  <2>5. overlap \in BOOLEAN
    BY DEF SlackInit
  <2> QED
    BY <2>1, <2>2, <2>3, <2>4, <2>5
    DEF SlackInit, HandoffInit, TypeInv, SecretTypeOK, Places, Statuses, EnvFiles
<1>2. StartInv /\ KeyInv
  BY HandoffsAssumption DEF SlackInit, HandoffInit, StartInv, KeyInv, KeyHasAWorker, Handoffs,
                            OneTime
<1>3. BundleInv /\ SavedInv
  BY DEF SlackInit, HandoffInit, BundleInv, SavedInv, Handoffs, OneTime, TOKEN, SlackNames
<1> QED
  BY <1>1, <1>2, <1>3 DEF SecretInv, ValueInv

\* The four parts of SecretInv carry each other over every step.
LEMMA SecretInvStep ==
  ASSUME SecretInv, [SlackNext]_slackAllVars
  PROVE  SecretInv'
<1>1. TypeInv' /\ StartInv' /\ KeyInv'
  BY TypeInvStep, StartInvStep, KeyInvStep DEF SecretInv
<1>2. ASSUME ~overlap' PROVE BundleInv' /\ SavedInv'
  BY <1>2, BundleInvStep, SavedInvStep DEF SecretInv, ValueInv
<1> QED
  BY <1>1, <1>2 DEF SecretInv, ValueInv

\* What is claimed of the handoffs follows from SecretInv.
LEMMA SecretInvSuffices == SecretInv => SecretTypeOK /\ SecretsAreSound
BY DEF SecretInv, TypeInv, KeyInv, ValueInv, BundleInv, SavedInv, Saved, HatSaved,
       SecretsAreSound, ClaimedIsSaved, TokenHasAllowlist

\* Whatever handoffs there are, however many second workers, deaths, lost answers and
\* failed steps: the platform lists nothing as installed that is not saved, a one-time
\* key is there for a worker that is about to be started, runs, has died or was cut
\* off, and Hermes has no token without its allowlist (secrets/handoff.py,
\* handoff_worker.py).
THEOREM SecretsSafety == SecretSpec => [](SecretTypeOK /\ SecretsAreSound)
<1>1. SecretInv /\ [SlackNext]_slackAllVars => SecretInv'
  BY SecretInvStep
<1> QED
  BY <1>1, SecretInvInit, SecretInvSuffices, PTL DEF SecretSpec

\* Only a worker's claim makes a handoff's record "claimed".
LEMMA WhoClaims ==
  ASSUME TypeInv, [SlackNext]_slackAllVars, NEW h \in Handoffs,
         record[h] # "claimed", record'[h] = "claimed"
  PROVE  \E i \in Workers : WorkerClaims(h, i) /\ BesideSlack
<1>0. record \in [Handoffs -> Statuses] /\ SlackHandoffs \subseteq Handoffs
  BY DEF TypeInv, SecretTypeOK, Statuses, Handoffs, OneTime
<1>1. ~UNCHANGED slackAllVars
  BY DEF slackAllVars, handoffVars, ceremony
<1>2. ~RemovalStep
  BY RemovalMoves DEF ceremony
<1>3. ~\E g \in Handoffs : ToolStep(g)
  BY <1>0 DEF ToolStep, Submit, Expire, RequestHandoff, RequestForHat, Requests, WriteKey, StartWorker, PluginDies
<1>4. ~\E g \in SlackHandoffs, i \in Workers : SlackStep(g, i)
  BY <1>0 DEF SlackStep, ValidateSlack, SaveSlack, GreetOwner, RejectSlack, Claimed
<1>5. ASSUME NEW g \in Handoffs, NEW i \in Workers, AnyWorkerStep(g, i)
      PROVE  g = h /\ WorkerClaims(h, i)
  <2>1. WorkerClaims(g, i)
    BY <1>0, <1>5 DEF AnyWorkerStep, WorkerStep, WorkerReadsKey, WorkerLocks, WorkerPolls,
       InstallSecret, InstallHatSecret, InstallBundle, InstallTransfer, InstallFails,
       WorkerDenies, WorkerEnds, WorkerExpires, WorkerDies, Claimed
  <2>2. g = h
    BY <1>0, <2>1 DEF WorkerClaims, Claimed
  <2> QED
    BY <2>1, <2>2
<1> QED
  BY <1>1, <1>2, <1>3, <1>4, <1>5, StepKinds DEF TypeInv, SecretTypeOK

\* Only the removal's rewriting takes a token out of the env file.
LEMMA WhoRemovesTokens ==
  ASSUME TypeInv, [SlackNext]_slackAllVars, env[TOKEN] # None, env'[TOKEN] = None
  PROVE  RewriteEnvFile
<1>0. /\ env \in EnvFiles /\ SlackHandoffs \subseteq Handoffs /\ None \notin Handoffs
      /\ TOKEN # ALLOWLIST /\ {TOKEN, ALLOWLIST} = SlackNames
  BY HandoffsAssumption
  DEF TypeInv, SecretTypeOK, EnvFiles, Handoffs, OneTime, TOKEN, ALLOWLIST, SlackNames
<1>1. ~UNCHANGED slackAllVars
  BY DEF slackAllVars, handoffVars
<1>2. ~\E h \in Handoffs : ToolStep(h)
  BY DEF ToolStep, Submit, Expire, RequestHandoff, RequestForHat, WriteKey, StartWorker, PluginDies
<1>3. ~\E h \in Handoffs, i \in Workers : AnyWorkerStep(h, i)
  BY BesideMoves DEF BesideMove
<1>4. ~\E h \in SlackHandoffs, i \in Workers : SlackStep(h, i)
  <2> SUFFICES ASSUME NEW h \in SlackHandoffs, NEW i \in Workers, SlackStep(h, i) PROVE FALSE
    OBVIOUS
  <2>1. env' \in {env, [env EXCEPT ![ALLOWLIST] = h], [env EXCEPT ![TOKEN] = h]}
    BY DEF SlackStep, ValidateSlack, SaveSlack, GreetOwner, RejectSlack
  <2> QED
    BY <1>0, <2>1 DEF EnvFiles
<1>5. RemovalStep => RewriteEnvFile
  BY DEF RemovalStep, DisconnectStep, StartDisconnect, OwnerConfirms, RemovalExpires,
         GatewayRestarts, DisconnectPolls, RevokeSlack, ReadEnvFile, CheckAbsence,
         ReportDisconnect, DisconnectExpires, DisconnectDies, handoffVars
<1> QED
  BY <1>1, <1>2, <1>3, <1>4, <1>5, StepKinds DEF TypeInv, SecretTypeOK

\* A worker that goes from its answer to its end has sent it: the claim or the
\* failure that was its step.
LEMMA WhoEnds ==
  ASSUME TypeInv, [SlackNext]_slackAllVars, NEW h \in Handoffs, NEW i \in Workers,
         wpc[h][i] \in {"claiming", "rejecting", "denying"}, wpc'[h][i] = "ending"
  PROVE  WorkerClaims(h, i) \/ WorkerDenies(h, i)
<1>0. wpc \in [Handoffs -> [Workers -> Places]] /\ SlackHandoffs \subseteq Handoffs
  BY DEF TypeInv, SecretTypeOK, Places, Handoffs, OneTime
<1>1. ~UNCHANGED slackAllVars
  BY DEF slackAllVars, handoffVars, ceremony
<1>2. ~RemovalStep
  BY RemovalMoves DEF ceremony
<1>3. ASSUME NEW g \in Handoffs, ToolStep(g) PROVE FALSE
  <2>1. \A k \in Handoffs, j \in Workers : wpc'[k][j] \in {wpc[k][j], "started"}
    BY <1>0, <1>3 DEF ToolStep, Submit, Expire, RequestHandoff, RequestForHat, WriteKey, StartWorker, PluginDies, GoesTo
  <2> QED
    BY <2>1
<1>4. ASSUME NEW g \in SlackHandoffs, NEW j \in Workers, SlackStep(g, j) PROVE FALSE
  <2>1. g = h /\ j = i
    BY <1>0, <1>4, WorkerMoves DEF OneMove
  <2>2. RejectSlack(h, i)
    BY <1>4, <2>1 DEF SlackStep, ValidateSlack, SaveSlack, GreetOwner, At, Writing, GoesTo
  <2> QED
    BY <1>0, <2>2 DEF RejectSlack, GoesTo
<1>5. ASSUME NEW g \in Handoffs, NEW j \in Workers, AnyWorkerStep(g, j)
      PROVE  WorkerClaims(h, i) \/ WorkerDenies(h, i)
  <2>1. g = h /\ j = i
    BY <1>0, <1>5, WorkerMoves DEF OneMove
  <2>2. ~WorkerDies(h, i)
    BY <1>0, OneWorkerMoves DEF WorkerDies, Places
  <2> QED
    BY <1>5, <2>1, <2>2 DEF AnyWorkerStep, WorkerStep, WorkerReadsKey, WorkerLocks, WorkerPolls,
       InstallSecret, InstallHatSecret, InstallBundle, InstallTransfer, InstallFails,
       WorkerEnds, WorkerExpires, At
<1> QED
  BY <1>1, <1>2, <1>3, <1>4, <1>5, StepKinds DEF TypeInv, SecretTypeOK

CeremonyInv == SecretInv /\ (~overlap => OwnInv)

\* CeremonyInv begins with the ceremonies, and every step keeps it.
LEMMA CeremonyInvHolds ==
  /\ SlackInit => CeremonyInv
  /\ CeremonyInv /\ [SlackNext]_slackAllVars => CeremonyInv'
<1>1. SlackInit => CeremonyInv
  <2> SUFFICES ASSUME SlackInit PROVE OwnInv
    BY SecretInvInit DEF CeremonyInv
  <2>1. \A h \in SlackHandoffs, i \in Workers : wpc[h][i] = "none"
    BY DEF SlackInit, HandoffInit, Handoffs, OneTime
  <2> QED
    BY <2>1 DEF SlackInit, OwnInv, Landed
<1>2. ASSUME CeremonyInv, [SlackNext]_slackAllVars PROVE CeremonyInv'
  <2>1. SecretInv'
    BY <1>2, SecretInvStep DEF CeremonyInv
  <2>2. ASSUME ~overlap' PROVE OwnInv'
    BY <1>2, <2>2, BundleInvStep, OwnInvStep DEF CeremonyInv, SecretInv, ValueInv
  <2> QED
    BY <2>1, <2>2 DEF CeremonyInv
<1> QED
  BY <1>1, <1>2

\* What each step from CeremonyInv may do.
LEMMA CeremonyInvSuffices ==
  ASSUME CeremonyInv, [SlackNext]_slackAllVars
  PROVE  /\ \A h \in SlackHandoffs :
              record[h] # "claimed" /\ record'[h] = "claimed" =>
                (env[TOKEN] = h /\ env[ALLOWLIST] = h) \/ overlap'
         /\ env[TOKEN] # None /\ env'[TOKEN] = None => env[TOKEN] \in revoked \/ overlap
         /\ \A h \in Handoffs, i \in Workers :
              /\ wpc[h][i] \in {"claiming", "rejecting", "denying"} /\ wpc'[h][i] = "ending"
              /\ troubles' = 0
              => record'[h] # "submitted"
<1>0. TypeInv /\ (~overlap => BundleInv /\ OwnInv)
  BY DEF CeremonyInv, SecretInv, ValueInv
<1>1. ASSUME NEW h \in SlackHandoffs, record[h] # "claimed", record'[h] = "claimed", ~overlap'
      PROVE  env[TOKEN] = h /\ env[ALLOWLIST] = h
  <2>1. PICK i \in Workers : WorkerClaims(h, i)
    BY <1>0, <1>1, WhoClaims DEF Handoffs, OneTime
  <2>2. ~overlap
    BY <1>0, <1>1, BundleInvStep
  <2> QED
    BY <1>0, <2>1, <2>2 DEF OwnInv, WorkerClaims, At
<1>2. ASSUME env[TOKEN] # None, env'[TOKEN] = None, ~overlap PROVE env[TOKEN] \in revoked
  BY <1>0, <1>2, WhoRemovesTokens DEF RewriteEnvFile, OwnInv
<1>3. ASSUME NEW h \in Handoffs, NEW i \in Workers,
             wpc[h][i] \in {"claiming", "rejecting", "denying"}, wpc'[h][i] = "ending",
             troubles' = 0
      PROVE  record'[h] # "submitted"
  <2>0. troubles \in Nat /\ record \in [Handoffs -> Statuses]
    BY <1>0, HandoffsAssumption DEF TypeInv, SecretTypeOK, Statuses
  <2>1. ~Trouble
    BY <1>3, <2>0 DEF Trouble
  <2>2. CASE WorkerClaims(h, i)
    BY <2>0, <2>1, <2>2 DEF WorkerClaims, Claimed, Open
  <2>3. CASE WorkerDenies(h, i)
    BY <2>0, <2>1, <2>3 DEF WorkerDenies, Claimed, Open
  <2> QED
    BY <1>0, <1>3, <2>2, <2>3, WhoEnds
<1> QED
  BY <1>1, <1>2, <1>3

\* However many handoffs, second workers, removals, deaths and lost answers: a
\* connection the platform shows as connected has been saved whole, a token leaves
\* the env file only after Slack has revoked it, and a worker that has taken up a
\* submission answers it before it ends (slack/connection.py, slack/disconnect.py,
\* secrets/handoff_worker.py).
THEOREM CeremoniesStayWhole == SecretSpec => CeremoniesAreWhole
<1>1. CeremonyInv /\ [SlackNext]_slackAllVars =>
        [\A h \in SlackHandoffs :
           record[h] # "claimed" /\ record'[h] = "claimed" =>
             (env[TOKEN] = h /\ env[ALLOWLIST] = h) \/ overlap']_slackAllVars
  BY CeremonyInvSuffices
<1>2. CeremonyInv /\ [SlackNext]_slackAllVars =>
        [env[TOKEN] # None /\ env'[TOKEN] = None => env[TOKEN] \in revoked \/ overlap]_slackAllVars
  BY CeremonyInvSuffices
<1>3. CeremonyInv /\ [SlackNext]_slackAllVars =>
        [\A h \in Handoffs, i \in Workers :
           /\ wpc[h][i] \in {"claiming", "rejecting", "denying"} /\ wpc'[h][i] = "ending"
           /\ troubles' = 0
           => record'[h] # "submitted"]_slackAllVars
  BY CeremonyInvSuffices
<1> QED
  BY <1>1, <1>2, <1>3, CeremonyInvHolds, PTL
  DEF SecretSpec, CeremoniesAreWhole, ConnectedIsComplete, KeptUntilRevoked,
      SubmissionsAreAnswered
=============================================================================
