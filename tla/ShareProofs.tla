----------------------------- MODULE ShareProofs ----------------------------
(* Proofs of what SharesAreSound says of the three parts of local app      *)
(* sharing: Visuals and their keys, the two processes, the gateway; of the *)
(* gateway's limits and of its cookies.                                    *)
EXTENDS ShareGateway, ShareProcesses, VisualShares, TLAPS, FiniteSetTheorems,
        FunctionTheorems

VisualSpec  == ShareInit /\ [][ShareNext]_shareVars
ProcessSpec == ProcessInit /\ [][ProcessNext]_processVars
GatewaySpec == GatewayInit /\ [][GatewayNext]_gatewayVars

-----------------------------------------------------------------------------
(* Visuals and their keys.                                                 *)

\* A session is revoked by the call that made it or by one that was shown it, and
\* a revocation that has begun ends without a key.
Lifecycle(s) ==
  /\ creating[s] = "begin" => session[s] = "none" /\ s \notin keyfile /\ revoking[s] = "idle"
  /\ creating[s] = "key" => session[s] = "active" /\ s \notin keyfile /\ revoking[s] = "idle"
  /\ creating[s] \in {"register", "undo", "shared"} =>
       \/ revoking[s] = "idle" /\ session[s] = "active" /\ (creating[s] # "undo" => s \in keyfile)
       \/ revoking[s] = "idle" /\ session[s] = "ended" /\ creating[s] = "shared"
       \/ revoking[s] = "key" /\ session[s] = "revoked"
       \/ revoking[s] = "done" /\ session[s] = "revoked" /\ s \notin keyfile
  /\ creating[s] = "failed" => session[s] # "active" /\ s \notin keyfile

VisualInv == ShareTypeOK /\ \A s \in Shares \ stray : Lifecycle(s)

\* The calls of one share leave the others alone.
LEMMA VisualInvStep ==
  ASSUME VisualInv, [ShareNext]_shareVars
  PROVE  VisualInv'
<1>1. CASE UNCHANGED shareVars
  BY <1>1 DEF shareVars, VisualInv, ShareTypeOK, Lifecycle
<1>2. CASE ShareNext
  <2> SUFFICES ASSUME NEW s \in Shares,
                      \/ CreateSession(s) \/ CreateKey(s) \/ RegisterKey(s) \/ UndoCreate(s)
                      \/ RevokeSession(s) \/ DeleteKey(s) \/ ShareCallDies(s)
                      \/ SessionEnds(s) \/ LoadExpired(s)
               PROVE  VisualInv'
    BY <1>2 DEF ShareNext
  <2>1. ShareTypeOK'
    BY SharesAssumption DEF VisualInv, ShareTypeOK, CreateSession, CreateKey, RegisterKey,
       UndoCreate, RevokeSession, DeleteKey, ShareCallDies, SessionEnds, LoadExpired, Slip
  <2>2. /\ stray \subseteq stray'
        /\ \A t \in Shares \ {s} :
             /\ session'[t] = session[t] /\ creating'[t] = creating[t]
             /\ revoking'[t] = revoking[t] /\ (t \in keyfile' <=> t \in keyfile)
    BY DEF VisualInv, ShareTypeOK, CreateSession, CreateKey, RegisterKey,
       UndoCreate, RevokeSession, DeleteKey, ShareCallDies, SessionEnds, LoadExpired
  <2>3. s \notin stray' => Lifecycle(s)'
    <3> SUFFICES ASSUME s \notin stray' PROVE Lifecycle(s)'
      OBVIOUS
    <3>0. Lifecycle(s)
      BY <2>2 DEF VisualInv
    <3> USE DEF VisualInv, ShareTypeOK, Lifecycle
    <3>1. CASE CreateSession(s)
      BY <3>0, <3>1 DEF CreateSession
    <3>2. CASE CreateKey(s)
      BY <3>0, <3>2 DEF CreateKey
    <3>3. CASE RegisterKey(s)
      BY <3>0, <3>3 DEF RegisterKey
    <3>4. CASE UndoCreate(s)
      BY <3>0, <3>4 DEF UndoCreate
    <3>5. CASE RevokeSession(s)
      BY <3>0, <3>5 DEF RevokeSession, ListShows
    <3>6. CASE DeleteKey(s)
      BY <3>0, <3>6 DEF DeleteKey
    <3>7. CASE ShareCallDies(s)
      BY <3>7 DEF ShareCallDies
    <3>8. CASE SessionEnds(s)
      BY <3>0, <3>8 DEF SessionEnds
    <3>9. CASE LoadExpired(s)
      BY <3>0, <3>9 DEF LoadExpired
    <3> QED
      BY <3>1, <3>2, <3>3, <3>4, <3>5, <3>6, <3>7, <3>8, <3>9
  <2>4. \A t \in Shares \ {s} : t \notin stray' => Lifecycle(t)'
    BY <2>2 DEF VisualInv, Lifecycle
  <2> QED
    BY <2>1, <2>3, <2>4 DEF VisualInv
<1> QED
  BY <1>1, <1>2

\* For any number of shares, of slips and of interleaved calls: once its calls are
\* over, an active session has its key and a revoked one has none, but for the
\* strays (_create and _revoke in local_app_sharing/tool.py, crypto.py).
THEOREM VisualsAreSound == VisualSpec => [](ShareTypeOK /\ ActiveHasKey /\ RevokedHasNoKey)
<1>1. ShareInit => VisualInv
  BY SharesAssumption DEF ShareInit, VisualInv, ShareTypeOK, Lifecycle
<1>2. VisualInv /\ [ShareNext]_shareVars => VisualInv'
  BY VisualInvStep
<1>3. VisualInv => ShareTypeOK /\ ActiveHasKey /\ RevokedHasNoKey
  BY DEF VisualInv, ShareTypeOK, Lifecycle, ActiveHasKey, RevokedHasNoKey, Settled
<1> QED
  BY <1>1, <1>2, <1>3, PTL DEF VisualSpec

-----------------------------------------------------------------------------
(* The two processes.                                                      *)

ProcessStates == {"none", "starting", "serving", "dead"}
Processes == [Pids -> [state : ProcessStates, of : 0 .. MaxUpgrades]]
CallRecords == [pc : {"begin", "gateway", "spawned", "probing", "connector", "token",
                      "stopping", "checking", "launched", "polling", "ready", "failed", "dead"},
                got : 0 .. MaxUpgrades, pid : 0 .. MaxPids]

ProcessTypes ==
  /\ gateways \in Processes /\ connectors \in Processes
  /\ call \in [Calls -> CallRecords]
  /\ package \in 1 .. MaxUpgrades /\ tunnel \in 1 .. MaxUpgrades /\ token \in 0 .. MaxUpgrades
  /\ gatepid \in 0 .. MaxPids /\ connpid \in 0 .. MaxPids
  /\ stumbles \in 0 .. MaxStumbles
  /\ gatelock \in Calls \union {NoCall} /\ connlock \in Calls \union {NoCall}
  /\ lost \subseteq {"gateway", "connector"} \X (0 .. MaxPids)

AtGateway(c)   == call[c].pc \in {"spawned", "probing"}
AtConnector(c) == call[c].pc \in {"token", "stopping", "checking", "launched", "polling"}

\* Of the gateways only q runs, and what was left behind.
OnlyGateway(q) == \A p \in Running(gateways) : p = q \/ Gateway(p) \in lost

\* The lock's holder is the call that is at the gateway; while it is there, what
\* runs is the process it has spawned.
GatewayInv ==
  /\ \A c \in Calls : AtGateway(c) <=> gatelock = c
  /\ gatelock = NoCall => OnlyGateway(gatepid)
  /\ \A c \in Calls :
       /\ call[c].pc = "spawned" => OnlyGateway(call[c].pid)
       /\ call[c].pc = "probing" => OnlyGateway(gatepid)

\* Of the connectors only q runs, and what was left behind; Current: with the token
\* of the file.
OnlyConnector(q) == \A p \in Running(connectors) : p = q \/ Connector(p) \in lost
Current(q) ==
  \A p \in Running(connectors) : (p = q /\ connectors[p].of = token) \/ Connector(p) \in lost

\* The same for the connector; between the write of the token and the stop of the
\* old connector the one that runs may have another token.
ConnectorInv ==
  /\ \A c \in Calls : AtConnector(c) <=> connlock = c
  /\ connlock = NoCall => Current(connpid)
  /\ \A c \in Calls :
       /\ call[c].pc \in {"token", "checking", "polling"} => Current(connpid)
       /\ call[c].pc = "stopping" => OnlyConnector(connpid)
       /\ call[c].pc = "launched" => Current(call[c].pid)

ProcessInv == ProcessTypes /\ GatewayInv /\ ConnectorInv

\* Stopping a process changes no other, and starts none.
LEMMA StoppedProcesses ==
  ASSUME NEW f \in Processes, NEW p
  PROVE  /\ Stopped(f, p) \in Processes
         /\ Running(Stopped(f, p)) = Running(f) \ {p}
         /\ \A q \in Pids : Stopped(f, p)[q].of = f[q].of
<1>1. \A q \in Pids : /\ Stopped(f, p)[q] \in [state : ProcessStates, of : 0 .. MaxUpgrades]
                      /\ Stopped(f, p)[q].of = f[q].of
                      /\ Stopped(f, p)[q].state =
                           IF q = p /\ q \in Running(f) THEN "dead" ELSE f[q].state
  BY DEF Stopped, Processes, ProcessStates
<1>2. Stopped(f, p) \in Processes
  BY <1>1 DEF Stopped, Processes
<1> QED
  BY <1>1, <1>2 DEF Running

\* A call's move changes its own record only.
LEMMA CallMoves ==
  ASSUME call \in [Calls -> CallRecords], NEW c \in Calls, NEW pc, Goes(c, pc)
  PROVE  /\ call'[c].pc = pc /\ call'[c].pid = call[c].pid /\ call'[c].got = call[c].got
         /\ \A d \in Calls \ {c} : call'[d] = call[d]
BY DEF Goes, CallRecords

\* Every step keeps the types.
LEMMA ProcessTypesStep ==
  ASSUME ProcessTypes, [ProcessNext]_processVars
  PROVE  ProcessTypes'
<1> USE DEF ProcessTypes, gatewayProcess, connectorProcess
<1>0. NoCall \notin Calls /\ Pids \subseteq 0 .. MaxPids /\ 1 .. MaxUpgrades \subseteq 0 .. MaxUpgrades
  BY ProcessesAssumption DEF Pids
<1>1. CASE UNCHANGED processVars
  BY <1>1 DEF processVars
<1>2. ASSUME NEW c \in Calls, CallStep(c) \/ CallDies(c) PROVE ProcessTypes'
  <2>1. call' \in [Calls -> CallRecords]
    BY <1>0, <1>2 DEF CallStep, CallDies, CheckGateway, ReplaceGateway, RecordGateway,
       AwaitGateway, EnsureTunnel, WriteToken, StopConnector, StartConnector,
       CloudflaredFails, RecordConnector, AwaitConnector, Goes, CallRecords, FreshPids
  <2>2. gateways' \in Processes
    <3>1. CASE ReplaceGateway(c)
      <4>1. {gateways, Stopped(gateways, gatepid)} \subseteq Processes
        BY StoppedProcesses
      <4>2. \A f \in Processes, p \in Pids :
              [f EXCEPT ![p] = [state |-> "starting", of |-> package]] \in Processes
        BY <1>0 DEF Processes, ProcessStates
      <4> QED
        BY <3>1, <4>1, <4>2 DEF ReplaceGateway, FreshPids
    <3>2. CASE ~ReplaceGateway(c)
      BY <1>2, <3>2 DEF CallStep, CallDies, CheckGateway, RecordGateway,
         AwaitGateway, EnsureTunnel, WriteToken, StopConnector, StartConnector,
         CloudflaredFails, RecordConnector, AwaitConnector
    <3> QED
      BY <3>1, <3>2
  <2>3. connectors' \in Processes
    <3>1. CASE StartConnector(c)
      <4>1. \A p \in Pids : [connectors EXCEPT ![p] = [state |-> "starting", of |-> token]]
                               \in Processes
        BY DEF Processes, ProcessStates
      <4> QED
        BY <3>1, <4>1 DEF StartConnector, FreshPids
    <3>2. CASE ~StartConnector(c)
      BY <1>2, <3>2, StoppedProcesses DEF CallStep, CallDies, CheckGateway, ReplaceGateway,
         RecordGateway, AwaitGateway, EnsureTunnel, WriteToken, StopConnector,
         CloudflaredFails, RecordConnector, AwaitConnector
    <3> QED
      BY <3>1, <3>2
  <2>4. /\ package' \in 1 .. MaxUpgrades /\ tunnel' \in 1 .. MaxUpgrades
        /\ token' \in 0 .. MaxUpgrades
        /\ gatepid' \in 0 .. MaxPids /\ connpid' \in 0 .. MaxPids
        /\ gatelock' \in Calls \union {NoCall} /\ connlock' \in Calls \union {NoCall}
    BY <1>2 DEF CallStep, CallDies, CheckGateway, ReplaceGateway, RecordGateway,
       AwaitGateway, EnsureTunnel, WriteToken, StopConnector, StartConnector,
       CloudflaredFails, RecordConnector, AwaitConnector, CallRecords
  <2>5. lost' \subseteq {"gateway", "connector"} \X (0 .. MaxPids)
    <3>1. call[c].pid \in 0 .. MaxPids
      BY DEF CallRecords
    <3>2. CASE CallDies(c)
      BY <3>1, <3>2 DEF CallDies, Gateway, Connector
    <3>3. CASE ReplaceGateway(c)
      BY <3>3 DEF ReplaceGateway, StopRecorded, Gateway
    <3>4. CASE StopConnector(c) \/ StartConnector(c)
      BY <3>4 DEF StopConnector, StartConnector, Connector
    <3>5. CASE ~(CallDies(c) \/ ReplaceGateway(c) \/ StopConnector(c) \/ StartConnector(c))
      BY <1>2, <3>5 DEF CallStep, CheckGateway, RecordGateway, AwaitGateway, EnsureTunnel,
         WriteToken, CloudflaredFails, RecordConnector, AwaitConnector
    <3> QED
      BY <3>2, <3>3, <3>4, <3>5
  <2>6. stumbles' \in 0 .. MaxStumbles
    <3>1. Stumble \/ stumbles' = stumbles
      BY <1>2 DEF CallStep, CallDies, CheckGateway, ReplaceGateway, StopRecorded, RecordGateway,
         AwaitGateway, EnsureTunnel, WriteToken, StopConnector, StartConnector,
         CloudflaredFails, RecordConnector, AwaitConnector
    <3> QED
      BY <3>1, ProcessesAssumption DEF Stumble
  <2> QED
    BY <2>1, <2>2, <2>3, <2>4, <2>5, <2>6
<1>3. ASSUME NEW p \in Pids, GatewayServes(p) \/ ConnectorServes(p) \/ ProcessDies(p)
      PROVE  ProcessTypes'
  <2>1. gateways' \in Processes /\ connectors' \in Processes
    <3>1. CASE GatewayServes(p)
      <4>1. \A s \in ProcessStates : [gateways EXCEPT ![p].state = s] \in Processes
        BY DEF Processes
      <4> QED
        BY <3>1, <4>1 DEF GatewayServes, ProcessStates
    <3>2. CASE ConnectorServes(p)
      <4>1. \A s \in ProcessStates : [connectors EXCEPT ![p].state = s] \in Processes
        BY DEF Processes
      <4> QED
        BY <3>2, <4>1 DEF ConnectorServes, ProcessStates
    <3>3. CASE ProcessDies(p)
      BY <3>3, StoppedProcesses DEF ProcessDies
    <3> QED
      BY <1>3, <3>1, <3>2, <3>3
  <2>2. /\ UNCHANGED <<package, gatepid, gatelock, tunnel, token, connpid, connlock, call, lost>>
        /\ Stumble \/ stumbles' = stumbles
    BY <1>3 DEF GatewayServes, ConnectorServes, ProcessDies
  <2>3. stumbles' \in 0 .. MaxStumbles
    BY <2>2, ProcessesAssumption DEF Stumble
  <2> QED
    BY <2>1, <2>2, <2>3
<1>4. CASE Upgrade \/ RecreateTunnel
  BY <1>4, ProcessesAssumption DEF Upgrade, RecreateTunnel
<1> QED
  BY <1>1, <1>2, <1>3, <1>4 DEF ProcessNext, ServerStep

\* The processes' own steps start nothing.
LEMMA ServersStartNothing ==
  ASSUME ProcessTypes, NEW p \in Pids, GatewayServes(p) \/ ConnectorServes(p) \/ ProcessDies(p)
  PROVE  /\ Running(gateways') \subseteq Running(gateways)
         /\ Running(connectors') \subseteq Running(connectors)
         /\ \A q \in Pids : connectors'[q].of = connectors[q].of
         /\ UNCHANGED <<gatepid, connpid, token, call, gatelock, connlock, lost>>
<1>1. CASE GatewayServes(p)
  BY <1>1 DEF GatewayServes, connectorProcess, ProcessTypes, Processes, ProcessStates, Running
<1>2. CASE ConnectorServes(p)
  BY <1>2 DEF ConnectorServes, gatewayProcess, ProcessTypes, Processes, ProcessStates, Running
<1>3. CASE ProcessDies(p)
  BY <1>3, StoppedProcesses DEF ProcessDies, ProcessTypes
<1> QED
  BY <1>1, <1>2, <1>3

\* Every step keeps GatewayInv.
LEMMA GatewayInvStep ==
  ASSUME ProcessTypes, GatewayInv, [ProcessNext]_processVars
  PROVE  GatewayInv'
<1>0. /\ NoCall \notin Calls /\ call \in [Calls -> CallRecords] /\ gateways \in Processes
  BY ProcessesAssumption DEF ProcessTypes
<1> USE DEF GatewayInv, AtGateway, OnlyGateway
<1>1. CASE UNCHANGED processVars
  BY <1>1 DEF processVars, Running
<1>2. ASSUME NEW c \in Calls, CallStep(c) \/ CallDies(c) PROVE GatewayInv'
  <2>1. CASE CheckGateway(c)
    BY <1>0, <2>1, CallMoves DEF CheckGateway, gatewayProcess
  <2>2. CASE ReplaceGateway(c) /\ Healthy
    BY <1>0, <2>2, CallMoves DEF ReplaceGateway
  <2>3. CASE ReplaceGateway(c) /\ ~Healthy
    <3>1. PICK stopped \in {gateways, Stopped(gateways, gatepid)}, p \in Pids :
            /\ StopRecorded(stopped)
            /\ gateways' = [stopped EXCEPT ![p] = [state |-> "starting", of |-> package]]
            /\ gatelock' = c
            /\ call' = [call EXCEPT ![c].pc = "spawned", ![c].pid = p]
      BY <2>3 DEF ReplaceGateway, FreshPids
    <3>2. gatelock = NoCall /\ UNCHANGED gatepid
      BY <2>3 DEF ReplaceGateway
    <3>3. /\ call'[c].pc = "spawned" /\ call'[c].pid = p
          /\ \A d \in Calls \ {c} : call'[d] = call[d]
      BY <1>0, <3>1 DEF CallRecords
    <3>4. \A q \in Running(gateways') : q = p \/ Gateway(q) \in lost'
      <4>1. /\ lost \subseteq lost'
            /\ \A q \in Running(stopped) : Gateway(q) \in lost'
        BY <1>0, <3>1, <3>2, StoppedProcesses DEF StopRecorded
      <4>2. \A q \in Pids \ {p} : gateways'[q] = stopped[q]
        BY <1>0, <3>1, StoppedProcesses DEF Processes
      <4> QED
        BY <4>1, <4>2 DEF Running
    <3> QED
      BY <1>0, <3>1, <3>2, <3>3, <3>4
  <2>4. CASE RecordGateway(c)
    BY <1>0, <2>4, CallMoves DEF RecordGateway
  <2>5. CASE AwaitGateway(c)
    BY <1>0, <2>5, CallMoves DEF AwaitGateway
  <2>6. CASE EnsureTunnel(c)
    <3>1. /\ call'[c].pc \in {"token", "failed"}
          /\ \A d \in Calls \ {c} : call'[d] = call[d]
      BY <1>0, <2>6, CallMoves DEF EnsureTunnel, CallRecords
    <3> QED
      BY <1>0, <2>6, <3>1 DEF EnsureTunnel, gatewayProcess
  <2>7. CASE WriteToken(c)
    BY <1>0, <2>7, CallMoves DEF WriteToken, gatewayProcess
  <2>8. CASE StopConnector(c)
    <3>1. UNCHANGED <<gateways, gatepid, gatelock>> /\ lost \subseteq lost'
      BY <2>8 DEF StopConnector, gatewayProcess
    <3>2. Goes(c, "checking") \/ Goes(c, "failed")
      BY <2>8 DEF StopConnector
    <3> QED
      BY <1>0, <2>8, <3>1, <3>2, CallMoves DEF StopConnector
  <2>9. CASE StartConnector(c)
    <3>1. /\ call'[c].pc \in {"ready", "launched"}
          /\ \A d \in Calls \ {c} : call'[d] = call[d]
      BY <1>0, <2>9, CallMoves DEF StartConnector, CallRecords
    <3>2. call[c].pc = "checking" /\ UNCHANGED gatewayProcess /\ lost \subseteq lost'
      BY <2>9 DEF StartConnector
    <3> QED
      BY <1>0, <3>1, <3>2 DEF gatewayProcess
  <2>10. CASE CloudflaredFails(c) \/ RecordConnector(c) \/ AwaitConnector(c)
    BY <1>0, <2>10, CallMoves DEF CloudflaredFails, RecordConnector, AwaitConnector, gatewayProcess
  <2>11. CASE CallDies(c)
    <3>1. lost \subseteq lost' /\ (call[c].pc = "spawned" => Gateway(call[c].pid) \in lost')
      BY <2>11, Zenon DEF CallDies
    <3>2. UNCHANGED <<gateways, gatepid>> /\ Goes(c, "dead")
          /\ gatelock' = IF gatelock = c THEN NoCall ELSE gatelock
      BY <2>11 DEF CallDies
    <3> QED
      BY <1>0, <3>1, <3>2, CallMoves DEF CallRecords
  <2> QED
    BY <1>2, <2>1, <2>2, <2>3, <2>4, <2>5, <2>6, <2>7, <2>8, <2>9, <2>10, <2>11 DEF CallStep
<1>3. ASSUME NEW p \in Pids, GatewayServes(p) \/ ConnectorServes(p) \/ ProcessDies(p)
      PROVE  GatewayInv'
  BY <1>3, ServersStartNothing
<1>4. CASE Upgrade \/ RecreateTunnel
  BY <1>4 DEF Upgrade, RecreateTunnel, connectorProcess, gatewayProcess, Running
<1> QED
  BY <1>1, <1>2, <1>3, <1>4 DEF ProcessNext, ServerStep

\* Every step keeps ConnectorInv.
LEMMA ConnectorInvStep ==
  ASSUME ProcessTypes, ConnectorInv, [ProcessNext]_processVars
  PROVE  ConnectorInv'
<1>0. /\ NoCall \notin Calls /\ call \in [Calls -> CallRecords] /\ connectors \in Processes
  BY ProcessesAssumption DEF ProcessTypes
<1> USE DEF ConnectorInv, AtConnector, Current, OnlyConnector
<1>1. CASE UNCHANGED processVars
  BY <1>1 DEF processVars, Running
<1>2. ASSUME NEW c \in Calls, CallStep(c) \/ CallDies(c) PROVE ConnectorInv'
  <2>1. CASE CheckGateway(c) \/ RecordGateway(c) \/ AwaitGateway(c)
    BY <1>0, <2>1, CallMoves DEF CheckGateway, RecordGateway, AwaitGateway, connectorProcess
  <2>2. CASE ReplaceGateway(c)
    <3>1. /\ call'[c].pc \in {"connector", "spawned"}
          /\ \A d \in Calls \ {c} : call'[d] = call[d]
      BY <1>0, <2>2, CallMoves DEF ReplaceGateway, CallRecords
    <3>2. call[c].pc = "gateway" /\ UNCHANGED connectorProcess /\ lost \subseteq lost'
      BY <2>2 DEF ReplaceGateway, StopRecorded
    <3> QED
      BY <1>0, <3>1, <3>2 DEF connectorProcess
  <2>3. CASE EnsureTunnel(c)
    <3>1. \A d \in Calls \ {c} : call'[d] = call[d]
      BY <1>0, <2>3, CallMoves DEF EnsureTunnel, CallRecords
    <3>2. \/ call'[c].pc = "token" /\ connlock' = c
          \/ call'[c].pc = "failed" /\ connlock' = connlock
      BY <1>0, <2>3, CallMoves DEF EnsureTunnel, CallRecords
    <3>3. /\ call[c].pc = "connector" /\ connlock = NoCall
          /\ UNCHANGED <<token, connectors, connpid, lost>>
      BY <2>3 DEF EnsureTunnel
    <3> QED
      BY <1>0, <3>1, <3>2, <3>3
  <2>4. CASE WriteToken(c)
    <3>1. /\ call[c].pc = "token" /\ UNCHANGED <<connectors, connpid, connlock, lost>>
          /\ (call'[c].pc = "checking" /\ token' = token) \/ call'[c].pc = "stopping"
          /\ \A d \in Calls \ {c} : call'[d] = call[d]
      BY <1>0, <2>4, CallMoves DEF WriteToken
    <3> QED
      BY <1>0, <3>1
  <2>5. CASE StopConnector(c)
    <3>1. call[c].pc = "stopping" /\ UNCHANGED <<token, connpid>>
      BY <2>5 DEF StopConnector
    <3>2. CASE /\ connectors' = Stopped(connectors, connpid)
               /\ Goes(c, "checking") /\ UNCHANGED <<connlock, lost>>
      <4>1. \A q \in Running(connectors') : Connector(q) \in lost'
        BY <1>0, <3>1, <3>2, StoppedProcesses
      <4> QED
        BY <1>0, <3>1, <3>2, <4>1, CallMoves
    <3>3. CASE /\ lost' = lost \union {Connector(connpid)} /\ UNCHANGED connectors
               /\ \/ Goes(c, "failed") /\ connlock' = NoCall
                  \/ Goes(c, "checking") /\ UNCHANGED connlock
      <4>1. \A q \in Running(connectors') : Connector(q) \in lost'
        BY <3>1, <3>3
      <4>2. \/ call'[c].pc = "failed" /\ connlock' = NoCall
            \/ call'[c].pc = "checking" /\ connlock' = connlock
        BY <1>0, <3>3, CallMoves
      <4>3. \A d \in Calls \ {c} : call'[d] = call[d]
        BY <1>0, <3>3, CallMoves
      <4> QED
        BY <1>0, <3>1, <4>1, <4>2, <4>3
    <3> QED
      BY <2>5, <3>2, <3>3 DEF StopConnector
  <2>6. CASE StartConnector(c)
    <3>1. call[c].pc = "checking" /\ UNCHANGED <<token, connpid>>
      BY <2>6 DEF StartConnector
    <3>2. CASE connlock' = NoCall /\ Goes(c, "ready") /\ UNCHANGED <<connectors, lost>>
      BY <1>0, <3>1, <3>2, CallMoves
    <3>3. CASE /\ \/ connpid \notin Running(connectors) /\ lost' = lost
                  \/ lost' = lost \union {Connector(connpid)}
               /\ connlock' = connlock
               /\ \E p \in FreshPids(connectors) :
                    /\ connectors' = [connectors EXCEPT ![p] = [state |-> "starting", of |-> token]]
                    /\ call' = [call EXCEPT ![c].pc = "launched", ![c].pid = p]
      <4>1. PICK p \in Pids :
              /\ connectors' = [connectors EXCEPT ![p] = [state |-> "starting", of |-> token]]
              /\ call' = [call EXCEPT ![c].pc = "launched", ![c].pid = p]
        BY <3>3 DEF FreshPids
      <4>2. /\ call'[c].pc = "launched" /\ call'[c].pid = p
            /\ \A d \in Calls \ {c} : call'[d] = call[d]
        BY <1>0, <4>1 DEF CallRecords
      <4>3. \A q \in Running(connectors) : Connector(q) \in lost'
        BY <3>1, <3>3
      <4>4. \A q \in Running(connectors') :
              (q = p /\ connectors'[q].of = token) \/ Connector(q) \in lost'
        BY <1>0, <4>1, <4>3 DEF Running, Processes
      <4>5. connlock = c /\ connlock' = c /\ \A d \in Calls \ {c} : ~AtConnector(d)
        BY <1>0, <3>1, <3>3
      <4>6. ASSUME NEW d \in Calls
            PROVE  /\ AtConnector(d)' <=> connlock' = d
                   /\ (call[d].pc \in {"token", "checking", "polling"} => Current(connpid))'
                   /\ (call[d].pc = "stopping" => OnlyConnector(connpid))'
                   /\ (call[d].pc = "launched" => Current(call[d].pid))'
        <5>1. CASE d = c
          <6>1. call'[d].pc = "launched" /\ call'[d].pid = p /\ connlock' = d
            BY <4>2, <4>5, <5>1
          <6>2. Current(call[d].pid)'
            BY <3>1, <4>4, <6>1
          <6> QED
            BY <6>1, <6>2
        <5>2. CASE d # c
          <6>1. call'[d] = call[d] /\ call[d].pc \notin {"token", "stopping", "checking", "launched", "polling"}
            BY <4>2, <4>5, <5>2
          <6> QED
            BY <4>5, <5>2, <6>1
        <5> QED
          BY <5>1, <5>2
      <4>7. connlock' # NoCall
        BY <1>0, <4>5
      <4> QED
        BY <4>6, <4>7
    <3> QED
      BY <2>6, <3>2, <3>3 DEF StartConnector
  <2>7. CASE CloudflaredFails(c)
    BY <1>0, <2>7, CallMoves DEF CloudflaredFails
  <2>8. CASE RecordConnector(c)
    BY <1>0, <2>8, CallMoves DEF RecordConnector
  <2>9. CASE AwaitConnector(c)
    <3>1. /\ call[c].pc = "polling" /\ connlock' = NoCall
          /\ UNCHANGED <<token, connpid, lost>>
          /\ Goes(c, "ready") \/ Goes(c, "failed")
      BY <2>9 DEF AwaitConnector
    <3>2. Running(connectors') \subseteq Running(connectors)
          /\ \A q \in Pids : connectors'[q].of = connectors[q].of
      BY <1>0, <2>9, StoppedProcesses DEF AwaitConnector
    <3> QED
      BY <1>0, <3>1, <3>2, CallMoves DEF Running
  <2>10. CASE CallDies(c)
    <3>1. /\ lost \subseteq lost'
          /\ call[c].pc = "stopping" => Connector(connpid) \in lost'
          /\ call[c].pc = "launched" => Connector(call[c].pid) \in lost'
      BY <2>10, Zenon DEF CallDies
    <3>2. UNCHANGED <<token, connectors, connpid>> /\ Goes(c, "dead")
          /\ connlock' = IF connlock = c THEN NoCall ELSE connlock
      BY <2>10 DEF CallDies
    <3> QED
      BY <1>0, <3>1, <3>2, CallMoves DEF CallRecords
  <2> QED
    BY <1>2, <2>1, <2>2, <2>3, <2>4, <2>5, <2>6, <2>7, <2>8, <2>9, <2>10 DEF CallStep
<1>3. ASSUME NEW p \in Pids, GatewayServes(p) \/ ConnectorServes(p) \/ ProcessDies(p)
      PROVE  ConnectorInv'
  BY <1>3, ServersStartNothing DEF Running
<1>4. CASE Upgrade \/ RecreateTunnel
  BY <1>4 DEF Upgrade, RecreateTunnel, connectorProcess, gatewayProcess, Running
<1> QED
  BY <1>1, <1>2, <1>3, <1>4 DEF ProcessNext, ServerStep

\* For any number of calls, processes, upgrades, recreated tunnels and failures:
\* between calls only the recorded gateway and the recorded connector run, the
\* latter with the token of the token file, and what a call left behind that died
\* before it had recorded it or that could not stop it (tool.py, connector.py).
THEOREM ProcessesAreRecorded ==
  ProcessSpec => [](ProcessTypeOK /\ GatewayIsRecorded /\ ConnectorIsCurrent)
<1>1. ProcessInit => ProcessInv
  <2> SUFFICES ASSUME ProcessInit PROVE ProcessInv
    OBVIOUS
  <2>1. gateways \in Processes /\ connectors \in Processes /\ call \in [Calls -> CallRecords]
    BY ProcessesAssumption DEF ProcessInit, NoProcess, Processes, ProcessStates, CallRecords
  <2>2. Running(gateways) = {} /\ Running(connectors) = {}
    BY DEF ProcessInit, NoProcess, Running
  <2>3. \A c \in Calls : call[c].pc = "begin"
    BY DEF ProcessInit
  <2>4. ProcessTypes
    <3>1. 1 \in 1 .. MaxUpgrades /\ 0 \in 0 .. MaxUpgrades /\ 0 \in 0 .. MaxPids /\ 0 \in 0 .. MaxStumbles
      BY ProcessesAssumption
    <3>2. /\ package = 1 /\ tunnel = 1 /\ token = 0 /\ gatepid = 0 /\ connpid = 0 /\ stumbles = 0
          /\ gatelock = NoCall /\ connlock = NoCall /\ lost = {}
      BY DEF ProcessInit
    <3> QED
      BY <2>1, <3>1, <3>2 DEF ProcessTypes
  <2>5. GatewayInv /\ ConnectorInv
    BY <2>2, <2>3, ProcessesAssumption
    DEF ProcessInit, GatewayInv, ConnectorInv, AtGateway, AtConnector, Current, OnlyGateway,
        OnlyConnector
  <2> QED
    BY <2>4, <2>5 DEF ProcessInv
<1>2. ProcessInv /\ [ProcessNext]_processVars => ProcessInv'
  BY ProcessTypesStep, GatewayInvStep, ConnectorInvStep DEF ProcessInv
<1>3. ProcessInv => GatewayIsRecorded /\ ConnectorIsCurrent
  BY DEF ProcessInv, GatewayInv, OnlyGateway, ConnectorInv, Current, GatewayIsRecorded, ConnectorIsCurrent
<1>4. ProcessInv => ProcessTypeOK
  BY DEF ProcessInv, ProcessTypes, ProcessTypeOK, Processes, ProcessStates, CallRecords
<1> QED
  BY <1>1, <1>2, <1>3, <1>4, PTL DEF ProcessSpec

-----------------------------------------------------------------------------
(* The gateway's registries.                                               *)

Registry(f) == \E n \in Nat : DOMAIN f = 1 .. n

\* A new entry is numbered after all that are there, and changes none.
LEMMA ExtendIs ==
  ASSUME NEW f, Registry(f), NEW x
  PROVE  /\ NextOf(f) \in Nat \ {0} /\ NextOf(f) \notin DOMAIN f
         /\ DOMAIN Extend(f, x) = DOMAIN f \union {NextOf(f)}
         /\ Registry(Extend(f, x))
         /\ Extend(f, x)[NextOf(f)] = x
         /\ \A i \in DOMAIN f : Extend(f, x)[i] = f[i]
<1>1. PICK n \in Nat : DOMAIN f = 1 .. n
  BY DEF Registry
<1>2. Cardinality(1 .. n) = n
  BY FS_Interval
<1>3. NextOf(f) = n + 1
  BY <1>1, <1>2 DEF NextOf
<1>4. (1 .. n) \union {n + 1} = 1 .. (n + 1) /\ n + 1 \in Nat
  OBVIOUS
<1> QED
  BY <1>1, <1>3, <1>4 DEF Extend, Registry

ConnectionRecords ==
  [session : Visuals, ends : Nat, live : BOOLEAN, key : {"agreed", "zero"},
   used : SUBSET RequestIds, jar : Nat, app : Nat, busy : BOOLEAN]
HandoffRecords == [session : Visuals, ends : Nat, live : BOOLEAN]
ThreadRecords ==
  [pc : {"free", "authorized", "reserved", "opened", "upstream", "captured",
         "answered", "unreadable", "refused"},
   conn : Nat, id : RequestIds \union {0}, cookie : Nat]

GatewayTypes ==
  /\ grant \in [Browsers -> Visuals \union {NoVisual}]
  /\ config \in [Browsers -> Nat]
  /\ Registry(conns) /\ DOMAIN conns \subseteq Connections
  /\ \A c \in DOMAIN conns : conns[c] \in ConnectionRecords
  /\ Registry(handoffs) /\ DOMAIN grants = DOMAIN handoffs
  /\ \A h \in DOMAIN handoffs : handoffs[h] \in HandoffRecords
  /\ thread \in [Threads -> ThreadRecords]
  /\ forwarded \in [Connections \X RequestIds -> Nat]

\* Pruning and eviction change a connection only by ending it.
LEMMA WipedConnections ==
  ASSUME \A c \in DOMAIN conns : conns[c] \in ConnectionRecords, NEW gone
  PROVE  /\ DOMAIN Wipe(gone) = DOMAIN conns
         /\ \A c \in DOMAIN conns :
              /\ Wipe(gone)[c] \in ConnectionRecords
              /\ c \notin gone => Wipe(gone)[c] = conns[c]
              /\ c \in gone => ~Wipe(gone)[c].live
BY DEF Wipe, ConnectionRecords

\* Dropping a handoff changes it only by ending it.
LEMMA DroppedHandoffs ==
  ASSUME NEW f, \A h \in DOMAIN f : f[h] \in HandoffRecords, NEW gone
  PROVE  /\ DOMAIN Drop(f, gone) = DOMAIN f
         /\ \A h \in DOMAIN f :
              /\ Drop(f, gone)[h] \in HandoffRecords
              /\ Drop(f, gone)[h].live => f[h].live /\ h \notin gone
BY DEF Drop, HandoffRecords

\* A handoff that has let a browser in is gone, and it lets in one.
HandoffInv ==
  \A h \in DOMAIN grants :
    /\ grants[h] = {} \/ (~handoffs[h].live /\ \E b \in Browsers : grants[h] = {b})

\* A thread that was let in and has not been forwarded.
Admitted(t, c, i) == thread[t].pc \in {"reserved", "opened"} /\ thread[t].conn = c /\ thread[t].id = i

\* The id of a request that was let in stays used for as long as its connection
\* lives, and one thread has it; a connection never comes back to life.
RequestInv ==
  /\ \A b \in Browsers : config[b] = 0 \/ config[b] \in DOMAIN conns
  /\ \A t \in Threads : thread[t].pc # "free" =>
       thread[t].conn \in DOMAIN conns /\ thread[t].id \in RequestIds
  /\ \A c \in Connections, i \in RequestIds :
       /\ c \notin DOMAIN conns => forwarded[<<c, i>>] = 0
       /\ c \in DOMAIN conns =>
            \/ ~conns[c].live
            \/ i \in conns[c].used
            \/ forwarded[<<c, i>>] = 0 /\ \A t \in Threads : ~Admitted(t, c, i)
       /\ \A t, u \in Threads : Admitted(t, c, i) /\ Admitted(u, c, i) => t = u
       /\ (\E t \in Threads : Admitted(t, c, i)) => forwarded[<<c, i>>] = 0
       /\ forwarded[<<c, i>>] <= 1

RegistryInv == GatewayTypes /\ HandoffInv /\ RequestInv

\* Every step keeps the browsers' part.
LEMMA HandoffInvStep ==
  ASSUME RegistryInv, [GatewayNext]_gatewayVars
  PROVE  /\ HandoffInv' /\ Registry(handoffs') /\ DOMAIN grants' = DOMAIN handoffs'
         /\ \A h \in DOMAIN handoffs' : handoffs'[h] \in HandoffRecords
         /\ grant' \in [Browsers -> Visuals \union {NoVisual}]
<1>0. GatewayTypes /\ HandoffInv
  BY DEF RegistryInv
<1>1. CASE UNCHANGED <<grant, grants, handoffs>>
  BY <1>0, <1>1 DEF GatewayTypes, HandoffInv
<1>2. ASSUME NEW b \in Browsers, NEW s \in Visuals, Authorize(b, s)
      PROVE  UNCHANGED <<grants, handoffs>> /\ grant' \in [Browsers -> Visuals \union {NoVisual}]
  BY <1>0, <1>2 DEF Authorize, GatewayTypes
<1>3. ASSUME NEW b \in Browsers, CreateHandoff(b)
      PROVE  /\ HandoffInv' /\ Registry(handoffs') /\ DOMAIN grants' = DOMAIN handoffs'
             /\ \A h \in DOMAIN handoffs' : handoffs'[h] \in HandoffRecords
             /\ grant' = grant
  <2>1. PICK room :
          /\ DOMAIN room = DOMAIN handoffs
          /\ \A h \in DOMAIN handoffs :
               room[h] \in HandoffRecords /\ (room[h].live => handoffs[h].live)
          /\ handoffs' = Extend(room, [session |-> grant[b], ends |-> EndOf[grant[b]],
                                       live |-> TRUE])
    <3> DEFINE kept == Drop(handoffs, Ended(handoffs))
    <3>1. /\ DOMAIN kept = DOMAIN handoffs
          /\ \A h \in DOMAIN handoffs :
               kept[h] \in HandoffRecords /\ (kept[h].live => handoffs[h].live)
      BY <1>0, DroppedHandoffs DEF GatewayTypes
    <3> HIDE DEF kept
    <3>2. LET dropped == Drop(kept, {Oldest(kept)}) IN
          /\ DOMAIN dropped = DOMAIN handoffs
          /\ \A h \in DOMAIN handoffs :
               dropped[h] \in HandoffRecords /\ (dropped[h].live => handoffs[h].live)
      BY <3>1, DroppedHandoffs
    <3>3. \/ handoffs' = Extend(kept, [session |-> grant[b], ends |-> EndOf[grant[b]],
                                       live |-> TRUE])
          \/ handoffs' = Extend(Drop(kept, {Oldest(kept)}),
                                [session |-> grant[b], ends |-> EndOf[grant[b]], live |-> TRUE])
      BY <1>3, Zenon DEF CreateHandoff, kept
    <3> QED
      BY <3>1, <3>2, <3>3
  <2>2. Registry(room) /\ NextOf(room) = NextOf(handoffs)
    BY <1>0, <2>1 DEF GatewayTypes, Registry, NextOf
  <2>3. Registry(grants) /\ NextOf(grants) = NextOf(handoffs) /\ grants' = Extend(grants, {})
    BY <1>0, <1>3 DEF CreateHandoff, GatewayTypes, Registry, NextOf
  <2>4. [session |-> grant[b], ends |-> EndOf[grant[b]], live |-> TRUE] \in HandoffRecords
    BY <1>0, <1>3, GatewayAssumption DEF CreateHandoff, Authorized, GatewayTypes, HandoffRecords
  <2>5. /\ DOMAIN handoffs' = DOMAIN handoffs \union {NextOf(handoffs)} /\ Registry(handoffs')
        /\ handoffs'[NextOf(handoffs)] \in HandoffRecords
        /\ \A h \in DOMAIN handoffs : handoffs'[h] = room[h]
    BY <2>1, <2>2, <2>4, ExtendIs
  <2>6. /\ DOMAIN grants' = DOMAIN grants \union {NextOf(handoffs)}
        /\ grants'[NextOf(handoffs)] = {}
        /\ \A h \in DOMAIN grants : grants'[h] = grants[h]
    <3>1. /\ DOMAIN Extend(grants, {}) = DOMAIN grants \union {NextOf(grants)}
          /\ Extend(grants, {})[NextOf(grants)] = {}
          /\ \A h \in DOMAIN grants : Extend(grants, {})[h] = grants[h]
      BY <2>3, ExtendIs
    <3> QED
      BY <2>3, <3>1
  <2>7. grant' = grant
    BY <1>3 DEF CreateHandoff
  <2>8. DOMAIN grants' = DOMAIN handoffs'
    BY <1>0, <2>5, <2>6 DEF GatewayTypes
  <2>9. \A h \in DOMAIN handoffs' : handoffs'[h] \in HandoffRecords
    BY <2>1, <2>5
  <2>10. HandoffInv'
    <3> SUFFICES ASSUME NEW h \in DOMAIN grants', grants'[h] # {}
                 PROVE  ~handoffs'[h].live /\ \E c \in Browsers : grants'[h] = {c}
      BY DEF HandoffInv
    <3>1. h \in DOMAIN handoffs /\ h \in DOMAIN grants /\ grants'[h] = grants[h]
      BY <1>0, <2>6 DEF GatewayTypes
    <3> QED
      BY <1>0, <2>1, <2>5, <3>1 DEF HandoffInv
  <2> QED
    BY <2>5, <2>7, <2>8, <2>9, <2>10
<1>4. ASSUME NEW b \in Browsers, NEW h \in HandoffIds, ConsumeHandoff(b, h)
      PROVE  /\ HandoffInv' /\ Registry(handoffs') /\ DOMAIN grants' = DOMAIN handoffs'
             /\ \A k \in DOMAIN handoffs' : handoffs'[k] \in HandoffRecords
             /\ grant' \in [Browsers -> Visuals \union {NoVisual}]
  <2>1. /\ h \in DOMAIN handoffs /\ handoffs' = Drop(handoffs, Ended(handoffs) \union {h})
        /\ \/ UNCHANGED <<grant, grants>>
           \/ /\ handoffs[h].live
              /\ grant' = [grant EXCEPT ![b] = handoffs[h].session]
              /\ grants' = [grants EXCEPT ![h] = @ \union {b}]
    BY <1>4 DEF ConsumeHandoff
  <2>2. /\ DOMAIN handoffs' = DOMAIN handoffs
        /\ \A k \in DOMAIN handoffs :
             /\ handoffs'[k] \in HandoffRecords
             /\ handoffs'[k].live => handoffs[k].live /\ k # h
    BY <1>0, <2>1, DroppedHandoffs DEF GatewayTypes
  <2>3. grant' \in [Browsers -> Visuals \union {NoVisual}]
    BY <1>0, <2>1 DEF GatewayTypes, HandoffRecords
  <2>4. Registry(handoffs') /\ DOMAIN grants' = DOMAIN handoffs'
    BY <1>0, <2>1, <2>2 DEF GatewayTypes, Registry
  <2>5. \A k \in DOMAIN grants :
          grants'[k] = grants[k] \/ (k = h /\ grants[k] = {} /\ grants'[k] = {b})
    BY <1>0, <2>1 DEF GatewayTypes, HandoffInv
  <2>6. HandoffInv'
    BY <1>0, <2>2, <2>4, <2>5 DEF HandoffInv, GatewayTypes, HandoffRecords
  <2> QED
    BY <2>2, <2>3, <2>4, <2>6
<1>5. ASSUME NEW b \in Browsers,
             Handshake(b) \/ \E t \in Threads, i \in RequestIds : Send(t, b, i)
      PROVE  UNCHANGED <<grant, grants, handoffs>>
  BY <1>5 DEF Handshake, Send
<1>6. ASSUME Tick \/ \E t \in Threads : GatewayStep(t)
      PROVE  UNCHANGED <<grant, grants, handoffs>>
  BY <1>6 DEF Tick, GatewayStep, Reserve, Decrypt, Forward, Capture, UpstreamFails, Seal
<1> QED
  BY <1>0, <1>1, <1>2, <1>3, <1>4, <1>5, <1>6 DEF GatewayNext, gatewayVars, GatewayTypes, HandoffInv

\* A thread's step changes its own record only.
LEMMA ThreadMoves ==
  ASSUME thread \in [Threads -> ThreadRecords], NEW t \in Threads, NEW pc, Ends(t, pc)
  PROVE  /\ thread'[t].pc = pc /\ thread'[t].conn = thread[t].conn /\ thread'[t].id = thread[t].id
         /\ \A u \in Threads \ {t} : thread'[u] = thread[u]
BY DEF Ends, ThreadRecords

\* A step that moves one thread out of those that are admitted, or none, and ends
\* connections without taking up ids, keeps RequestInv.
LEMMA RequestInvKept ==
  ASSUME RequestInv,
         UNCHANGED <<config, forwarded>>, DOMAIN conns' = DOMAIN conns,
         \A c \in DOMAIN conns : conns'[c].live =>
           conns[c].live /\ conns'[c].used = conns[c].used,
         \A t \in Threads : thread'[t].pc # "free" =>
           /\ thread[t].pc # "free"
           /\ thread'[t].conn = thread[t].conn /\ thread'[t].id = thread[t].id
           /\ thread'[t].pc \in {"reserved", "opened"} => thread[t].pc \in {"reserved", "opened"}
  PROVE  RequestInv'
<1>1. \A t \in Threads, c \in Connections, i \in RequestIds :
        Admitted(t, c, i)' => Admitted(t, c, i)
  BY DEF Admitted
<1> QED
  BY <1>1 DEF RequestInv

\* Every step keeps the types of the gateway.
LEMMA GatewayTypesStep ==
  ASSUME RegistryInv, [GatewayNext]_gatewayVars
  PROVE  /\ config' \in [Browsers -> Nat]
         /\ Registry(conns') /\ DOMAIN conns' \subseteq Connections
         /\ \A c \in DOMAIN conns' : conns'[c] \in ConnectionRecords
         /\ thread' \in [Threads -> ThreadRecords]
         /\ forwarded' \in [Connections \X RequestIds -> Nat]
<1>0. GatewayTypes /\ RequestInv
  BY DEF RegistryInv
<1> DEFINE Typed ==
      /\ config' \in [Browsers -> Nat]
      /\ Registry(conns') /\ DOMAIN conns' \subseteq Connections
      /\ \A c \in DOMAIN conns' : conns'[c] \in ConnectionRecords
      /\ thread' \in [Threads -> ThreadRecords]
      /\ forwarded' \in [Connections \X RequestIds -> Nat]
<1> SUFFICES Typed
  OBVIOUS
<1>1. CASE UNCHANGED <<config, conns, thread, forwarded>>
  BY <1>0, <1>1 DEF GatewayTypes
<1>2. ASSUME NEW b \in Browsers, Handshake(b) PROVE Typed
  <2>1. PICK gone :
          conns' = Extend(Wipe(gone), [session |-> grant[b], ends |-> EndOf[grant[b]], live |-> TRUE,
                                     key |-> "agreed", used |-> {}, jar |-> 0, app |-> 0,
                                     busy |-> FALSE])
    BY <1>2 DEF Handshake
  <2>2. /\ DOMAIN Wipe(gone) = DOMAIN conns
        /\ \A c \in DOMAIN conns : Wipe(gone)[c] \in ConnectionRecords
    BY <1>0, WipedConnections DEF GatewayTypes
  <2>3. Registry(Wipe(gone)) /\ NextOf(Wipe(gone)) = NextOf(conns)
    BY <1>0, <2>2 DEF GatewayTypes, Registry, NextOf
  <2>4. [session |-> grant[b], ends |-> EndOf[grant[b]], live |-> TRUE, key |-> "agreed",
         used |-> {}, jar |-> 0, app |-> 0, busy |-> FALSE] \in ConnectionRecords
    BY <1>0, <1>2, GatewayAssumption DEF Handshake, Authorized, GatewayTypes, ConnectionRecords
  <2>5. /\ DOMAIN conns' = DOMAIN conns \union {NextOf(conns)} /\ Registry(conns')
        /\ conns'[NextOf(conns)] \in ConnectionRecords /\ NextOf(conns) \in Nat
        /\ \A c \in DOMAIN conns : conns'[c] = Wipe(gone)[c]
    <3> DEFINE made == [session |-> grant[b], ends |-> EndOf[grant[b]], live |-> TRUE,
                        key |-> "agreed", used |-> {}, jar |-> 0, app |-> 0, busy |-> FALSE]
    <3>1. conns' = Extend(Wipe(gone), made) /\ made \in ConnectionRecords
      BY <2>1, <2>4
    <3> HIDE DEF made
    <3>2. LET new == Extend(Wipe(gone), made) IN
          /\ NextOf(Wipe(gone)) \in Nat \ {0} /\ Registry(new)
          /\ DOMAIN new = DOMAIN Wipe(gone) \union {NextOf(Wipe(gone))}
          /\ new[NextOf(Wipe(gone))] = made
          /\ \A c \in DOMAIN Wipe(gone) : new[c] = Wipe(gone)[c]
      BY <2>3, ExtendIs
    <3> QED
      BY <2>2, <2>3, <3>1, <3>2
  <2>6. NextOf(conns) \in Connections /\ config' = [config EXCEPT ![b] = NextOf(conns)]
        /\ UNCHANGED <<thread, forwarded>>
    BY <1>2 DEF Handshake
  <2> QED
    BY <1>0, <2>2, <2>5, <2>6 DEF GatewayTypes
<1>3. ASSUME NEW t \in Threads, NEW b \in Browsers, NEW i \in RequestIds, Send(t, b, i) PROVE Typed
  BY <1>0, <1>3 DEF Send, GatewayTypes, ThreadRecords
<1>4. ASSUME NEW t \in Threads, GatewayStep(t) PROVE Typed
  <2>1. CASE Reserve(t)
    <3>1. /\ DOMAIN Pruned = DOMAIN conns
          /\ \A c \in DOMAIN conns : Pruned[c] \in ConnectionRecords
      BY <1>0, WipedConnections DEF GatewayTypes, Pruned
    <3> HIDE DEF Typed
    <3>2. thread[t].conn \in DOMAIN conns /\ thread[t].id \in RequestIds
      BY <1>0, <2>1 DEF Reserve, RequestInv
    <3>3. /\ UNCHANGED <<config, forwarded>>
          /\ conns' = Pruned \/ conns' = [Pruned EXCEPT ![thread[t].conn].used = @ \union {thread[t].id}]
          /\ Ends(t, "reserved") \/ Ends(t, "refused")
      BY <2>1 DEF Reserve
    <3>4. DOMAIN conns' = DOMAIN conns /\ \A c \in DOMAIN conns : conns'[c] \in ConnectionRecords
      BY <3>1, <3>2, <3>3 DEF ConnectionRecords
    <3>5. thread' \in [Threads -> ThreadRecords]
      BY <1>0, <3>3 DEF Ends, GatewayTypes, ThreadRecords
    <3> QED
      BY <1>0, <3>3, <3>4, <3>5 DEF GatewayTypes, Registry, Typed
  <2>2. CASE Decrypt(t) \/ Seal(t)
    <3>1. /\ \E pc \in {"opened", "refused", "answered", "unreadable"} : Ends(t, pc)
          /\ UNCHANGED <<config, conns, forwarded>>
      BY <2>2 DEF Decrypt, Seal
    <3>2. thread' \in [Threads -> ThreadRecords]
      BY <1>0, <3>1 DEF Ends, GatewayTypes, ThreadRecords
    <3> QED
      BY <1>0, <3>1, <3>2 DEF GatewayTypes, Registry
  <2>3. CASE Forward(t)
    <3>1. thread[t].conn \in DOMAIN conns /\ thread[t].id \in RequestIds
      BY <1>0, <2>3 DEF Forward, RequestInv
    <3>2. /\ conns' = [conns EXCEPT ![thread[t].conn].busy = TRUE, ![thread[t].conn].app = @ + 1]
          /\ thread' = [thread EXCEPT ![t].pc = "upstream", ![t].cookie = conns[thread[t].conn].app + 1]
          /\ forwarded' = [forwarded EXCEPT ![<<thread[t].conn, thread[t].id>>] = @ + 1]
          /\ config' = config
      BY <2>3 DEF Forward
    <3>3. DOMAIN conns' = DOMAIN conns /\ \A c \in DOMAIN conns : conns'[c] \in ConnectionRecords
      <4>1. \A r \in ConnectionRecords, n \in Nat :
              r.app + 1 \in Nat /\ [r EXCEPT !.busy = TRUE, !.app = n] \in ConnectionRecords
        <5> SUFFICES ASSUME NEW r \in ConnectionRecords, NEW n \in Nat
                     PROVE  /\ r.app + 1 \in Nat
                            /\ [r EXCEPT !.busy = TRUE, !.app = n] \in ConnectionRecords
          OBVIOUS
        <5>1. r.app + 1 \in Nat
          BY DEF ConnectionRecords
        <5>2. [r EXCEPT !.busy = TRUE] \in ConnectionRecords
          BY DEF ConnectionRecords
        <5>3. \A q \in ConnectionRecords : [q EXCEPT !.app = n] \in ConnectionRecords
          BY DEF ConnectionRecords
        <5> QED
          BY <5>1, <5>2, <5>3
      <4>2. \A c \in DOMAIN conns :
              conns'[c] = IF c = thread[t].conn
                          THEN [conns[c] EXCEPT !.busy = TRUE, !.app = conns[c].app + 1] ELSE conns[c]
        BY <3>2
      <4> QED
        BY <1>0, <3>2, <4>1, <4>2 DEF GatewayTypes
    <3>4. thread' \in [Threads -> ThreadRecords]
      <4>1. conns[thread[t].conn].app + 1 \in Nat
        BY <1>0, <3>1 DEF GatewayTypes, ConnectionRecords
      <4>2. \A r \in ThreadRecords, n \in Nat :
              [r EXCEPT !.pc = "upstream", !.cookie = n] \in ThreadRecords
        BY DEF ThreadRecords
      <4>3. \A n \in Nat : [thread EXCEPT ![t].pc = "upstream", ![t].cookie = n]
                             \in [Threads -> ThreadRecords]
        BY <1>0, <4>2 DEF GatewayTypes
      <4> QED
        BY <3>2, <4>1, <4>3
    <3>5. forwarded' \in [Connections \X RequestIds -> Nat]
      BY <1>0, <3>1, <3>2 DEF GatewayTypes
    <3> QED
      BY <1>0, <3>2, <3>3, <3>4, <3>5 DEF GatewayTypes, Registry
  <2>4. CASE Capture(t) \/ UpstreamFails(t)
    <3>1. thread[t].conn \in DOMAIN conns
      BY <1>0, <2>4 DEF Capture, UpstreamFails, RequestInv
    <3>2. DOMAIN conns' = DOMAIN conns /\ \A c \in DOMAIN conns : conns'[c] \in ConnectionRecords
      <4>1. \A r \in ConnectionRecords, n \in Nat :
              /\ [r EXCEPT !.busy = FALSE] \in ConnectionRecords
              /\ [r EXCEPT !.jar = n, !.busy = FALSE] \in ConnectionRecords
        BY DEF ConnectionRecords
      <4>2. thread[t].cookie \in Nat
        BY <1>0 DEF GatewayTypes, ThreadRecords
      <4>3. DOMAIN conns' = DOMAIN conns /\ \A c \in DOMAIN conns :
              conns'[c] \in {conns[c], [conns[c] EXCEPT !.busy = FALSE],
                            [conns[c] EXCEPT !.jar = thread[t].cookie, !.busy = FALSE]}
        BY <2>4 DEF Capture, UpstreamFails
      <4> QED
        <5> SUFFICES ASSUME NEW c \in DOMAIN conns PROVE conns'[c] \in ConnectionRecords
          BY <4>3
        <5>1. conns[c] \in ConnectionRecords
          BY <1>0 DEF GatewayTypes
        <5>2. [conns[c] EXCEPT !.busy = FALSE] \in ConnectionRecords
          BY <4>1, <4>2, <5>1
        <5>3. [conns[c] EXCEPT !.jar = thread[t].cookie, !.busy = FALSE] \in ConnectionRecords
          BY <4>1, <4>2, <5>1
        <5> QED
          BY <4>3, <5>1, <5>2, <5>3
    <3>3. thread' \in [Threads -> ThreadRecords] /\ UNCHANGED <<config, forwarded>>
      BY <1>0, <2>4 DEF Capture, UpstreamFails, Ends, GatewayTypes, ThreadRecords
    <3> QED
      BY <1>0, <3>2, <3>3 DEF GatewayTypes, Registry
  <2> QED
    BY <1>4, <2>1, <2>2, <2>3, <2>4 DEF GatewayStep
<1>5. ASSUME \/ Tick
             \/ \E b \in Browsers : \/ \E s \in Visuals : Authorize(b, s)
                                    \/ CreateHandoff(b)
                                    \/ \E h \in HandoffIds : ConsumeHandoff(b, h)
      PROVE  UNCHANGED <<config, conns, thread, forwarded>>
  BY <1>5 DEF Tick, Authorize, CreateHandoff, ConsumeHandoff
<1> HIDE DEF Typed
<1> QED
  BY <1>1, <1>2, <1>3, <1>4, <1>5 DEF GatewayNext, gatewayVars

\* Every step keeps RequestInv: an id is used up when its request is let in, and
\* what ends a connection ends it for good.
LEMMA RequestInvStep ==
  ASSUME RegistryInv, [GatewayNext]_gatewayVars
  PROVE  RequestInv'
<1>0. GatewayTypes /\ RequestInv /\ NoVisual \notin Visuals
  BY GatewayAssumption DEF RegistryInv
<1>1. CASE UNCHANGED <<config, conns, thread, forwarded>>
  BY <1>0, <1>1, RequestInvKept
<1>2. ASSUME NEW b \in Browsers, Handshake(b) PROVE RequestInv'
  <2> DEFINE new == [session |-> grant[b], ends |-> EndOf[grant[b]], live |-> TRUE,
                     key |-> "agreed", used |-> {}, jar |-> 0, app |-> 0, busy |-> FALSE]
  <2>1. PICK gone : conns' = Extend(Wipe(gone), new)
    BY <1>2 DEF Handshake
  <2> HIDE DEF new
  <2>2. /\ DOMAIN Wipe(gone) = DOMAIN conns
        /\ \A c \in DOMAIN conns : Wipe(gone)[c].live => Wipe(gone)[c] = conns[c]
    BY <1>0, WipedConnections DEF GatewayTypes
  <2>3. Registry(Wipe(gone)) /\ NextOf(Wipe(gone)) = NextOf(conns)
    BY <1>0, <2>2 DEF GatewayTypes, Registry, NextOf
  <2>4. /\ DOMAIN conns' = DOMAIN conns \union {NextOf(conns)} /\ NextOf(conns) \notin DOMAIN conns
        /\ \A c \in DOMAIN conns : conns'[c] = Wipe(gone)[c]
    <3>1. LET f == Extend(Wipe(gone), new) IN
          /\ NextOf(Wipe(gone)) \notin DOMAIN Wipe(gone)
          /\ DOMAIN f = DOMAIN Wipe(gone) \union {NextOf(Wipe(gone))}
          /\ \A c \in DOMAIN Wipe(gone) : f[c] = Wipe(gone)[c]
      BY <2>3, ExtendIs
    <3> QED
      BY <2>1, <2>2, <2>3, <3>1
  <2>5. /\ NextOf(conns) \in Connections /\ config' = [config EXCEPT ![b] = NextOf(conns)]
        /\ UNCHANGED <<thread, forwarded>>
    BY <1>2 DEF Handshake
  <2>6. \A t \in Threads, c \in Connections, i \in RequestIds :
          /\ Admitted(t, c, i)' <=> Admitted(t, c, i)
          /\ Admitted(t, c, i) => c \in DOMAIN conns
    BY <1>0, <2>5 DEF Admitted, RequestInv
  <2>7. \A x \in Browsers : config'[x] = 0 \/ config'[x] \in DOMAIN conns'
    BY <1>0, <2>4, <2>5 DEF RequestInv, GatewayTypes
  <2>8. \A t \in Threads : thread'[t].pc # "free" =>
          thread'[t].conn \in DOMAIN conns' /\ thread'[t].id \in RequestIds
    BY <1>0, <2>4, <2>5 DEF RequestInv
  <2>9. ASSUME NEW c \in Connections, NEW i \in RequestIds, c \in DOMAIN conns'
        PROVE  \/ ~conns'[c].live \/ i \in conns'[c].used
               \/ forwarded'[<<c, i>>] = 0 /\ \A t \in Threads : ~Admitted(t, c, i)'
    <3>1. CASE c \in DOMAIN conns
      BY <1>0, <2>2, <2>4, <2>5, <2>6, <3>1 DEF RequestInv
    <3>2. CASE c = NextOf(conns)
      BY <1>0, <2>4, <2>5, <2>6, <3>2 DEF RequestInv
    <3> QED
      BY <2>4, <2>9, <3>1, <3>2
  <2> QED
    BY <1>0, <2>4, <2>5, <2>6, <2>7, <2>8, <2>9 DEF RequestInv
<1>3. ASSUME NEW t \in Threads, NEW b \in Browsers, NEW i \in RequestIds, Send(t, b, i)
      PROVE  RequestInv'
  <2>1. /\ UNCHANGED <<config, conns, forwarded>> /\ config[b] \in DOMAIN conns
        /\ thread' = [thread EXCEPT ![t] = [pc |-> "authorized", conn |-> config[b], id |-> i,
                                            cookie |-> 0]]
    BY <1>0, <1>3 DEF Send, RequestInv
  <2>2. \A u \in Threads, c \in Connections, j \in RequestIds :
          Admitted(u, c, j)' => Admitted(u, c, j)
    BY <1>0, <2>1 DEF Admitted, GatewayTypes
  <2>3. \A u \in Threads : thread'[u].pc # "free" =>
          thread'[u].conn \in DOMAIN conns /\ thread'[u].id \in RequestIds
    BY <1>0, <2>1 DEF RequestInv, GatewayTypes
  <2> QED
    BY <1>0, <2>1, <2>2, <2>3 DEF RequestInv
<1>4. ASSUME NEW t \in Threads, Reserve(t) PROVE RequestInv'
  <2> DEFINE c == thread[t].conn
             i == thread[t].id
  <2>1. c \in DOMAIN conns /\ c \in Connections /\ i \in RequestIds
    BY <1>0, <1>4 DEF Reserve, RequestInv, GatewayTypes
  <2>2. /\ DOMAIN Pruned = DOMAIN conns
        /\ \A d \in DOMAIN conns : /\ Pruned[d] \in ConnectionRecords
                                   /\ Pruned[d].live => Pruned[d] = conns[d]
    BY <1>0, WipedConnections DEF GatewayTypes, Pruned
  <2>3. CASE conns' = Pruned /\ Ends(t, "refused")
    <3>1. UNCHANGED <<config, forwarded>> /\ thread[t].pc = "authorized"
      BY <1>4 DEF Reserve
    <3>2. \A u \in Threads : thread'[u].pc # "free" =>
            /\ thread[u].pc # "free"
            /\ thread'[u].conn = thread[u].conn /\ thread'[u].id = thread[u].id
            /\ thread'[u].pc \in {"reserved", "opened"} => thread[u].pc \in {"reserved", "opened"}
      BY <1>0, <2>3, <3>1, ThreadMoves DEF GatewayTypes
    <3> QED
      BY <1>0, <2>2, <2>3, <3>1, <3>2, RequestInvKept
  <2>4. CASE /\ Pruned[c].live /\ i \notin Pruned[c].used
             /\ conns' = [Pruned EXCEPT ![c].used = @ \union {i}]
             /\ Ends(t, "reserved")
    <3>1. /\ UNCHANGED <<config, forwarded>> /\ thread[t].pc = "authorized"
          /\ \A u \in Threads : ~Admitted(u, c, i)
          /\ forwarded[<<c, i>>] = 0
      BY <1>0, <1>4, <2>1, <2>2, <2>4 DEF Reserve, RequestInv
    <3>2. /\ DOMAIN conns' = DOMAIN conns
          /\ conns'[c].used = conns[c].used \union {i}
          /\ \A d \in DOMAIN conns \ {c} : conns'[d] = Pruned[d]
      BY <2>1, <2>2, <2>4 DEF ConnectionRecords
    <3>3. \A u \in Threads, d \in Connections, j \in RequestIds :
            Admitted(u, d, j)' <=> Admitted(u, d, j) \/ (u = t /\ d = c /\ j = i)
      BY <1>0, <2>4, <3>1, ThreadMoves DEF Admitted, GatewayTypes
    <3>4. \A u \in Threads : thread'[u].pc # "free" =>
            thread'[u].conn \in DOMAIN conns /\ thread'[u].id \in RequestIds
      BY <1>0, <2>1, <2>4, <3>1, ThreadMoves DEF RequestInv, GatewayTypes
    <3>5. ASSUME NEW d \in Connections, NEW j \in RequestIds, d \in DOMAIN conns
          PROVE  \/ ~conns'[d].live \/ j \in conns'[d].used
                 \/ forwarded'[<<d, j>>] = 0 /\ \A u \in Threads : ~Admitted(u, d, j)'
      <4>1. CASE d = c
        BY <1>0, <2>2, <2>4, <3>1, <3>2, <3>3, <4>1, <3>5 DEF RequestInv
      <4>2. CASE d # c
        BY <1>0, <2>2, <3>1, <3>2, <3>3, <4>2, <3>5 DEF RequestInv
      <4> QED
        BY <4>1, <4>2
    <3> QED
      BY <1>0, <3>1, <3>2, <3>3, <3>4, <3>5 DEF RequestInv
  <2> QED
    BY <1>4, <2>3, <2>4 DEF Reserve
<1>5. ASSUME NEW t \in Threads, Decrypt(t) \/ Seal(t) PROVE RequestInv'
  <2>1. /\ UNCHANGED <<config, conns, forwarded>>
        /\ \/ Ends(t, "opened") /\ thread[t].pc = "reserved"
           \/ \E pc \in {"refused", "answered", "unreadable"} : Ends(t, pc) /\ thread[t].pc # "free"
    BY <1>5 DEF Decrypt, Seal
  <2>2. \A u \in Threads : thread'[u].pc # "free" =>
          /\ thread[u].pc # "free"
          /\ thread'[u].conn = thread[u].conn /\ thread'[u].id = thread[u].id
          /\ thread'[u].pc \in {"reserved", "opened"} => thread[u].pc \in {"reserved", "opened"}
    BY <1>0, <2>1, ThreadMoves DEF GatewayTypes
  <2> QED
    BY <1>0, <2>1, <2>2, RequestInvKept
<1>6. ASSUME NEW t \in Threads, Capture(t) \/ UpstreamFails(t) PROVE RequestInv'
  <2>1. /\ UNCHANGED <<config, forwarded>> /\ thread[t].pc = "upstream"
        /\ Ends(t, "captured") \/ Ends(t, "refused")
    BY <1>6 DEF Capture, UpstreamFails
  <2>2. DOMAIN conns' = DOMAIN conns
        /\ \A c \in DOMAIN conns : conns'[c].live = conns[c].live /\ conns'[c].used = conns[c].used
    BY <1>0, <1>6 DEF Capture, UpstreamFails, GatewayTypes, ConnectionRecords
  <2>3. \A u \in Threads : thread'[u].pc # "free" =>
          /\ thread[u].pc # "free"
          /\ thread'[u].conn = thread[u].conn /\ thread'[u].id = thread[u].id
          /\ thread'[u].pc \in {"reserved", "opened"} => thread[u].pc \in {"reserved", "opened"}
    BY <1>0, <2>1, ThreadMoves DEF GatewayTypes
  <2> QED
    BY <1>0, <2>1, <2>2, <2>3, RequestInvKept
<1>7. ASSUME NEW t \in Threads, Forward(t) PROVE RequestInv'
  <2> DEFINE c == thread[t].conn
             i == thread[t].id
  <2>1. c \in DOMAIN conns /\ c \in Connections /\ i \in RequestIds /\ Admitted(t, c, i)
    BY <1>0, <1>7 DEF Forward, RequestInv, GatewayTypes, Admitted
  <2>2. /\ conns' = [conns EXCEPT ![c].busy = TRUE, ![c].app = @ + 1]
        /\ thread' = [thread EXCEPT ![t].pc = "upstream", ![t].cookie = conns[c].app + 1]
        /\ forwarded' = [forwarded EXCEPT ![<<c, i>>] = @ + 1]
        /\ config' = config
    BY <1>7 DEF Forward
  <2>3. DOMAIN conns' = DOMAIN conns
        /\ \A d \in DOMAIN conns : conns'[d].live = conns[d].live /\ conns'[d].used = conns[d].used
    BY <1>0, <2>2 DEF GatewayTypes, ConnectionRecords
  <2>4. /\ thread'[t].pc = "upstream" /\ thread'[t].conn = c /\ thread'[t].id = i
        /\ \A u \in Threads \ {t} : thread'[u] = thread[u]
    BY <1>0, <2>2 DEF GatewayTypes, ThreadRecords
  <2>5. \A u \in Threads, d \in Connections, j \in RequestIds :
          Admitted(u, d, j)' <=> Admitted(u, d, j) /\ u # t
    BY <2>4 DEF Admitted
  <2>6. /\ forwarded'[<<c, i>>] = 1
        /\ \A d \in Connections, j \in RequestIds :
             <<d, j>> # <<c, i>> => forwarded'[<<d, j>>] = forwarded[<<d, j>>]
    BY <1>0, <2>1, <2>2 DEF RequestInv, GatewayTypes
  <2>7. \A u \in Threads : Admitted(u, c, i) => u = t
    BY <1>0, <2>1 DEF RequestInv
  <2>8. \A u \in Threads : thread'[u].pc # "free" =>
          thread'[u].conn \in DOMAIN conns /\ thread'[u].id \in RequestIds
    BY <1>0, <2>1, <2>4 DEF RequestInv
  <2> HIDE DEF c, i
  <2>9. ASSUME NEW d \in Connections, NEW j \in RequestIds
        PROVE  /\ d \notin DOMAIN conns => forwarded'[<<d, j>>] = 0
               /\ d \in DOMAIN conns =>
                    \/ ~conns'[d].live \/ j \in conns'[d].used
                    \/ forwarded'[<<d, j>>] = 0 /\ \A u \in Threads : ~Admitted(u, d, j)'
               /\ \A u, v \in Threads : Admitted(u, d, j)' /\ Admitted(v, d, j)' => u = v
               /\ (\E u \in Threads : Admitted(u, d, j)') => forwarded'[<<d, j>>] = 0
               /\ forwarded'[<<d, j>>] <= 1
    <3>1. CASE d = c /\ j = i
      BY <1>0, <2>1, <2>3, <2>5, <2>6, <2>7, <3>1 DEF RequestInv
    <3>2. CASE <<d, j>> # <<c, i>>
      BY <1>0, <2>3, <2>5, <2>6, <3>2 DEF RequestInv
    <3> QED
      BY <3>1, <3>2
  <2>10. \A x \in Browsers : config'[x] = 0 \/ config'[x] \in DOMAIN conns'
    BY <1>0, <2>2, <2>3 DEF RequestInv
  <2>11. \A u \in Threads : thread'[u].pc # "free" =>
           thread'[u].conn \in DOMAIN conns' /\ thread'[u].id \in RequestIds
    BY <2>3, <2>8
  <2>12. ASSUME NEW d \in Connections, NEW j \in RequestIds
         PROVE  /\ (d \notin DOMAIN conns => forwarded[<<d, j>>] = 0)'
                /\ (d \in DOMAIN conns =>
                      \/ ~conns[d].live
                      \/ j \in conns[d].used
                      \/ forwarded[<<d, j>>] = 0 /\ \A u \in Threads : ~Admitted(u, d, j))'
                /\ (\A u, v \in Threads : Admitted(u, d, j) /\ Admitted(v, d, j) => u = v)'
                /\ ((\E u \in Threads : Admitted(u, d, j)) => forwarded[<<d, j>>] = 0)'
                /\ (forwarded[<<d, j>>] <= 1)'
    BY <2>3, <2>9
  <2> QED
    BY <2>10, <2>11, <2>12 DEF RequestInv
<1>8. ASSUME \/ Tick
             \/ \E b \in Browsers : \/ \E s \in Visuals : Authorize(b, s)
                                    \/ CreateHandoff(b)
                                    \/ \E h \in HandoffIds : ConsumeHandoff(b, h)
      PROVE  UNCHANGED <<config, conns, thread, forwarded>>
  BY <1>8 DEF Tick, Authorize, CreateHandoff, ConsumeHandoff
<1> QED
  BY <1>1, <1>2, <1>3, <1>4, <1>5, <1>6, <1>7, <1>8 DEF GatewayNext, GatewayStep, gatewayVars

\* The registries are empty at first.
LEMMA RegistryBegins == GatewayInit => RegistryInv
<1> SUFFICES ASSUME GatewayInit PROVE RegistryInv
  OBVIOUS
<1>1. DOMAIN conns = {} /\ DOMAIN handoffs = {} /\ DOMAIN grants = {} /\ {} = 1 .. 0
  BY DEF GatewayInit
<1>2. Registry(conns) /\ Registry(handoffs)
  BY <1>1 DEF Registry
<1>3. thread \in [Threads -> ThreadRecords]
  BY DEF GatewayInit, ThreadRecords
<1>4. GatewayTypes
  BY <1>1, <1>2, <1>3 DEF GatewayInit, GatewayTypes
<1>5. HandoffInv /\ RequestInv
  BY <1>1 DEF GatewayInit, HandoffInv, RequestInv, Admitted
<1> QED
  BY <1>4, <1>5 DEF RegistryInv

\* Every step keeps the registries' invariant.
LEMMA RegistryStep ==
  ASSUME RegistryInv, [GatewayNext]_gatewayVars
  PROVE  RegistryInv'
BY HandoffInvStep, GatewayTypesStep, RequestInvStep DEF RegistryInv, GatewayTypes

\* For any number of browsers, threads, connections and handoffs: the app sees a
\* request once, however often its POST arrives and whatever is evicted meanwhile,
\* and a handoff lets one browser in.
THEOREM RequestsAreForwardedOnce == GatewaySpec => [](ForwardedOnce /\ HandoffsAreOneTime)
<1>1. GatewayInit => RegistryInv
  BY RegistryBegins
<1>2. RegistryInv /\ [GatewayNext]_gatewayVars => RegistryInv'
  BY RegistryStep
<1>3. RegistryInv => ForwardedOnce /\ HandoffsAreOneTime
  <2> SUFFICES ASSUME RegistryInv PROVE ForwardedOnce /\ HandoffsAreOneTime
    OBVIOUS
  <2>1. ForwardedOnce
    BY DEF RegistryInv, GatewayTypes, RequestInv, ForwardedOnce
  <2>2. HandoffsAreOneTime
    BY FS_EmptySet, FS_Singleton DEF RegistryInv, HandoffInv, HandoffsAreOneTime
  <2> QED
    BY <2>1, <2>2
<1> QED
  BY <1>1, <1>2, <1>3, PTL DEF GatewaySpec

-----------------------------------------------------------------------------
(* The limits of the registries, and the cookies.                          *)

\* The entries in force that end before i, or with it and are older.
Earlier(f, i) ==
  {j \in Live(f) : f[j].ends < f[i].ends \/ (f[j].ends = f[i].ends /\ j < i)}

\* Of two entries in force one is earlier, and has fewer that are earlier still.
LEMMA EarlierFacts ==
  ASSUME NEW f, Registry(f), \A i \in DOMAIN f : f[i].ends \in Nat
  PROVE  /\ Live(f) \in SUBSET Nat /\ IsFiniteSet(Live(f)) /\ Cardinality(Live(f)) \in Nat
         /\ \A i \in Live(f) :
              /\ IsFiniteSet(Earlier(f, i)) /\ Cardinality(Earlier(f, i)) \in Nat
              /\ Cardinality(Earlier(f, i)) < Cardinality(Live(f))
         /\ \A i, j \in Live(f) :
              Cardinality(Earlier(f, i)) = Cardinality(Earlier(f, j)) => i = j
<1>1. PICK n \in Nat : DOMAIN f = 1 .. n
  BY DEF Registry
<1>2. Live(f) \in SUBSET (1 .. n) /\ IsFiniteSet(1 .. n)
  BY <1>1, FS_Interval DEF Live
<1>3. IsFiniteSet(Live(f)) /\ Live(f) \in SUBSET Nat /\ Cardinality(Live(f)) \in Nat
  BY <1>2, FS_Subset, FS_CardinalityType
<1>4. \A i \in Live(f) : i \in Nat /\ f[i].ends \in Nat
  BY <1>3 DEF Live
<1>5. ASSUME NEW i \in Live(f)
      PROVE  /\ IsFiniteSet(Earlier(f, i)) /\ Cardinality(Earlier(f, i)) \in Nat
             /\ Cardinality(Earlier(f, i)) < Cardinality(Live(f))
  <2>1. Earlier(f, i) \in SUBSET Live(f) /\ i \notin Earlier(f, i)
    BY <1>4 DEF Earlier
  <2>2. IsFiniteSet(Earlier(f, i)) /\ Cardinality(Earlier(f, i)) <= Cardinality(Live(f))
    BY <1>3, <2>1, FS_Subset
  <2>3. Cardinality(Earlier(f, i)) # Cardinality(Live(f))
    BY <1>3, <2>1, FS_Subset
  <2> QED
    BY <1>3, <2>2, <2>3, FS_CardinalityType
<1>6. ASSUME NEW i \in Live(f), NEW j \in Live(f), i \in Earlier(f, j)
      PROVE  Cardinality(Earlier(f, i)) # Cardinality(Earlier(f, j))
  <2>1. Earlier(f, i) \in SUBSET Earlier(f, j)
    <3> SUFFICES ASSUME NEW k \in Live(f), k \in Earlier(f, i) PROVE k \in Earlier(f, j)
      BY DEF Earlier
    <3> QED
      BY <1>4, <1>6 DEF Earlier
  <2>2. i \notin Earlier(f, i)
    BY <1>4 DEF Earlier
  <2> QED
    BY <1>5, <1>6, <2>1, <2>2, FS_Subset
<1>7. ASSUME NEW i \in Live(f), NEW j \in Live(f), i # j
      PROVE  i \in Earlier(f, j) \/ j \in Earlier(f, i)
  BY <1>4, <1>7 DEF Earlier
<1> QED
  BY <1>3, <1>5, <1>6, <1>7

\* Among entries in force there is an oldest one.
LEMMA OldestLives ==
  ASSUME NEW f, Registry(f), \A i \in DOMAIN f : f[i].ends \in Nat, Live(f) # {}
  PROVE  Oldest(f) \in Live(f)
<1> DEFINE n == Cardinality(Live(f))
           T == 0 .. (n - 1)
           F == [i \in Live(f) |-> Cardinality(Earlier(f, i))]
<1>1. IsFiniteSet(Live(f)) /\ n \in Nat /\ n # 0
  BY EarlierFacts, FS_EmptySet
<1>2. IsFiniteSet(T) /\ Cardinality(T) = n
  <2>1. IsFiniteSet(T) /\ Cardinality(T) = IF 0 > n - 1 THEN 0 ELSE (n - 1) - 0 + 1
    BY <1>1, FS_Interval
  <2> QED
    BY <1>1, <2>1
<1>3. F \in [Live(f) -> T]
  <2> SUFFICES ASSUME NEW i \in Live(f) PROVE Cardinality(Earlier(f, i)) \in T
    OBVIOUS
  <2> QED
    BY <1>1, EarlierFacts
<1>4. \A i, j \in Live(f) : F[i] = F[j] => i = j
  BY EarlierFacts
<1>5. F \in Injection(Live(f), T)
  BY <1>3, <1>4, Fun_IsInj
<1>6. F \in Surjection(Live(f), T)
  BY <1>1, <1>2, <1>5, FS_Injection
<1>7. 0 \in T
  BY <1>1
<1>8. \A t \in T : \E i \in Live(f) : F[i] = t
  <2> HIDE DEF F, T
  <2> QED
    BY <1>6, Fun_SurjectionProperties
<1>9. PICK i \in Live(f) : Cardinality(Earlier(f, i)) = 0
  BY <1>7, <1>8
<1>10. Earlier(f, i) = {}
  BY <1>9, EarlierFacts, FS_EmptySet
<1>11. \A j \in Live(f) : /\ i \in Nat /\ j \in Nat
                          /\ f[i].ends \in Nat /\ f[j].ends \in Nat /\ j \notin Earlier(f, i)
  BY <1>10, EarlierFacts DEF Live
<1>12. \A j \in Live(f) : f[i].ends < f[j].ends \/ (f[i].ends = f[j].ends /\ i <= j)
  BY <1>11 DEF Earlier
<1> QED
  BY <1>12 DEF Oldest

\* What a registry keeps when one entry is added, the oldest having gone if it was
\* full.
LEMMA RoomIsMade ==
  ASSUME NEW f, Registry(f), \A i \in DOMAIN f : f[i].ends \in Nat,
         Cardinality(Live(f)) <= Capacity,
         NEW g, DOMAIN g = DOMAIN f, Live(g) \subseteq Live(f),
         Cardinality(Live(f)) >= Capacity => Oldest(f) \notin Live(g),
         NEW x
  PROVE  Cardinality(Live(Extend(g, x))) <= Capacity
<1>0. Capacity \in Nat \ {0}
  BY GatewayAssumption
<1>1. Registry(g)
  BY DEF Registry
<1>2. IsFiniteSet(Live(f)) /\ Cardinality(Live(f)) \in Nat
  BY EarlierFacts
<1>3. IsFiniteSet(Live(g)) /\ Cardinality(Live(g)) \in Nat /\ Cardinality(Live(g)) <= Cardinality(Live(f))
  BY <1>2, FS_Subset, FS_CardinalityType
<1>4. Cardinality(Live(g)) < Capacity
  <2>1. CASE Cardinality(Live(f)) >= Capacity
    <3>1. Live(f) # {}
      BY <1>0, <1>2, <2>1, FS_EmptySet
    <3>2. Live(g) # Live(f)
      BY <2>1, <3>1, OldestLives
    <3>3. Cardinality(Live(g)) # Cardinality(Live(f))
      BY <1>2, <3>2, FS_Subset
    <3> QED
      BY <1>0, <1>2, <1>3, <3>3
  <2>2. CASE ~ (Cardinality(Live(f)) >= Capacity)
    BY <1>0, <1>2, <1>3, <2>2
  <2> QED
    BY <2>1, <2>2
<1>5. Live(Extend(g, x)) \in SUBSET (Live(g) \union {NextOf(g)})
  <2>1. /\ DOMAIN Extend(g, x) = DOMAIN g \union {NextOf(g)}
        /\ \A i \in DOMAIN g : Extend(g, x)[i] = g[i]
    BY <1>1, ExtendIs
  <2> QED
    BY <2>1 DEF Live
<1>6. /\ IsFiniteSet(Live(g) \union {NextOf(g)})
      /\ Cardinality(Live(g) \union {NextOf(g)}) <= Cardinality(Live(g)) + 1
  BY <1>3, FS_AddElement
<1>7. Cardinality(Live(Extend(g, x))) <= Cardinality(Live(g) \union {NextOf(g)})
  BY <1>5, <1>6, FS_Subset
<1>8. /\ Cardinality(Live(Extend(g, x))) \in Nat
      /\ Cardinality(Live(g) \union {NextOf(g)}) \in Nat
  BY <1>5, <1>6, FS_Subset, FS_CardinalityType
<1> QED
  BY <1>0, <1>3, <1>4, <1>6, <1>7, <1>8

\* The clock is bounded and the registries of connections and handoffs are within
\* their limits.
Limits ==
  /\ now \in 0 .. MaxTime
  /\ Cardinality(Live(conns)) <= Capacity /\ Cardinality(Live(handoffs)) <= Capacity

\* A registry whose entries only end stays within its limit.
LEMMA FewerLive ==
  ASSUME NEW f, Registry(f), \A i \in DOMAIN f : f[i].ends \in Nat,
         Cardinality(Live(f)) <= Capacity,
         NEW g, DOMAIN g = DOMAIN f, Live(g) \subseteq Live(f)
  PROVE  Cardinality(Live(g)) <= Capacity
<1>1. IsFiniteSet(Live(f)) /\ Cardinality(Live(f)) \in Nat
  BY EarlierFacts
<1>2. Live(g) \in SUBSET Live(f)
  OBVIOUS
<1>3. Cardinality(Live(g)) <= Cardinality(Live(f)) /\ Cardinality(Live(g)) \in Nat
  BY <1>1, <1>2, FS_Subset, FS_CardinalityType
<1> QED
  BY <1>1, <1>3, GatewayAssumption

\* Every step keeps the limits: an entry is added only once there is room for it.
LEMMA LimitsStep ==
  ASSUME RegistryInv, Limits, [GatewayNext]_gatewayVars
  PROVE  Limits'
<1>0. /\ GatewayTypes /\ MaxTime \in Nat
      /\ Registry(conns) /\ \A c \in DOMAIN conns : conns[c] \in ConnectionRecords /\ conns[c].ends \in Nat
      /\ Registry(handoffs)
      /\ \A h \in DOMAIN handoffs : handoffs[h] \in HandoffRecords /\ handoffs[h].ends \in Nat
  BY GatewayAssumption DEF RegistryInv, GatewayTypes, ConnectionRecords, HandoffRecords
<1>1. now' \in 0 .. MaxTime
  <2>1. now' = now \/ (now < MaxTime /\ now' = now + 1)
    BY DEF GatewayNext, GatewayStep, gatewayVars, Tick, Authorize, CreateHandoff, ConsumeHandoff,
       Handshake, Send, Reserve, Decrypt, Forward, Capture, UpstreamFails, Seal
  <2> QED
    BY <1>0, <2>1 DEF Limits
<1>2. Cardinality(Live(handoffs')) <= Capacity
  <2>1. CASE handoffs' = handoffs
    BY <2>1 DEF Limits
  <2>2. ASSUME NEW b \in Browsers, CreateHandoff(b)
        PROVE  Cardinality(Live(handoffs')) <= Capacity
    <3> DEFINE kept == Drop(handoffs, Ended(handoffs))
               dropped == Drop(kept, {Oldest(kept)})
               room == IF Cardinality(Live(kept)) >= Capacity THEN dropped ELSE kept
               made == [session |-> grant[b], ends |-> EndOf[grant[b]], live |-> TRUE]
    <3>1. /\ DOMAIN kept = DOMAIN handoffs /\ Live(kept) \subseteq Live(handoffs)
          /\ \A h \in DOMAIN kept : kept[h] \in HandoffRecords /\ kept[h].ends \in Nat
      BY <1>0, DroppedHandoffs DEF Live, HandoffRecords
    <3>2. handoffs' = Extend(room, made)
      BY <2>2 DEF CreateHandoff
    <3> HIDE DEF kept, made
    <3>3. DOMAIN dropped = DOMAIN kept /\ Live(dropped) \subseteq Live(kept)
          /\ Oldest(kept) \notin Live(dropped)
      BY <3>1, DroppedHandoffs DEF Live
    <3>4. Registry(kept)
      BY <1>0, <3>1 DEF Registry
    <3>5. Cardinality(Live(kept)) <= Capacity
      BY <1>0, <3>1, FewerLive DEF Limits
    <3> HIDE DEF dropped
    <3>6. /\ DOMAIN room = DOMAIN kept /\ Live(room) \subseteq Live(kept)
          /\ Cardinality(Live(kept)) >= Capacity => Oldest(kept) \notin Live(room)
      BY <3>3
    <3> HIDE DEF room
    <3> QED
      BY <3>1, <3>2, <3>4, <3>5, <3>6, RoomIsMade
  <2>3. ASSUME NEW b \in Browsers, NEW h \in HandoffIds, ConsumeHandoff(b, h)
        PROVE  Cardinality(Live(handoffs')) <= Capacity
    <3>1. handoffs' = Drop(handoffs, Ended(handoffs) \union {h})
      BY <2>3 DEF ConsumeHandoff
    <3>2. DOMAIN handoffs' = DOMAIN handoffs /\ Live(handoffs') \subseteq Live(handoffs)
      BY <1>0, <3>1, DroppedHandoffs DEF Live
    <3> QED
      BY <1>0, <3>2, FewerLive DEF Limits
  <2>4. ASSUME \/ UNCHANGED gatewayVars \/ Tick
               \/ \E b \in Browsers : \/ \E s \in Visuals : Authorize(b, s)
                                      \/ Handshake(b)
                                      \/ \E t \in Threads, i \in RequestIds : Send(t, b, i)
               \/ \E t \in Threads : GatewayStep(t)
        PROVE  handoffs' = handoffs
    BY <2>4 DEF gatewayVars, Tick, Authorize, Handshake, Send, GatewayStep, Reserve, Decrypt,
       Forward, Capture, UpstreamFails, Seal
  <2> QED
    BY <2>1, <2>2, <2>3, <2>4 DEF GatewayNext
<1>3. Cardinality(Live(conns')) <= Capacity
  <2>1. CASE conns' = conns
    BY <2>1 DEF Limits
  <2>2. ASSUME NEW b \in Browsers, Handshake(b) PROVE Cardinality(Live(conns')) <= Capacity
    <3> DEFINE gone == IF Cardinality(Live(Pruned)) >= Capacity
                       THEN Ended(conns) \union {Oldest(Pruned)} ELSE Ended(conns)
               made == [session |-> grant[b], ends |-> EndOf[grant[b]], live |-> TRUE,
                        key |-> "agreed", used |-> {}, jar |-> 0, app |-> 0, busy |-> FALSE]
    <3>1. conns' = Extend(Wipe(gone), made)
      BY <2>2 DEF Handshake
    <3> HIDE DEF made
    <3>2. /\ DOMAIN Pruned = DOMAIN conns /\ Live(Pruned) \subseteq Live(conns)
          /\ Live(Pruned) = Live(conns) \ Ended(conns)
          /\ \A c \in DOMAIN Pruned : Pruned[c].ends \in Nat
      <4>1. /\ DOMAIN Pruned = DOMAIN conns
            /\ \A c \in DOMAIN conns :
                 /\ Pruned[c] \in ConnectionRecords
                 /\ c \notin Ended(conns) => Pruned[c] = conns[c]
                 /\ c \in Ended(conns) => ~Pruned[c].live
        BY <1>0, WipedConnections DEF Pruned
      <4> QED
        BY <4>1 DEF Live, Ended, ConnectionRecords
    <3>3. DOMAIN Wipe(gone) = DOMAIN conns /\ Live(Wipe(gone)) = Live(conns) \ gone
      <4>1. /\ DOMAIN Wipe(gone) = DOMAIN conns
            /\ \A c \in DOMAIN conns :
                 /\ c \notin gone => Wipe(gone)[c] = conns[c]
                 /\ c \in gone => ~Wipe(gone)[c].live
        BY <1>0, WipedConnections
      <4> HIDE DEF gone
      <4> QED
        BY <4>1 DEF Live
    <3>4. /\ Live(Wipe(gone)) \subseteq Live(Pruned)
          /\ Cardinality(Live(Pruned)) >= Capacity => Oldest(Pruned) \notin Live(Wipe(gone))
      BY <3>2, <3>3
    <3>5. Registry(Pruned)
      BY <1>0, <3>2 DEF Registry
    <3>6. Cardinality(Live(Pruned)) <= Capacity
      BY <1>0, <3>2, FewerLive DEF Limits
    <3> HIDE DEF gone
    <3>7. DOMAIN Wipe(gone) = DOMAIN Pruned
      BY <3>2, <3>3
    <3> DEFINE p == Pruned
               w == Wipe(gone)
    <3>8. /\ Registry(p) /\ Cardinality(Live(p)) <= Capacity /\ DOMAIN w = DOMAIN p
          /\ Live(w) \subseteq Live(p) /\ \A c \in DOMAIN p : p[c].ends \in Nat
          /\ Cardinality(Live(p)) >= Capacity => Oldest(p) \notin Live(w)
          /\ conns' = Extend(w, made)
      BY <3>1, <3>2, <3>4, <3>5, <3>6, <3>7
    <3> HIDE DEF p, w
    <3> QED
      BY <3>8, RoomIsMade
  <2>3. ASSUME NEW t \in Threads, GatewayStep(t) PROVE Cardinality(Live(conns')) <= Capacity
    <3>1. DOMAIN conns' = DOMAIN conns /\ Live(conns') \subseteq Live(conns)
      <4>1. CASE Reserve(t)
        <5>1. /\ DOMAIN Pruned = DOMAIN conns
              /\ \A c \in DOMAIN conns : /\ Pruned[c] \in ConnectionRecords
                                         /\ Pruned[c].live => conns[c].live
          BY <1>0, WipedConnections DEF Pruned
        <5>2. \/ conns' = Pruned
              \/ conns' = [Pruned EXCEPT ![thread[t].conn].used = @ \union {thread[t].id}]
          BY <4>1 DEF Reserve
        <5>3. /\ DOMAIN conns' = DOMAIN conns
              /\ \A c \in DOMAIN conns : conns'[c].live = Pruned[c].live
          BY <5>1, <5>2 DEF ConnectionRecords
        <5> QED
          BY <5>1, <5>3 DEF Live
      <4>2. CASE Forward(t) \/ Capture(t) \/ UpstreamFails(t)
        <5>1. /\ DOMAIN conns' = DOMAIN conns
              /\ \A c \in DOMAIN conns : conns'[c].live = conns[c].live
          BY <1>0, <4>2 DEF Forward, Capture, UpstreamFails, ConnectionRecords
        <5> QED
          BY <5>1 DEF Live
      <4>3. CASE Decrypt(t) \/ Seal(t)
        BY <4>3 DEF Decrypt, Seal
      <4> QED
        BY <2>3, <4>1, <4>2, <4>3 DEF GatewayStep
    <3> QED
      BY <1>0, <3>1, FewerLive DEF Limits
  <2>4. ASSUME \/ UNCHANGED gatewayVars \/ Tick
               \/ \E b \in Browsers : \/ \E s \in Visuals : Authorize(b, s)
                                      \/ CreateHandoff(b)
                                      \/ \E h \in HandoffIds : ConsumeHandoff(b, h)
                                      \/ \E t \in Threads, i \in RequestIds : Send(t, b, i)
        PROVE  conns' = conns
    BY <2>4 DEF gatewayVars, Tick, Authorize, CreateHandoff, ConsumeHandoff, Send
  <2> QED
    BY <2>1, <2>2, <2>3, <2>4 DEF GatewayNext
<1> QED
  BY <1>1, <1>2, <1>3 DEF Limits

\* A connection's cookie jar is never ahead of its app; the one thread that is
\* upstream for a connection holds its lock, and the app's newest cookie.
JarInv ==
  /\ \A c \in DOMAIN conns : conns[c].jar <= conns[c].app
  /\ \A t \in Threads : thread[t].pc = "upstream" =>
       /\ thread[t].conn \in DOMAIN conns
       /\ conns[thread[t].conn].busy /\ thread[t].cookie = conns[thread[t].conn].app
  /\ \A t, u \in Threads :
       thread[t].pc = "upstream" /\ thread[u].pc = "upstream" /\ thread[t].conn = thread[u].conn => t = u

\* The jar's step: a connection that lives on has not gone back.
Ahead == \A c \in DOMAIN conns : conns'[c].live => conns'[c].jar >= conns[c].jar

\* Nothing changes for the cookies when no thread goes upstream or comes back and
\* connections are added or wiped.
LEMMA JarKept ==
  ASSUME GatewayTypes, JarInv,
         \A t \in Threads : thread'[t].pc = "upstream" => thread'[t] = thread[t],
         DOMAIN conns \subseteq DOMAIN conns',
         \A c \in DOMAIN conns :
           /\ conns'[c].app = conns[c].app /\ conns'[c].busy = conns[c].busy
           /\ conns'[c].jar = conns[c].jar \/ (conns'[c].jar = 0 /\ ~conns'[c].live),
         \A c \in DOMAIN conns' \ DOMAIN conns : conns'[c].jar = 0 /\ conns'[c].app = 0
  PROVE  JarInv' /\ Ahead
<1>1. \A c \in DOMAIN conns : conns[c].jar \in Nat /\ conns[c].app \in Nat
  BY DEF GatewayTypes, ConnectionRecords
<1>2. \A c \in DOMAIN conns' : conns'[c].jar <= conns'[c].app
  <2> SUFFICES ASSUME NEW c \in DOMAIN conns' PROVE conns'[c].jar <= conns'[c].app
    OBVIOUS
  <2>1. CASE c \in DOMAIN conns
    BY <1>1, <2>1 DEF JarInv
  <2>2. CASE c \notin DOMAIN conns
    BY <2>2
  <2> QED
    BY <2>1, <2>2
<1>3. ASSUME NEW t \in Threads, thread'[t].pc = "upstream"
      PROVE  /\ thread'[t].conn \in DOMAIN conns'
             /\ conns'[thread'[t].conn].busy /\ thread'[t].cookie = conns'[thread'[t].conn].app
  <2>1. thread'[t] = thread[t] /\ thread[t].pc = "upstream" /\ thread[t].conn \in DOMAIN conns
    BY <1>3 DEF JarInv
  <2> QED
    BY <2>1 DEF JarInv
<1>4. \A t, u \in Threads :
        thread'[t].pc = "upstream" /\ thread'[u].pc = "upstream" /\ thread'[t].conn = thread'[u].conn
        => t = u
  BY DEF JarInv
<1>5. Ahead
  BY <1>1 DEF Ahead
<1> QED
  BY <1>2, <1>3, <1>4, <1>5 DEF JarInv

\* Every step keeps JarInv, and no jar of a connection in force goes back.
LEMMA JarStep ==
  ASSUME RegistryInv, JarInv, [GatewayNext]_gatewayVars
  PROVE  JarInv' /\ Ahead
<1>0. /\ GatewayTypes /\ RequestInv /\ Registry(conns)
      /\ \A c \in DOMAIN conns : conns[c] \in ConnectionRecords
      /\ \A c \in DOMAIN conns : conns[c].jar \in Nat /\ conns[c].app \in Nat
  BY DEF RegistryInv, GatewayTypes, ConnectionRecords
<1>1. CASE UNCHANGED <<conns, thread>>
  BY <1>0, <1>1, JarKept
<1>2. ASSUME NEW b \in Browsers, Handshake(b) PROVE JarInv' /\ Ahead
  <2> DEFINE new == [session |-> grant[b], ends |-> EndOf[grant[b]], live |-> TRUE,
                     key |-> "agreed", used |-> {}, jar |-> 0, app |-> 0, busy |-> FALSE]
  <2>1. PICK gone : conns' = Extend(Wipe(gone), new)
    BY <1>2 DEF Handshake
  <2>2. new.jar = 0 /\ new.app = 0
    OBVIOUS
  <2> HIDE DEF new
  <2>3. /\ DOMAIN Wipe(gone) = DOMAIN conns
        /\ \A c \in DOMAIN conns :
             /\ Wipe(gone)[c].app = conns[c].app /\ Wipe(gone)[c].busy = conns[c].busy
             /\ \/ Wipe(gone)[c].jar = conns[c].jar
                \/ Wipe(gone)[c].jar = 0 /\ ~Wipe(gone)[c].live
    BY <1>0 DEF Wipe, ConnectionRecords
  <2>4. Registry(Wipe(gone))
    BY <1>0, <2>3 DEF Registry
  <2>5. LET f == Extend(Wipe(gone), new) IN
        /\ DOMAIN f = DOMAIN Wipe(gone) \union {NextOf(Wipe(gone))}
        /\ f[NextOf(Wipe(gone))] = new
        /\ \A c \in DOMAIN Wipe(gone) : f[c] = Wipe(gone)[c]
    BY <2>4, ExtendIs
  <2>6. thread' = thread
    BY <1>2 DEF Handshake
  <2> QED
    BY <1>0, <2>1, <2>2, <2>3, <2>5, <2>6, JarKept
<1>3. ASSUME NEW t \in Threads, NEW b \in Browsers, NEW i \in RequestIds, Send(t, b, i)
      PROVE  JarInv' /\ Ahead
  <2>1. \A u \in Threads : thread'[u].pc = "upstream" => thread'[u] = thread[u]
    BY <1>0, <1>3 DEF Send, GatewayTypes
  <2>2. conns' = conns
    BY <1>3 DEF Send
  <2> QED
    BY <1>0, <2>1, <2>2, JarKept
<1>4. ASSUME NEW t \in Threads, Reserve(t) PROVE JarInv' /\ Ahead
  <2>1. /\ DOMAIN Pruned = DOMAIN conns
        /\ \A c \in DOMAIN conns :
             /\ Pruned[c] \in ConnectionRecords
             /\ Pruned[c].app = conns[c].app /\ Pruned[c].busy = conns[c].busy
             /\ \/ Pruned[c].jar = conns[c].jar
                \/ Pruned[c].jar = 0 /\ ~Pruned[c].live
    BY <1>0 DEF Pruned, Wipe, ConnectionRecords
  <2>2. /\ \/ conns' = Pruned
           \/ conns' = [Pruned EXCEPT ![thread[t].conn].used = @ \union {thread[t].id}]
        /\ Ends(t, "reserved") \/ Ends(t, "refused")
    BY <1>4 DEF Reserve
  <2>3. /\ DOMAIN conns' = DOMAIN conns
        /\ \A c \in DOMAIN conns :
             /\ conns'[c].app = Pruned[c].app /\ conns'[c].busy = Pruned[c].busy
             /\ conns'[c].jar = Pruned[c].jar /\ conns'[c].live = Pruned[c].live
    BY <2>1, <2>2 DEF ConnectionRecords
  <2>4. \A u \in Threads : thread'[u].pc = "upstream" => thread'[u] = thread[u]
    BY <1>0, <2>2, ThreadMoves DEF GatewayTypes
  <2> QED
    BY <1>0, <2>1, <2>3, <2>4, JarKept
<1>5. ASSUME NEW t \in Threads, Decrypt(t) \/ Seal(t) PROVE JarInv' /\ Ahead
  <2>1. /\ conns' = conns
        /\ \E pc \in {"opened", "refused", "answered", "unreadable"} : Ends(t, pc)
    BY <1>5 DEF Decrypt, Seal
  <2>2. \A u \in Threads : thread'[u].pc = "upstream" => thread'[u] = thread[u]
    BY <1>0, <2>1, ThreadMoves DEF GatewayTypes
  <2> QED
    BY <1>0, <2>1, <2>2, JarKept
<1>6. ASSUME NEW t \in Threads, Forward(t) PROVE JarInv' /\ Ahead
  <2> DEFINE c == thread[t].conn
  <2>1. c \in DOMAIN conns /\ ~conns[c].busy
    BY <1>0, <1>6 DEF Forward, RequestInv
  <2>2. /\ conns' = [conns EXCEPT ![c].busy = TRUE, ![c].app = @ + 1]
        /\ thread' = [thread EXCEPT ![t].pc = "upstream", ![t].cookie = conns[c].app + 1]
    BY <1>6 DEF Forward
  <2>3. /\ DOMAIN conns' = DOMAIN conns
        /\ conns'[c].busy = TRUE /\ conns'[c].app = conns[c].app + 1 /\ conns'[c].jar = conns[c].jar
        /\ \A d \in DOMAIN conns \ {c} : conns'[d] = conns[d]
    BY <1>0, <2>1, <2>2 DEF ConnectionRecords
  <2>4. /\ thread'[t].pc = "upstream" /\ thread'[t].conn = c /\ thread'[t].cookie = conns[c].app + 1
        /\ \A u \in Threads \ {t} : thread'[u] = thread[u]
    BY <1>0, <2>2 DEF GatewayTypes, ThreadRecords
  <2> HIDE DEF c
  <2>5. \A u \in Threads \ {t} : thread[u].pc = "upstream" => thread[u].conn # c
    BY <2>1 DEF JarInv
  <2>6. \A d \in DOMAIN conns' : conns'[d].jar <= conns'[d].app
    BY <1>0, <2>3 DEF JarInv
  <2>7. ASSUME NEW u \in Threads, thread'[u].pc = "upstream"
        PROVE  /\ thread'[u].conn \in DOMAIN conns'
               /\ conns'[thread'[u].conn].busy /\ thread'[u].cookie = conns'[thread'[u].conn].app
    BY <2>1, <2>3, <2>4, <2>5, <2>7 DEF JarInv
  <2>8. \A u, v \in Threads :
          thread'[u].pc = "upstream" /\ thread'[v].pc = "upstream" /\ thread'[u].conn = thread'[v].conn
          => u = v
    BY <2>4, <2>5 DEF JarInv
  <2>9. Ahead
    BY <1>0, <2>3 DEF Ahead
  <2> QED
    BY <2>6, <2>7, <2>8, <2>9 DEF JarInv
<1>7. ASSUME NEW t \in Threads, Capture(t) \/ UpstreamFails(t) PROVE JarInv' /\ Ahead
  <2> DEFINE c == thread[t].conn
  <2>1. /\ c \in DOMAIN conns /\ thread[t].pc = "upstream" /\ thread[t].cookie = conns[c].app
    BY <1>7 DEF Capture, UpstreamFails, JarInv
  <2>2. /\ DOMAIN conns' = DOMAIN conns
        /\ conns'[c].app = conns[c].app
        /\ conns'[c].jar = conns[c].jar \/ conns'[c].jar = thread[t].cookie
        /\ \A d \in DOMAIN conns \ {c} : conns'[d] = conns[d]
    BY <1>0, <1>7, <2>1 DEF Capture, UpstreamFails, ConnectionRecords
  <2>3. Ends(t, "captured") \/ Ends(t, "refused")
    BY <1>7 DEF Capture, UpstreamFails
  <2>4. thread'[t].pc # "upstream" /\ \A u \in Threads \ {t} : thread'[u] = thread[u]
    BY <1>0, <2>3, ThreadMoves DEF GatewayTypes
  <2> HIDE DEF c
  <2>5. \A u \in Threads \ {t} : thread[u].pc = "upstream" => thread[u].conn # c
    BY <2>1 DEF JarInv, c
  <2>6. \A d \in DOMAIN conns' : conns'[d].jar <= conns'[d].app
    BY <1>0, <2>1, <2>2 DEF JarInv
  <2>7. ASSUME NEW u \in Threads, thread'[u].pc = "upstream"
        PROVE  /\ thread'[u].conn \in DOMAIN conns'
               /\ conns'[thread'[u].conn].busy /\ thread'[u].cookie = conns'[thread'[u].conn].app
    BY <2>2, <2>4, <2>5, <2>7 DEF JarInv
  <2>8. \A u, v \in Threads :
          thread'[u].pc = "upstream" /\ thread'[v].pc = "upstream" /\ thread'[u].conn = thread'[v].conn
          => u = v
    BY <2>4 DEF JarInv
  <2>9. Ahead
    BY <1>0, <2>1, <2>2 DEF Ahead, JarInv
  <2> QED
    BY <2>6, <2>7, <2>8, <2>9 DEF JarInv
<1>8. ASSUME \/ Tick
             \/ \E b \in Browsers : \/ \E s \in Visuals : Authorize(b, s)
                                    \/ CreateHandoff(b)
                                    \/ \E h \in HandoffIds : ConsumeHandoff(b, h)
      PROVE  UNCHANGED <<conns, thread>>
  BY <1>8 DEF Tick, Authorize, CreateHandoff, ConsumeHandoff
<1> QED
  BY <1>1, <1>2, <1>3, <1>4, <1>5, <1>6, <1>7, <1>8 DEF GatewayNext, GatewayStep, gatewayVars

GatewayBound == RegistryInv /\ Limits /\ JarInv

\* The gateway's invariants hold throughout.
LEMMA GatewayAlways == GatewaySpec => []GatewayBound
<1>1. GatewayInit => GatewayBound
  <2> SUFFICES ASSUME GatewayInit PROVE GatewayBound
    OBVIOUS
  <2>1. Live(conns) = {} /\ Live(handoffs) = {} /\ DOMAIN conns = {}
    BY DEF GatewayInit, Live
  <2>2. Limits
    <3>1. Cardinality(Live(conns)) = 0 /\ Cardinality(Live(handoffs)) = 0 /\ now = 0
      BY <2>1, FS_EmptySet DEF GatewayInit
    <3>2. 0 \in 0 .. MaxTime /\ 0 <= Capacity
      BY GatewayAssumption
    <3> QED
      BY <3>1, <3>2 DEF Limits
  <2>3. JarInv
    BY <2>1 DEF GatewayInit, JarInv
  <2> QED
    BY <2>2, <2>3, RegistryBegins DEF GatewayBound
<1>2. GatewayBound /\ [GatewayNext]_gatewayVars => GatewayBound'
  BY RegistryStep, LimitsStep, JarStep DEF GatewayBound
<1> QED
  BY <1>1, <1>2, PTL DEF GatewaySpec

\* For any number of browsers, threads, connections and handoffs: the gateway's
\* variables stay in their sets, and neither registry holds more entries in force
\* than its limit (gateway.py MAX_ACTIVE_CONNECTIONS, MAX_BROWSER_HANDOFFS).
THEOREM GatewayIsBounded == GatewaySpec => []GatewayTypeOK
<1>1. GatewayBound => GatewayTypeOK
  <2> SUFFICES ASSUME GatewayBound PROVE GatewayTypeOK
    OBVIOUS
  <2>1. GatewayTypes /\ RequestInv /\ Limits
    BY DEF GatewayBound, RegistryInv
  <2>2. config \in [Browsers -> 0 .. MaxConnections]
    BY <2>1, GatewayAssumption DEF GatewayTypes, RequestInv, Connections
  <2>3. \A t \in Threads : thread[t] \in ThreadRecords
    BY <2>1 DEF GatewayTypes
  <2> QED
    BY <2>1, <2>2, <2>3
    DEF GatewayTypeOK, GatewayTypes, Limits, ConnectionRecords, HandoffRecords, ThreadRecords
<1> QED
  BY <1>1, GatewayAlways, PTL

\* For any number of browsers, threads and connections: the answer of an earlier
\* request never takes the place of a later one's cookie, whatever is evicted
\* meanwhile (gateway.py _EncryptedConnection.lock).
THEOREM CookiesMoveForward == GatewaySpec => JarNeverGoesBack
<1>1. GatewayBound /\ [GatewayNext]_gatewayVars => [Ahead]_gatewayVars
  BY JarStep DEF GatewayBound
<1>2. JarNeverGoesBack <=> [][Ahead]_gatewayVars
  BY DEF JarNeverGoesBack, Ahead
<1> QED
  BY <1>1, <1>2, GatewayAlways, PTL DEF GatewaySpec
=============================================================================
