--------------------------- MODULE ShareProcesses ---------------------------
(***************************************************************************)
(* What a call of tinyhat_local_app_sharing needs before it may create a   *)
(* Visual: the gateway (ensure_gateway_running in tool.py) and the         *)
(* Cloudflare connector (ensure_connector_running in connector.py).  Each  *)
(* is a detached process that outlives the call, is known by its pid file  *)
(* and is replaced under a lock: the gateway when an upgrade of the plugin *)
(* changes its protocol, the connector when the platform recreates the     *)
(* tunnel and with it the token.                                           *)
(***************************************************************************)
EXTENDS Naturals, FiniteSets

CONSTANTS
  Calls,
  MaxPids,      \* bound on the processes ever started, of each kind
  MaxUpgrades,   \* bound on upgrades and on recreated tunnels
  MaxStumbles   \* bound on crashes and failed steps

Pids == 1 .. MaxPids
NoCall == "no call"
NoProcess == [state |-> "none", of |-> 0]

ASSUME ProcessesAssumption ==
  /\ NoCall \notin Calls
  /\ MaxPids \in Nat \ {0} /\ MaxUpgrades \in Nat \ {0} /\ MaxStumbles \in Nat

VARIABLES
  package,     \* the protocol version of the installed plugin
  gateways,    \* pid -> [state, of: its protocol version]
  gatepid,     \* the gateway's pid file, 0 for none
  gatelock,
  tunnel,      \* the connector token of the platform's tunnel
  token,       \* the token file
  connectors,  \* pid -> [state, of: the token it was started with]
  connpid, connlock,
  call,        \* call -> [pc, got: token of the answer, pid]
  lost,        \* history: processes left running by a death or a stop that failed
  stumbles

processVars == <<package, gateways, gatepid, gatelock, tunnel, token, connectors,
                 connpid, connlock, call, lost, stumbles>>
gatewayProcess == <<package, gateways, gatepid, gatelock>>
connectorProcess == <<tunnel, token, connectors, connpid, connlock>>

Stumble == stumbles < MaxStumbles /\ stumbles' = stumbles + 1
Goes(c, pc) == call' = [call EXCEPT ![c].pc = pc]

Running(processes) == {p \in Pids : processes[p].state \in {"starting", "serving"}}
Serving(processes) == {p \in Pids : processes[p].state = "serving"}
Gateway(p) == <<"gateway", p>>
Connector(p) == <<"connector", p>>

Stopped(processes, p) ==
  [q \in Pids |-> IF q = p /\ q \in Running(processes)
                  THEN [processes[q] EXCEPT !.state = "dead"] ELSE processes[q]]
FreshPids(processes) == {p \in Pids : processes[p].state = "none"
                                  /\ \A q \in 1 .. (p - 1) : processes[q].state # "none"}

----------------------------------------------------------------------------
\* The gateway.

\* _gateway_is_healthy: the process at the port speaks this plugin's protocol.
Healthy == \E p \in Serving(gateways) : gateways[p].of = package

CheckGateway(c) ==
  /\ call[c].pc = "begin"
  /\ Goes(c, IF Healthy THEN "connector" ELSE "gateway")
  /\ UNCHANGED <<gatewayProcess, connectorProcess, lost, stumbles>>

\* _stop_stale_gateway.  It gives up when ps does not answer or shows another
\* installation's command, and stops waiting for a process after a second.
StopRecorded(stopped) ==
  \/ stopped = Stopped(gateways, gatepid) /\ UNCHANGED <<lost, stumbles>>
  \/ /\ gatepid \in Running(gateways) /\ stopped = gateways
     /\ Stumble /\ lost' = lost \union {Gateway(gatepid)}

\* Under the lock: healthy by now, or stop the recorded process and spawn.
ReplaceGateway(c) ==
  /\ call[c].pc = "gateway" /\ gatelock = NoCall
  /\ \/ /\ Healthy /\ Goes(c, "connector")
        /\ UNCHANGED <<gateways, gatelock, lost, stumbles>>
     \/ /\ ~Healthy
        /\ \E stopped \in {gateways, Stopped(gateways, gatepid)}, p \in FreshPids(gateways) :
             /\ StopRecorded(stopped)
             /\ gateways' = [stopped EXCEPT ![p] = [state |-> "starting", of |-> package]]
             /\ gatelock' = c
             /\ call' = [call EXCEPT ![c].pc = "spawned", ![c].pid = p]
  /\ UNCHANGED <<package, gatepid, connectorProcess>>

RecordGateway(c) ==
  /\ call[c].pc = "spawned"
  /\ gatepid' = call[c].pid
  /\ Goes(c, "probing")
  /\ UNCHANGED <<package, gateways, gatelock, connectorProcess, lost, stumbles>>

\* Thirty probes: ready, exited or of another version, or too slow.
AwaitGateway(c) ==
  /\ call[c].pc = "probing"
  /\ \/ /\ Healthy /\ gateways[call[c].pid].state # "dead"
        /\ Goes(c, "connector") /\ UNCHANGED stumbles
     \/ /\ gateways[call[c].pid].state # "starting"
        /\ gateways[call[c].pid].state = "dead" \/ ~Healthy
        /\ Goes(c, "failed") /\ UNCHANGED stumbles
     \/ Stumble /\ Goes(c, "failed")
  /\ gatelock' = NoCall
  /\ UNCHANGED <<package, gateways, gatepid, connectorProcess, lost>>

\* serve() binds the port, or dies because another process has it.
GatewayServes(p) ==
  /\ gateways[p].state = "starting"
  /\ gateways' = [gateways EXCEPT ![p].state =
                    IF Serving(gateways) = {} THEN "serving" ELSE "dead"]
  /\ UNCHANGED <<package, gatepid, gatelock, connectorProcess, call, lost, stumbles>>

\* A new plugin with another protocol version is installed.
Upgrade ==
  /\ package < MaxUpgrades /\ package' = package + 1
  /\ UNCHANGED <<gateways, gatepid, gatelock, connectorProcess, call, lost, stumbles>>

----------------------------------------------------------------------------
\* The connector.

\* The lock, and the platform's answer.
EnsureTunnel(c) ==
  /\ call[c].pc = "connector" /\ connlock = NoCall
  /\ \/ /\ connlock' = c
        /\ call' = [call EXCEPT ![c].pc = "token", ![c].got = tunnel]
        /\ UNCHANGED stumbles
     \/ Stumble /\ Goes(c, "failed") /\ UNCHANGED connlock
  /\ UNCHANGED <<gatewayProcess, tunnel, token, connectors, connpid, lost>>

\* _write_token.
WriteToken(c) ==
  /\ call[c].pc = "token"
  /\ token' = call[c].got
  /\ Goes(c, IF token = call[c].got THEN "checking" ELSE "stopping")
  /\ UNCHANGED <<gatewayProcess, tunnel, connectors, connpid, connlock, lost, stumbles>>

\* _stop_connector: a process that survives SIGKILL's wait fails the call; one that
\* ps does not show in time counts as stopped.
StopConnector(c) ==
  /\ call[c].pc = "stopping"
  /\ \/ /\ connectors' = Stopped(connectors, connpid)
        /\ Goes(c, "checking") /\ UNCHANGED <<connlock, lost, stumbles>>
     \/ /\ connpid \in Running(connectors)
        /\ Stumble /\ lost' = lost \union {Connector(connpid)}
        /\ \/ Goes(c, "failed") /\ connlock' = NoCall
           \/ Goes(c, "checking") /\ UNCHANGED connlock
        /\ UNCHANGED connectors
  /\ UNCHANGED <<gatewayProcess, tunnel, token, connpid>>

\* _connector_process: the recorded process is one of ours and runs; where ps does
\* not answer there is none.
StartConnector(c) ==
  /\ call[c].pc = "checking"
  /\ \/ /\ connpid \in Running(connectors)
        /\ connlock' = NoCall /\ Goes(c, "ready") /\ UNCHANGED <<connectors, lost, stumbles>>
     \/ /\ \/ connpid \notin Running(connectors) /\ UNCHANGED <<lost, stumbles>>
           \/ /\ connpid \in Running(connectors)
              /\ Stumble /\ lost' = lost \union {Connector(connpid)}
        /\ \E p \in FreshPids(connectors) :
             /\ connectors' = [connectors EXCEPT ![p] = [state |-> "starting", of |-> token]]
             /\ call' = [call EXCEPT ![c].pc = "launched", ![c].pid = p]
             /\ UNCHANGED connlock
  /\ UNCHANGED <<gatewayProcess, tunnel, token, connpid>>

\* _install_cloudflared before it: a download, a checksum or the archive is bad.
CloudflaredFails(c) ==
  /\ call[c].pc = "checking" /\ connpid \notin Running(connectors)
  /\ Stumble /\ Goes(c, "failed") /\ connlock' = NoCall
  /\ UNCHANGED <<gatewayProcess, tunnel, token, connectors, connpid, lost>>

RecordConnector(c) ==
  /\ call[c].pc = "launched"
  /\ connpid' = call[c].pid
  /\ Goes(c, "polling")
  /\ UNCHANGED <<gatewayProcess, tunnel, token, connectors, connlock, lost, stumbles>>

\* Eighty polls: ready, exited, or stopped, if that succeeds, because it was too slow.
AwaitConnector(c) ==
  /\ call[c].pc = "polling"
  /\ \/ /\ Serving(connectors) # {} /\ call[c].pid \in Running(connectors)
        /\ Goes(c, "ready") /\ UNCHANGED <<connectors, stumbles>>
     \/ /\ connectors[call[c].pid].state = "dead"
        /\ Goes(c, "failed") /\ UNCHANGED <<connectors, stumbles>>
     \/ /\ Stumble /\ Goes(c, "failed")
        /\ connectors' \in {connectors, Stopped(connectors, connpid)}
  /\ connlock' = NoCall
  /\ UNCHANGED <<gatewayProcess, tunnel, token, connpid, lost>>

\* cloudflared has its metrics port, or exits because another process has it.
ConnectorServes(p) ==
  /\ connectors[p].state = "starting"
  /\ connectors' = [connectors EXCEPT ![p].state =
                      IF Serving(connectors) = {} THEN "serving" ELSE "dead"]
  /\ UNCHANGED <<gatewayProcess, tunnel, token, connpid, connlock, call, lost, stumbles>>

\* The platform recreates the tunnel, and with it the token.
RecreateTunnel ==
  /\ tunnel < MaxUpgrades /\ tunnel' = tunnel + 1
  /\ UNCHANGED <<gatewayProcess, token, connectors, connpid, connlock, call, lost, stumbles>>

----------------------------------------------------------------------------
\* A call ends with its process; the kernel releases its locks.
CallDies(c) ==
  /\ call[c].pc \notin {"begin", "ready", "failed", "dead"}
  /\ Stumble /\ Goes(c, "dead")
  /\ lost' = lost \union
       (CASE call[c].pc = "spawned"  -> {Gateway(call[c].pid)}
          [] call[c].pc = "stopping" -> {Connector(connpid)}
          [] call[c].pc = "launched" -> {Connector(call[c].pid)}
          [] OTHER                   -> {})
  /\ gatelock' = IF gatelock = c THEN NoCall ELSE gatelock
  /\ connlock' = IF connlock = c THEN NoCall ELSE connlock
  /\ UNCHANGED <<package, gateways, gatepid, tunnel, token, connectors, connpid>>

\* One that was sent SIGTERM ends when it comes to it.
ProcessDies(p) ==
  /\ Stumble \/ ({Gateway(p), Connector(p)} \intersect lost # {} /\ UNCHANGED stumbles)
  /\ \/ /\ p \in Running(gateways) /\ gateways' = Stopped(gateways, p)
        /\ UNCHANGED connectors
     \/ /\ p \in Running(connectors) /\ connectors' = Stopped(connectors, p)
        /\ UNCHANGED gateways
  /\ UNCHANGED <<package, gatepid, gatelock, tunnel, token, connpid, connlock, call, lost>>

ProcessInit ==
  /\ package = 1 /\ tunnel = 1 /\ token = 0
  /\ gateways = [p \in Pids |-> NoProcess] /\ connectors = [p \in Pids |-> NoProcess]
  /\ gatepid = 0 /\ connpid = 0 /\ gatelock = NoCall /\ connlock = NoCall
  /\ call = [c \in Calls |-> [pc |-> "begin", got |-> 0, pid |-> 0]]
  /\ lost = {} /\ stumbles = 0

CallStep(c) ==
  \/ CheckGateway(c) \/ ReplaceGateway(c) \/ RecordGateway(c) \/ AwaitGateway(c)
  \/ EnsureTunnel(c) \/ WriteToken(c) \/ StopConnector(c) \/ StartConnector(c)
  \/ CloudflaredFails(c) \/ RecordConnector(c) \/ AwaitConnector(c)

ServerStep == \E p \in Pids : GatewayServes(p) \/ ConnectorServes(p)

ProcessNext ==
  \/ \E c \in Calls : CallStep(c) \/ CallDies(c)
  \/ ServerStep
  \/ \E p \in Pids : ProcessDies(p)
  \/ Upgrade \/ RecreateTunnel

----------------------------------------------------------------------------
ProcessTypeOK ==
  /\ package \in 1 .. MaxUpgrades /\ tunnel \in 1 .. MaxUpgrades /\ token \in 0 .. MaxUpgrades
  /\ \A processes \in {gateways, connectors} :
       processes \in [Pids -> [state : {"none", "starting", "serving", "dead"},
                               of : 0 .. MaxUpgrades]]
  /\ gatepid \in 0 .. MaxPids /\ connpid \in 0 .. MaxPids
  /\ gatelock \in Calls \union {NoCall} /\ connlock \in Calls \union {NoCall}
  /\ call \in [Calls -> [pc : {"begin", "gateway", "spawned", "probing", "connector", "token",
                               "stopping", "checking", "launched", "polling", "ready",
                               "failed", "dead"},
                         got : 0 .. MaxUpgrades, pid : 0 .. MaxPids]]
  /\ lost \subseteq {"gateway", "connector"} \X (0 .. MaxPids) /\ stumbles \in 0 .. MaxStumbles

\* Whatever runs is what the pid file names, so that the next call can replace
\* it, or was left behind where a call died before it had recorded it or could not
\* stop it (_stop_stale_gateway stops no other process).
GatewayIsRecorded ==
  gatelock = NoCall => \A p \in Running(gateways) : p = gatepid \/ Gateway(p) \in lost

\* Between calls there is the recorded connector, and it uses the token of the
\* token file, or was left behind: "responses [are not applied] out of order"
\* (connector.py).
ConnectorIsCurrent ==
  connlock = NoCall =>
    \A p \in Running(connectors) :
      \/ p = connpid /\ connectors[p].of = token
      \/ Connector(p) \in lost

\* A call is still at one of the two processes.
Calling == \E c \in Calls : call[c].pc \notin {"begin", "ready", "failed", "dead"}
=============================================================================
