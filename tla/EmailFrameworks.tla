--------------------------- MODULE EmailFrameworks --------------------------
(***************************************************************************)
(* One ledger, two receivers.  The owner may route mail to Hermes (module  *)
(* EmailChannel) or to a native coding session, whose OwnerInbox           *)
(* (capabilities/mail/ingress.py) reads the same table.  The runtime runs  *)
(* one of them at a time and may switch, or crash either, at any point.    *)
(*                                                                         *)
(* OwnerInbox.poll is synchronous, so nothing interleaves with it; a crash *)
(* can still separate the commit in the native inbox from put(key, "done").*)
(***************************************************************************)
EXTENDS EmailChannelProps

CONSTANT HandoffLimit   \* the default limit of native_handoff_failed

ASSUME HandoffAssumption ==
  /\ HandoffLimit \in Nat \ {0}
  /\ {"off", "idle", "walking"} \intersect Messages = {}   \* states of `native`

VARIABLES
  native,  \* where OwnerInbox.poll stands
  walk,    \* the arrivals it has not looked at yet
  inbox    \* keys the native session's own durable inbox has committed

nativeVars == <<native, walk, inbox>>
allVars    == <<vars, nativeVars>>

FrameworksTypeOK ==
  /\ TypeOK
  /\ native \in {"off", "idle", "walking"} \union Messages
  /\ walk \subseteq Arrivals
  /\ inbox \subseteq Messages

FrameworksInit ==
  /\ Init
  /\ native = "off"
  /\ walk = {}
  /\ inbox = {}

\* Every native step leaves the Hermes process, which is down, as it is.
HermesIdle == UNCHANGED <<process, poll, live, flight, external, history>>

-----------------------------------------------------------------------------
\* OwnerInbox(): the same ledger is opened by the native receiver.
NativeStarts ==
  /\ native = "off"
  /\ ~up
  /\ native' = "idle"
  /\ channel' = Status
  /\ UNCHANGED <<rows, walk, inbox>> /\ HermesIdle

\* A switch back to Hermes, or a crash wherever poll() stands.
NativeStops ==
  /\ native # "off"
  /\ stops < MaxStops
  /\ stops' = stops + 1
  /\ native' = "off"
  /\ walk' = {}
  /\ UNCHANGED <<rows, inbox, channel, up, poll, live, flight, external, history>>

\* poll(): the assignment is fetched afresh, then the mailbox.
NativePolls ==
  /\ native = "idle"
  /\ channel' = Status
  /\ rows' = ingest(rows, mail)
  /\ walk' = arrivals(rows')
  /\ native' = "walking"
  /\ UNCHANGED inbox /\ HermesIdle

NativeDone ==
  /\ native = "walking"
  /\ walk = {}
  /\ native' = "idle"
  /\ UNCHANGED <<rows, walk, inbox, channel>> /\ HermesIdle

\* The welcome is left to Hermes; an interrupted Hermes turn is given up.
NativeSkips ==
  /\ native = "walking"
  /\ \E w \in walk :
       /\ w[1] = Welcome \/ w[2] = "processing"
       /\ walk' = walk \ {w}
       /\ rows' = IF w[1] = Welcome THEN rows
                  ELSE native_handoff_failed(rows, w[1], 0)
  /\ UNCHANGED <<native, inbox, channel>> /\ HermesIdle

NativeDrops ==
  /\ native = "walking"
  /\ \E w \in walk :
       /\ w[2] = "queued"
       /\ Sender[w[1]] # channel.owner
       /\ walk' = walk \ {w}
       /\ rows' = put(rows, w[1], "done", NoBody)
  /\ UNCHANGED <<native, inbox, channel>> /\ HermesIdle

\* Mutant: an interrupted Hermes turn is offered too.
OfferedAny(w) == w[2] \in {"queued", "processing"} /\ Sender[w[1]] = channel.owner

Offered(w) == w[2] = "queued" /\ Sender[w[1]] = channel.owner

\* accept() commits; a repeated offer of the same key changes nothing there.
NativeCommits ==
  /\ native = "walking"
  /\ \E w \in walk :
       /\ Offered(w)
       /\ walk' = walk \ {w}
       /\ inbox' = inbox \union {w[1]}
       /\ native' = w[1]
  /\ UNCHANGED <<rows, channel>> /\ HermesIdle

NativeMarksDone ==
  /\ native \in Messages
  /\ rows' = put(rows, native, "done", NoBody)
  /\ native' = "walking"
  /\ UNCHANGED <<walk, inbox, channel>> /\ HermesIdle

\* Mutant: backpressure is taken for a completed handoff.
NativeDefersAsDone ==
  /\ native = "walking"
  /\ \E w \in walk :
       /\ Offered(w)
       /\ walk' = walk \ {w}
       /\ rows' = put(rows, w[1], "done", NoBody)
  /\ UNCHANGED <<native, inbox, channel>> /\ HermesIdle

\* BufferError: the native inbox is full.
NativeDefers ==
  /\ native = "walking"
  /\ \E w \in walk :
       /\ Offered(w)
       /\ walk' = walk \ {w}
       /\ rows' = defer_native_handoff(rows, w[1])
  /\ UNCHANGED <<native, inbox, channel>> /\ HermesIdle

\* Any other exception, raised before or after the native inbox committed.
NativeFails ==
  /\ native = "walking"
  /\ \E w \in walk :
       /\ Offered(w)
       /\ walk' = walk \ {w}
       /\ inbox' \in {inbox, inbox \union {w[1]}}
       /\ rows' = native_handoff_failed(rows, w[1], HandoffLimit)
  /\ UNCHANGED <<native, channel>> /\ HermesIdle

NativeStep == NativePolls \/ NativeDone \/ NativeSkips \/ NativeDrops
              \/ NativeCommits \/ NativeMarksDone \/ NativeDefers \/ NativeFails

Hermes == Next /\ (up' => native = "off") /\ UNCHANGED nativeVars

FrameworksNext == Hermes \/ NativeStarts \/ NativeStops \/ NativeStep

FrameworksSpec == FrameworksInit /\ [][FrameworksNext]_allVars

-----------------------------------------------------------------------------
\* A turn that Hermes began is never offered to a native session: it may have
\* acted already (README, "Native channel sessions"; ingress.py, poll).
InterruptedTurnNotReplayed ==
  [][\A m \in Messages : m \in inbox' \ inbox => begun[m] = 0]_allVars

\* Mail of the only owner is marked done only once a reply was posted or the
\* native inbox committed it, across crashes and switches.
NoSilentLoss ==
  \A m \in Messages : rows[m].state = "done" /\ Owners = {Sender[m]}
                        => posted[m] # {} \/ m \in inbox

\* Handoffs that fail are retried a bounded number of times, and a full native
\* inbox costs nothing: what is still queued has used less than its budget.
HandoffBudget ==
  \A m \in Messages : rows[m].state = "queued" => rows[m].turns < HandoffLimit

\* The ledger both receivers write to is typed, and what is still queued in it may
\* be handed over (OwnerInbox.receive, native_handoff_failed).
FrameworksSound == FrameworksTypeOK /\ HandoffBudget

\* What was handed over completely stays closed: no later poll of either
\* receiver, and no switch, opens it for Hermes to answer too.
HandedOverIsClosed ==
  [][\A m \in inbox : rows[m].state = "done" /\ begun[m] = 0
                        => rows'[m].state = "done"]_allVars
=============================================================================
