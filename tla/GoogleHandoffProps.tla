-------------------------- MODULE GoogleHandoffProps ------------------------
(***************************************************************************)
(* What connecting an account promises, whoever runs when and dies where.  *)
(***************************************************************************)
EXTENDS GoogleHandoff

PcStates ==
  {"off", "idle", "posting", "button", "starting", "loop", "asking", "clear",
   "deny", "closing", "gone", "install", "receipt", "save", "promote", "ack",
   "claim", "retire", "notice", "wipe"}

Inside(p) ==
  \/ pc[p] \in {"posting", "button", "receipt", "save", "promote", "claim",
                "retire"}
  \/ p = Tool /\ pc[p] = "starting"

Statuses == {"unused", "pending", "ready", "claimed", "ended"}

SignIns ==
  [status : Statuses, target : Handoffs, binding : Bindings,
   subject : Subjects \union {None}]

\* The types of the variables; the lock is held by exactly the process that
\* stands inside it.
HandoffTypeOK ==
  /\ SharedTypeOK
  /\ handoff \in [Handoffs -> SignIns]
  /\ pc \in [Procs -> PcStates]
  /\ task \in [on : Handoffs \union {None}, target : Handoffs \union {None}]
  /\ seen \in Bindings
  /\ told \in [Handoffs -> [ready : Nat, failed : BOOLEAN]]
  /\ botched \in [Handoffs -> SUBSET {"save", "promote"}]
  /\ crashes \in 0 .. MaxCrashes
  /\ \A p \in Procs : Inside(p) <=> lock = p

\* A second worker of the sign-in was started, beside one nobody heard of.
Doubled(h) == pc[<<h, 2>>] # "off"

\* Across every crash, a credential on disk that the platform has not been
\* told of is remembered by a receipt: the account cannot stay unknown to the
\* platform (_install_ready_credentials writes the receipt first,
\* _acknowledge_install_receipt deletes it last).  A save that raises though it
\* took effect takes the receipt with it, and so may a second worker that does not
\* get as far as the first.
SavedIsOwed ==
  \A a \in store :
    \/ handoff[a.from].status = "claimed" \/ receipt[a.from] # NoReceipt
    \/ "save" \in botched[a.from] \/ Doubled(a.from)

\* While an install waits for its acknowledgement no other sign-in is under
\* way that could install: _start_connection looks for receipts under the same
\* lock it writes the marker in.
NoSignInDuringSync ==
  \A h \in Handoffs : receipt[h] # NoReceipt => active \in {h, None}

\* No Google account and no connection id is saved twice, and a save never
\* meets the refusal of _account_store_document.
OneAccountEach ==
  /\ Unambiguous(store)
  /\ \A w \in Workers : pc[w] = "save" => Unambiguous(Upsert(store, Envelope(w)))

\* One notice of success for a sign-in, whichever of its workers and the later
\* tool calls acknowledges it.
OneReadyNotice == \A h \in Handoffs : told[h].ready <= 1

\* A sign-in the user was told failed, or was replaced, is not the one whose
\* credential is saved (README: such attempts stop with fixed safe outcomes).
FailedAttemptsStop ==
  \A h \in Handoffs : told[h].failed => \A a \in store : a.from # h

\* What the code keeps of that: the user is told a failure of a credential that is
\* saved only when a write raised after it was on disk, or when the sign-in had two
\* workers, one of which found the other's account.
FailedMeansUnsaved ==
  \A h \in Handoffs :
    told[h].failed /\ botched[h] = {} /\ ~Doubled(h) => \A a \in store : a.from # h

\* The platform hears "installed" only of a credential that is on disk.
ClaimMeansSaved ==
  [][\A h \in Handoffs :
       handoff[h].status # "claimed" /\ handoff'[h].status = "claimed"
         => \E a \in store' : a.from = h]_allVars

\* Only the sign-in whose marker stands may install (docs: "Only the latest
\* active handoff may install"), and none installs while the plugin is in the
\* middle of starting another.
OnlyTheActiveInstalls ==
  [][\A a \in store' \ store :
       a.from = active /\ pc[Tool] \notin {"posting", "starting", "button"}]_allVars

-----------------------------------------------------------------------------
\* Whatever the plugin or a worker has begun it goes on with; the hook runs
\* before every model turn; the agent goes on calling the tool, and a platform
\* that is asked again and again answers.
HandoffFairness ==
  /\ \A w \in Workers : WF_allVars(Polls(w) \/ Installs(w))
  /\ WF_allVars(ConnectPosts \/ ConnectStarts \/ ConnectEnds)
  /\ \A p \in Workers \union {Tool} : WF_allVars(Acknowledges(p))
  /\ \A h \in Handoffs : SF_allVars(RecoverBegins(h))
  /\ SF_allVars(AckBegins(Tool) \/ AckOrphaned(Tool) \/ AckUnassigned(Tool))
  /\ SF_allVars(ClaimAccepted(Tool))
  /\ WF_allVars(HookReads) /\ SF_allVars(HookWipes)

HandoffLive == HandoffSpec /\ HandoffFairness

\* Every install is acknowledged or given up in the end: a receipt, which
\* refuses every further connect, does not stay.  One does when the platform has
\* ended the sign-in: its envelope lapsed, or a second worker claimed a failure.
SyncClears ==
  \A h \in Handoffs :
    receipt[h] # NoReceipt ~> receipt[h] = NoReceipt \/ handoff[h].status = "ended"

\* Credentials of an assignment the Computer no longer has are removed
\* (docs: "Assignment mismatch wipes stale local state").
Stale == \E a \in store : a.binding # binding
=============================================================================
