------------------------- MODULE GoogleWorkspaceProps ------------------------
(***************************************************************************)
(* What holds where sign-ins, revocations and refreshes meet.              *)
(***************************************************************************)
EXTENDS GoogleWorkspace, GoogleHandoffProps

DpcStates ==
  {"off", "idle", "offer", "await", "activate", "undo", "unstarted",
   "starting", "resume", "loop", "poll", "retract", "delete", "claim",
   "unlink", "promote", "report", "lapse", "expire", "gone"}

InLock(p) ==
  IF p \in Procs
    THEN \/ pc[p] \in {"posting", "button", "receipt", "save", "promote",
                       "claim", "retire"}
         \/ p = Tool /\ pc[p] = "starting"
    ELSE dpc[p] \in {"await", "claim", "unlink", "promote"}

\* The types of the revocation's variables, and that the lifecycle lock
\* excludes every one of the processes from every other.
WorkspaceTypeOK ==
  /\ SharedTypeOK
  /\ intent \in [Intents ->
       [status : {"unused", "created", "offered", "confirmed", "disconnected",
                  "ended"},
        id : Handoffs \union {None}, claimed : BOOLEAN]]
  /\ kept \in [Intents -> {"none", "state", "delete_pending", "disconnected",
                           "expired"}]
  /\ \A i \in Intents : expect[i] \in Account \union {None}
  /\ dpc \in [Deleters \union {Asker} -> DpcStates]
  /\ \A p \in Procs \union Deleters \union {Asker} : InLock(p) <=> lock = p

\* A credential comes back only with a sign-in begun after the revocation: no
\* worker that was under way then, and no refresh that had read the account,
\* writes it again (_cancel_pending_handoff_locked: "Prevent credential
\* resurrection").
BarredStayOut == \A a \in store : a.from \notin barred

LeavesAlone(a) ==
  (\A b \in store : b.binding = binding) /\ ~(\E b \in store' : b.id = a.id)

\* Under one assignment an account leaves only for a revocation the user has
\* confirmed, the platform has let this Computer claim, and that was asked for
\* this very credential (README: "A stale confirmation cannot delete credentials
\* installed by a later permission change").  A second worker of the revocation may
\* have reported it already.
OnlyConfirmedLeave ==
  [][\A a \in store :
       LeavesAlone(a) =>
         \E i \in Intents : /\ intent[i].status \in {"confirmed", "disconnected"}
                            /\ intent[i].claimed
                            /\ expect[i] = a]_everything

\* What the platform shows as disconnected is not on this Computer.  An account that
\* had gone by itself, with the revocation deleting nothing, can be saved again by
\* a second worker of its sign-in.
RemoteTruth ==
  \A i \in Intents : intent[i].status = "disconnected" =>
    ~Saved(intent[i].id) \/ (Doubled(intent[i].id) /\ i \notin revoked)

\* One lifecycle lock for sign-in, revocation and refresh, and a platform that is
\* told only of deletions that happened (_complete_disconnect_intent).
WorkspaceSound == WorkspaceTypeOK /\ RemoteTruth

\* A deletion is remembered on disk until the platform has closed the intent
\* (_resume_retained_disconnect_workers: "resume durable completion receipts").
\* Of two workers beside each other one may drop the directory under the other's
\* deletion.
DeletionIsRemembered ==
  \A i \in revoked \ beside :
    \/ intent[i].status \in {"disconnected", "ended"}
    \/ kept[i] \in {"delete_pending", "disconnected"}

-----------------------------------------------------------------------------
\* A worker goes on until its work is done, an answer that can come comes in
\* the end, and the agent goes on calling the tool.
Lately(A) == A /\ Remember /\ UNCHANGED <<hvars, rvars>>

DeletionFairness ==
  /\ \A w \in Deleters :
       /\ WF_everything(Lately(Revokes(w)))
       /\ SF_everything(Lately(ReportAccepted(w)))
       /\ SF_everything(Lately(Resumes(w)))
  /\ WF_everything(Lately(AskSeesWorker \/ AskSeesNoWorker))
  /\ WF_everything(Lately(AskUndoes))

WorkspaceLive == WorkspaceSpec /\ DeletionFairness

\* A deletion once begun is finished or called off, over any number of deaths
\* of its workers (disconnect_worker.py: "Resume the already-confirmed poll
\* path").
DeletionsFinish ==
  \A i \in Intents : kept[i] = "delete_pending" ~> kept[i] # "delete_pending"
=============================================================================
