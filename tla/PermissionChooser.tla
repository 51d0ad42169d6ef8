-------------------------- MODULE PermissionChooser -------------------------
(***************************************************************************)
(* action="choose_permissions" (google_workspace/connection.py) and its    *)
(* detached watcher (permission_chooser_worker.py): the tool writes the    *)
(* chooser's state, starts a worker, waits for it to say it is ready and   *)
(* only then sends the button; the worker polls the platform for the       *)
(* choice and starts the sign-in that GoogleHandoff models.                *)
(***************************************************************************)
EXTENDS Naturals

CONSTANTS
  Copies,       \* processes that may come to watch a chooser
  MaxLosses     \* bound on lost answers, timeouts and deaths

ASSUME ChooserAssumption == MaxLosses \in Nat

VARIABLES
  chooser,      \* at the platform: "none", "open", "selected", "completed", "failed", "gone"
  notes,        \* files in the chooser's directory
  caller,       \* the tool call
  watcher,      \* copy -> its progress
  button,       \* the owner has the chooser's button
  signIns,      \* sign-ins started for the choice
  saidFailed,   \* notices of failure
  silenced,     \* history: watchers of whose failure nobody was told
  losses

chooserVars == <<chooser, notes, caller, watcher, button, signIns, saidFailed, silenced,
                losses>>

Loss == losses < MaxLosses /\ losses' = losses + 1
ToWatcher(w, pc) == watcher' = [watcher EXCEPT ![w] = pc]

----------------------------------------------------------------------------
\* _start_permission_chooser: POST, then _write_permission_chooser_worker_state.
OpenChooser ==
  /\ caller = "begin"
  /\ chooser' = "open" /\ notes' = {"state"} /\ caller' = "spawn"
  /\ UNCHANGED <<watcher, button, signIns, saidFailed, silenced, losses>>

\* _start_permission_chooser_worker_process: systemd-run, and when that fails or
\* takes too long a plain child: after a timeout both may come to run.
Spawn ==
  /\ caller = "spawn" /\ caller' = "wait"
  /\ \/ \E w \in Copies : watcher' = [watcher EXCEPT ![w] = "start"] /\ UNCHANGED losses
     \/ Loss /\ watcher' = [w \in Copies |-> "start"]
     \/ Loss /\ UNCHANGED watcher
  /\ UNCHANGED <<chooser, notes, button, signIns, saidFailed, silenced>>

\* _wait_for_permission_chooser_worker_ready, and the cleanup when it gives up.
SeesReady ==
  /\ caller = "wait" /\ "ready" \in notes
  /\ caller' = "send"
  /\ UNCHANGED <<chooser, notes, watcher, button, signIns, saidFailed, silenced, losses>>

GivesUp ==
  /\ caller = "wait" /\ "ready" \notin notes
  /\ \/ "state" \notin notes /\ UNCHANGED losses
     \/ "state" \in notes /\ Loss
  /\ caller' = "refused" /\ notes' = {}
  /\ UNCHANGED <<chooser, watcher, button, signIns, saidFailed, silenced>>

\* The deadline of the wait when nobody will ever be ready.
WaitsInVain ==
  /\ caller = "wait" /\ "ready" \notin notes
  /\ \A w \in Copies : watcher[w] \in {"none", "done", "dead"}
  /\ caller' = "refused" /\ notes' = {}
  /\ UNCHANGED <<chooser, watcher, button, signIns, saidFailed, silenced, losses>>

\* _send_permission_chooser_button: a refusal reaches the caller though the owner
\* may have the button.
SendButton ==
  /\ caller = "send"
  /\ \/ button' = TRUE /\ caller' = "sent" /\ UNCHANGED losses
     \/ Loss /\ button' \in BOOLEAN /\ caller' = "refused"
  /\ UNCHANGED <<chooser, notes, watcher, signIns, saidFailed, silenced>>

\* External: the owner selects presets; or the platform closes the chooser: custom
\* access, a newer chooser, or expires_at, which is the worker's deadline too (the
\* clocks of the two are taken to agree).
OwnerSelects ==
  /\ button /\ chooser = "open" /\ chooser' = "selected"
  /\ UNCHANGED <<notes, caller, watcher, button, signIns, saidFailed, silenced, losses>>

ChooserCloses ==
  /\ chooser \in {"open", "selected"} /\ chooser' = "gone"
  /\ UNCHANGED <<notes, caller, watcher, button, signIns, saidFailed, silenced, losses>>

----------------------------------------------------------------------------
\* run_worker.  _load_state fails without a word when the state has been removed.
WatcherLoads(w) ==
  /\ watcher[w] = "start"
  /\ ToWatcher(w, IF "state" \in notes THEN "ready" ELSE "done")
  /\ UNCHANGED <<chooser, notes, caller, button, signIns, saidFailed, silenced, losses>>

\* A second worker finds the ready file written and goes on; a removed directory
\* makes the write fail.
WatcherReady(w) ==
  /\ watcher[w] = "ready"
  /\ IF "state" \in notes THEN notes' = notes \union {"ready"} /\ ToWatcher(w, "poll")
                          ELSE ToWatcher(w, "report") /\ UNCHANGED notes
  /\ UNCHANGED <<chooser, caller, button, signIns, saidFailed, silenced, losses>>

WatcherPolls(w) ==
  /\ watcher[w] = "poll"
  /\ \/ chooser = "selected" /\ ToWatcher(w, "connect") /\ UNCHANGED <<chooser, losses>>
     \/ chooser \in {"completed", "failed", "gone"} /\ ToWatcher(w, "clean") /\ UNCHANGED <<chooser, losses>>
     \/ Loss /\ ToWatcher(w, "report") /\ UNCHANGED chooser
  /\ UNCHANGED <<notes, caller, button, signIns, saidFailed, silenced>>

\* _start_connection: one sign-in, its own button; or it fails before one exists.
WatcherConnects(w) ==
  /\ watcher[w] = "connect"
  /\ \/ signIns' = signIns \union {w} /\ ToWatcher(w, "complete") /\ UNCHANGED losses
     \/ Loss /\ ToWatcher(w, "report") /\ UNCHANGED signIns
  /\ UNCHANGED <<chooser, notes, caller, button, saidFailed, silenced>>

\* _complete: an answer that does not come is an exception like any other.
WatcherCompletes(w) ==
  /\ watcher[w] = "complete"
  /\ \/ chooser = "selected" /\ chooser' = "completed" /\ ToWatcher(w, "clean") /\ UNCHANGED losses
     \/ chooser # "selected" /\ ToWatcher(w, "report") /\ UNCHANGED <<chooser, losses>>
     \/ Loss /\ ToWatcher(w, "report")
        /\ chooser' \in {chooser, IF chooser = "selected" THEN "completed" ELSE chooser}
  /\ UNCHANGED <<notes, caller, button, signIns, saidFailed, silenced>>

\* The handler of every exception: completed as failed and a notice, both as best
\* they can: the failure of either is suppressed, and both may be lost.
WatcherReports(w) ==
  LET refused == IF chooser \in {"open", "selected"} THEN "failed" ELSE chooser
      told    == saidFailed \union {w} IN
  /\ watcher[w] = "report"
  /\ \/ /\ chooser' = refused /\ saidFailed' = told
        /\ UNCHANGED <<silenced, losses>>
     \/ /\ Loss
        /\ \/ chooser' = refused /\ UNCHANGED <<saidFailed, silenced>>
           \/ saidFailed' = told /\ UNCHANGED <<chooser, silenced>>
           \/ silenced' = silenced \union {w} /\ UNCHANGED <<chooser, saidFailed>>
  /\ ToWatcher(w, "clean")
  /\ UNCHANGED <<notes, caller, button, signIns>>

WatcherCleans(w) ==
  /\ watcher[w] = "clean"
  /\ notes' = {} /\ ToWatcher(w, "done")
  /\ UNCHANGED <<chooser, caller, button, signIns, saidFailed, silenced, losses>>

WatcherDies(w) ==
  /\ watcher[w] \notin {"none", "done", "dead"} /\ Loss
  /\ ToWatcher(w, "dead")
  /\ UNCHANGED <<chooser, notes, caller, button, signIns, saidFailed, silenced>>

ChooserInit ==
  /\ chooser = "none" /\ notes = {} /\ caller = "begin"
  /\ watcher = [w \in Copies |-> "none"]
  /\ button = FALSE /\ signIns = {} /\ saidFailed = {} /\ silenced = {} /\ losses = 0

WatcherStep(w) ==
  \/ WatcherLoads(w) \/ WatcherReady(w) \/ WatcherPolls(w) \/ WatcherConnects(w)
  \/ WatcherCompletes(w) \/ WatcherReports(w) \/ WatcherCleans(w)

CallerStep == OpenChooser \/ Spawn \/ SeesReady \/ GivesUp \/ WaitsInVain \/ SendButton

ChooserNext ==
  \/ CallerStep \/ OwnerSelects \/ ChooserCloses
  \/ \E w \in Copies : WatcherStep(w) \/ WatcherDies(w)

----------------------------------------------------------------------------
Dead == {w \in Copies : watcher[w] = "dead"}

\* The chooser, its files and its workers stay in their states, and no file of it
\* is left when the workers that ran have all ended by themselves.
ChooserTypeOK ==
  /\ chooser \in {"none", "open", "selected", "completed", "failed", "gone"}
  /\ notes \subseteq {"state", "ready"}
  /\ signIns \subseteq Copies /\ saidFailed \subseteq Copies /\ silenced \subseteq Copies
  /\ caller \notin {"begin", "spawn", "wait"} /\ (\A w \in Copies : watcher[w] \in {"none", "done"})
       => notes = {}

\* The owner gets the button only after a worker has started to watch for the
\* choice (_wait_for_permission_chooser_worker_ready).
ButtonIsWatched == button => \E w \in Copies : watcher[w] \notin {"none", "start", "ready"}

\* A chooser is completed at the platform only when its sign-in has been started.
CompletedIsStarted == chooser = "completed" => signIns # {}

\* The owner has chosen, and while workers live and a report of failure gets
\* through has seen neither a sign-in, nor a notice of failure, nor the platform's
\* own closing of the chooser.
Unanswered ==
  /\ chooser = "selected"
  /\ UNION {signIns, saidFailed, silenced, Dead} = {}
=============================================================================
