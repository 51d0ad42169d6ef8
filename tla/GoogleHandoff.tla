---------------------------- MODULE GoogleHandoff ---------------------------
(***************************************************************************)
(* Connecting a Google account.  _start_connection runs in the plugin and  *)
(* holds the lifecycle lock from its last check to the button it sends;    *)
(* the worker it spawns polls the platform without the lock, installs a    *)
(* ready credential under it, and acknowledges the install to the platform *)
(* from a receipt that outlives the worker.  When systemd-run answers too  *)
(* late there are two such workers, with one key and one marker.  Later    *)
(* tool calls acknowledge receipts whose worker died, and a hook before    *)
(* every model turn removes the credentials of an assignment the Computer  *)
(* no longer has.                                                          *)
(***************************************************************************)
EXTENDS GoogleAccounts

CONSTANTS
  Tool,        \* the plugin's tool call
  Hook,        \* the assignment check before a model turn
  MaxCrashes,  \* bound on deaths of the plugin or of a worker
  Twice,       \* bound: the sign-ins whose systemd-run may answer too late
  Faults       \* what may go wrong: a subset of {"write", "promote", "spawn",
               \* "button", "lapse"}

ASSUME HandoffAssumption ==
  /\ {Tool, Hook, None} \intersect (Handoffs \union (Handoffs \X Starts)) = {}
  /\ Tool # Hook /\ Tool # None /\ Hook # None
  /\ MaxCrashes \in Nat

VARIABLES
  handoff,  \* the platform's record of each sign-in
  pc,       \* where each process stands
  task,     \* the sign-in the tool call works on, and its target account
  seen,     \* the binding the hook read from the registry
  told,     \* the notices the user has been sent about each sign-in
  botched,  \* history: what raised in the installs of each sign-in though the
            \* credential was on disk
  crashes   \* deaths so far

platform == <<binding, handoff>>
hvars == <<handoff, pc, task, seen, told, botched, crashes>>
allVars == <<shared, binding, hvars>>

\* A worker is a sign-in and which start of it this was.
Workers == Handoffs \X Starts
Procs == Workers \union {Tool, Hook}

\* A sign-in adds an account of its own name or replaces the one it targets.
Adds(h) == handoff[h].target = h

\* The credential in the encrypted envelope of a ready sign-in, as a worker opens
\* it.
Envelope(w) ==
  LET h == w[1] IN
  [id |-> handoff[h].target, subject |-> handoff[h].subject, from |-> h, by |-> w[2],
   binding |-> handoff[h].binding, token |-> 0]

\* The saved account a receipt speaks of, if its generation is still there.
Matching(h) ==
  {a \in store : /\ a.id = handoff[h].target
                 /\ InstallGeneration(a) = InstallGeneration(Envelope(<<h, receipt[h]>>))}

Goto(p, where) == pc' = [pc EXCEPT ![p] = where]

\* The last step of a `with _lifecycle_lock()` block that took several.
Leave(p, where) == lock' = None /\ Goto(p, where)

\* Where a process goes when its acknowledgement is over, one way or another.
AfterAck(p) == IF p = Tool THEN "idle" ELSE "closing"

On(p) == IF p = Tool THEN task.on ELSE p[1]

-----------------------------------------------------------------------------
\* The platform.  Terminal states are final; "ended" stands for cancelled,
\* failed, expired and superseded, which the worker treats alike.  Whether the
\* platform drops an envelope nobody claimed ("lapse") is not this code's.

SignIn(h, s) ==
  /\ handoff[h].status = "pending"
  /\ handoff' = [handoff EXCEPT ![h].status = "ready", ![h].subject = s]
  /\ UNCHANGED <<shared, binding, pc, task, seen, told, botched, crashes>>

PlatformEnds(h) ==
  /\ \/ handoff[h].status = "pending"
     \/ "lapse" \in Faults /\ handoff[h].status = "ready"
  /\ handoff' = [handoff EXCEPT ![h].status = "ended"]
  /\ UNCHANGED <<shared, binding, pc, task, seen, told, botched, crashes>>

Reassign ==
  /\ binding < MaxBinding
  /\ binding' = binding + 1
  /\ UNCHANGED <<shared, hvars>>

\* _claim_handoff(installed=False), which may or may not reach the platform.
Refused(h) == [handoff EXCEPT ![h].status =
                 IF @ \in {"pending", "ready"} THEN "ended" ELSE @]
ClaimFalse(h) == handoff' \in {handoff, Refused(h)}

-----------------------------------------------------------------------------
\* tinyhat_google_workspace(action="connect" | "set_permissions")

\* Mutant: receipts of earlier installs are not looked for.
ConnectBeginUnsynced(h, target) ==
  /\ pc[Tool] = "idle" /\ lock = None
  /\ handoff[h].status = "unused"
  /\ target = h \/ Saved(target)
  /\ \A a \in store : target \in {h, a.id} => a.binding = binding
  /\ task' = [on |-> h, target |-> target]
  /\ lock' = Tool /\ Goto(Tool, "posting")
  /\ UNCHANGED <<store, active, scratch, receipt, leaving, binding,
                 handoff, seen, told, botched, crashes>>

\* Under the lock: no install may be waiting for its acknowledgement, and what
\* is saved must belong to the current assignment (all of it before an add,
\* the target before a permission change).
ConnectBegin(h, target) ==
  /\ pc[Tool] = "idle" /\ lock = None
  /\ handoff[h].status = "unused"
  /\ target = h \/ Saved(target)
  /\ \A g \in Handoffs : receipt[g] = NoReceipt
  /\ \A a \in store : target \in {h, a.id} => a.binding = binding
  /\ task' = [on |-> h, target |-> target]
  /\ lock' = Tool /\ Goto(Tool, "posting")
  /\ UNCHANGED <<store, active, scratch, receipt, leaving, binding,
                 handoff, seen, told, botched, crashes>>

ConnectFindsStale(target) ==
  /\ pc[Tool] = "idle" /\ lock = None
  /\ \A g \in Handoffs : receipt[g] = NoReceipt
  /\ \E a \in store : target \in {None, a.id} /\ a.binding # binding
  /\ WipeForAssignment
  /\ UNCHANGED <<receipt, lock, binding, hvars>>

\* The platform opens a sign-in for the assignment it has by now; the answer
\* may be lost on its way back.
ConnectPosts ==
  LET h == task.on IN
  /\ pc[Tool] = "posting"
  /\ handoff' = [handoff EXCEPT ![h] =
       [@ EXCEPT !.status = "pending", !.target = task.target,
                 !.binding = binding]]
  /\ \/ UNCHANGED lock /\ Goto(Tool, "starting")
     \/ Leave(Tool, "idle")
  /\ UNCHANGED <<store, active, scratch, receipt, leaving, binding, task,
                 seen, told, botched, crashes>>

\* The revocation marker goes, the key and the marker are written, and only
\* then is the worker spawned: by systemd-run, or directly when that has not
\* answered in time, though it may have started one (_start_worker_process).
ConnectStarts ==
  LET h == task.on IN
  /\ pc[Tool] = "starting"
  /\ leaving' = None
  /\ scratch' = scratch \union {h}
  /\ active' = h
  /\ \E second \in {pc[<<h, 2>>]} \union (IF h \in Twice THEN {"starting"} ELSE {}) :
       pc' = [pc EXCEPT ![Tool] = "button", ![<<h, 1>>] = "starting", ![<<h, 2>>] = second]
  /\ UNCHANGED <<store, receipt, lock, binding, handoff, task, seen, told,
                 botched, crashes>>

\* Neither way can start one; the first may have all the same, and that worker
\* may have its key by now.
ConnectCannotSpawn ==
  LET h == task.on IN
  /\ pc[Tool] = "starting" /\ "spawn" \in Faults
  /\ leaving' = None
  /\ active' = None
  /\ scratch' = scratch \ {h}
  /\ ClaimFalse(h)
  /\ lock' = None
  /\ \E first \in {pc[<<h, 1>>]} \union (IF h \in Twice THEN {"starting", "loop"} ELSE {}) :
       pc' = [pc EXCEPT ![Tool] = "idle", ![<<h, 1>>] = first]
  /\ UNCHANGED <<store, receipt, binding, task, seen, told, botched,
                 crashes>>

\* An undelivered button refuses the sign-in at the platform; the marker and
\* the worker stay, and the worker learns of it from its next poll.
ConnectEnds ==
  /\ pc[Tool] = "button"
  /\ \/ UNCHANGED handoff
     \/ "button" \in Faults /\ ClaimFalse(task.on)
  /\ Leave(Tool, "idle")
  /\ UNCHANGED <<store, active, scratch, receipt, leaving, binding, task,
                 seen, told, botched, crashes>>

-----------------------------------------------------------------------------
\* worker.py: run_worker and _poll_and_install

\* Without its key the worker can only report the sign-in as superseded.
WorkerReadsKey(w) ==
  LET h == w[1] IN
  /\ pc[w] = "starting"
  /\ Goto(w, IF h \in scratch THEN "loop" ELSE "deny")
  /\ UNCHANGED <<shared, binding, handoff, task, seen, told, botched,
                 crashes>>

\* _active_handoff_matches, inside the lock and only for the length of it.
WorkerChecksMarker(w) ==
  LET h == w[1] IN
  /\ pc[w] = "loop" /\ lock = None
  /\ Goto(w, IF active = h THEN "asking" ELSE "deny")
  /\ UNCHANGED <<shared, binding, handoff, task, seen, told, botched,
                 crashes>>

\* The poll answers outside the lock.  "clear" is every way to a negative
\* claim that first takes the marker back: a terminal state, the deadline, an
\* unreadable answer.
WorkerPolls(w) ==
  LET h == w[1] IN
  /\ pc[w] = "asking"
  /\ \/ handoff[h].status = "ready" /\ Goto(w, "install")
     \/ handoff[h].status = "pending" /\ Goto(w, "loop")
     \/ handoff[h].status = "claimed" /\ Goto(w, "closing")
     \/ Goto(w, "clear")
  /\ UNCHANGED <<shared, binding, handoff, task, seen, told, botched,
                 crashes>>

WorkerClears(w) ==
  LET h == w[1] IN
  /\ pc[w] = "clear" /\ lock = None
  /\ ClearMarker(h)
  /\ Goto(w, "deny")
  /\ UNCHANGED <<store, scratch, receipt, leaving, lock, binding, handoff,
                 task, seen, told, botched, crashes>>

\* The user is told that it failed (or was superseded), the platform too.
WorkerDenies(w) ==
  LET h == w[1] IN
  /\ pc[w] = "deny"
  /\ told' = [told EXCEPT ![h].failed = TRUE]
  /\ ClaimFalse(h)
  /\ Goto(w, "closing")
  /\ UNCHANGED <<shared, binding, task, seen, botched, crashes>>

\* run_worker's finally.
WorkerCloses(w) ==
  LET h == w[1] IN
  /\ pc[w] = "closing" /\ lock = None
  /\ ClearMarker(h)
  /\ scratch' = scratch \ {h}
  /\ Goto(w, "gone")
  /\ UNCHANGED <<store, receipt, leaving, lock, binding, handoff, task,
                 seen, told, botched, crashes>>

\* _install_ready_credentials: the checks, in their order, under the lock.
InstallSuperseded(w) ==
  LET h == w[1] IN
  /\ pc[w] = "install" /\ lock = None
  /\ active # h
  /\ Goto(w, "deny")
  /\ UNCHANGED <<shared, binding, handoff, task, seen, told, botched,
                 crashes>>

InstallUnassigned(w) ==
  LET h == w[1] IN
  /\ pc[w] = "install" /\ lock = None
  /\ active = h
  /\ handoff[h].binding # binding
  /\ CancelHandoffs
  /\ store' = {}
  /\ Goto(w, "deny")
  /\ UNCHANGED <<receipt, leaving, lock, binding, handoff, task, seen,
                 told, botched, crashes>>

\* Mutant: an add is compared by connection id only.
AdmissibleById(h) ==
  IF Adds(h)
    THEN \A a \in store : a.id # h
    ELSE \E a \in store : /\ a.id = handoff[h].target
                          /\ a.subject = handoff[h].subject

\* An add must not repeat a saved account, a permission change must come back
\* for the same Google account.
Admissible(h) ==
  IF Adds(h)
    THEN \A a \in store : a.subject # handoff[h].subject /\ a.id # h
    ELSE \E a \in store : /\ a.id = handoff[h].target
                          /\ a.subject = handoff[h].subject

InstallRejected(w) ==
  LET h == w[1] IN
  /\ pc[w] = "install" /\ lock = None
  /\ active = h
  /\ handoff[h].binding = binding
  /\ ~Admissible(h)
  /\ Goto(w, "clear")
  /\ UNCHANGED <<shared, binding, handoff, task, seen, told, botched,
                 crashes>>

\* Mutant: the marker was looked at before the poll, that is enough.
InstallBeginsUnmarked(w) ==
  LET h == w[1] IN
  /\ pc[w] = "install" /\ lock = None
  /\ handoff[h].binding = binding
  /\ Admissible(h)
  /\ lock' = w /\ Goto(w, "receipt")
  /\ UNCHANGED <<store, active, scratch, receipt, leaving, binding,
                 handoff, task, seen, told, botched, crashes>>

InstallBegins(w) ==
  LET h == w[1] IN
  /\ pc[w] = "install" /\ lock = None
  /\ active = h
  /\ handoff[h].binding = binding
  /\ Admissible(h)
  /\ lock' = w /\ Goto(w, "receipt")
  /\ UNCHANGED <<store, active, scratch, receipt, leaving, binding,
                 handoff, task, seen, told, botched, crashes>>

\* Three writes to disk (_atomic_write_json), each of which may raise before it
\* takes effect or, at the last sync, after.
WriteReceipt(w) ==
  LET h == w[1]
      written == [receipt EXCEPT ![h] = w[2]]
  IN
  /\ pc[w] = "receipt"
  /\ \/ receipt' = written /\ Goto(w, "save") /\ UNCHANGED lock
     \/ "write" \in Faults /\ receipt' \in {receipt, written} /\ Leave(w, "clear")
  /\ UNCHANGED <<store, active, scratch, leaving, binding, handoff, task,
                 seen, told, botched, crashes>>

\* When the second raises the receipt goes, whether or not the credential is there.
SaveCredential(w) ==
  LET h == w[1]
      accounts == Upsert(store, Envelope(w))
  IN
  /\ pc[w] = "save"
  /\ \/ /\ Unambiguous(accounts)
        /\ store' = accounts
        /\ Goto(w, "promote") /\ UNCHANGED <<receipt, lock, botched>>
     \/ /\ receipt' = [receipt EXCEPT ![h] = NoReceipt]
        /\ Leave(w, "clear")
        /\ \/ /\ "write" \in Faults \/ ~Unambiguous(accounts)
              /\ UNCHANGED <<store, botched>>
           \/ /\ "write" \in Faults /\ Unambiguous(accounts)
              /\ store' = accounts
              /\ botched' = [botched EXCEPT ![h] = @ \union {"save"}]
  /\ UNCHANGED <<active, scratch, leaving, binding, handoff, task, seen,
                 told, crashes>>

\* The third, of the receipt's phase, is an exception like any other to the caller.
PromoteReceipt(w) ==
  LET h == w[1] IN
  /\ pc[w] = "promote"
  /\ \/ Leave(w, "ack") /\ UNCHANGED botched
     \/ /\ "promote" \in Faults
        /\ botched' = [botched EXCEPT ![h] = @ \union {"promote"}]
        /\ Leave(w, "clear")
  /\ UNCHANGED <<store, active, scratch, receipt, leaving, binding,
                 handoff, task, seen, told, crashes>>

-----------------------------------------------------------------------------
\* _acknowledge_install_receipt, run by the worker that installed and by
\* every later tool call (_resume_retained_install_receipts).

RecoverBegins(h) ==
  /\ pc[Tool] = "idle"
  /\ receipt[h] # NoReceipt
  /\ task' = [on |-> h, target |-> h]
  /\ Goto(Tool, "ack")
  /\ UNCHANGED <<shared, binding, handoff, seen, told, botched, crashes>>

Acknowledging(p) == pc[p] = "ack" /\ lock = None

\* Someone else retired the receipt, or the binding could not be fetched.
AckGivesUp(p) ==
  /\ Acknowledging(p)
  /\ receipt[On(p)] = NoReceipt \/ Matching(On(p)) # {}
  /\ Goto(p, AfterAck(p))
  /\ UNCHANGED <<shared, binding, handoff, task, seen, told, botched,
                 crashes>>

\* Mutants: the platform is told it is installed; the receipt is kept.
AckOrphanedConfirms(p) ==
  /\ Acknowledging(p)
  /\ receipt[On(p)] # NoReceipt
  /\ Matching(On(p)) = {}
  /\ handoff' = [handoff EXCEPT ![On(p)].status = "claimed"]
  /\ receipt' = [receipt EXCEPT ![On(p)] = NoReceipt]
  /\ Goto(p, AfterAck(p))
  /\ UNCHANGED <<store, active, scratch, leaving, lock, binding, task,
                 seen, told, botched, crashes>>

AckOrphanedKeeps(p) ==
  /\ Acknowledging(p)
  /\ receipt[On(p)] # NoReceipt
  /\ Matching(On(p)) = {}
  /\ ClaimFalse(On(p))
  /\ Goto(p, AfterAck(p))
  /\ UNCHANGED <<shared, binding, task, seen, told, botched, crashes>>

\* The credential is gone or is another sign-in's: nothing to acknowledge.
AckOrphaned(p) ==
  /\ Acknowledging(p)
  /\ receipt[On(p)] # NoReceipt
  /\ Matching(On(p)) = {}
  /\ ClaimFalse(On(p))
  /\ receipt' = [receipt EXCEPT ![On(p)] = NoReceipt]
  /\ Goto(p, AfterAck(p))
  /\ UNCHANGED <<store, active, scratch, leaving, lock, binding, task,
                 seen, told, botched, crashes>>

AckUnassigned(p) ==
  /\ Acknowledging(p)
  /\ receipt[On(p)] # NoReceipt
  /\ \E a \in Matching(On(p)) : a.binding # binding
  /\ WipeForAssignment
  /\ receipt' = [h \in Handoffs |-> NoReceipt]
  /\ ClaimFalse(On(p))
  /\ Goto(p, AfterAck(p))
  /\ UNCHANGED <<lock, binding, task, seen, told, botched, crashes>>

\* Mutants: a retired receipt is not noticed; the claim is made outside the
\* lock.
AckBeginsAgain(p) ==
  /\ Acknowledging(p)
  /\ \E a \in store : a.from = On(p) /\ a.binding = binding
  /\ lock' = p /\ Goto(p, "claim")
  /\ UNCHANGED <<store, active, scratch, receipt, leaving, binding,
                 handoff, task, seen, told, botched, crashes>>

AckBeginsUnlocked(p) ==
  /\ Acknowledging(p)
  /\ receipt[On(p)] # NoReceipt
  /\ \E a \in Matching(On(p)) : a.binding = binding
  /\ Goto(p, "claim")
  /\ UNCHANGED <<shared, binding, handoff, task, seen, told, botched,
                 crashes>>

AckBegins(p) ==
  /\ Acknowledging(p)
  /\ receipt[On(p)] # NoReceipt
  /\ \E a \in Matching(On(p)) : a.binding = binding
  /\ lock' = p /\ Goto(p, "claim")
  /\ UNCHANGED <<store, active, scratch, receipt, leaving, binding,
                 handoff, task, seen, told, botched, crashes>>

\* _claim_handoff_with_retry, under the lock.
ClaimAccepted(p) ==
  /\ pc[p] = "claim"
  /\ handoff[On(p)].status \in {"ready", "claimed"}
  /\ handoff' = [handoff EXCEPT ![On(p)].status = "claimed"]
  /\ Goto(p, "retire")
  /\ UNCHANGED <<shared, binding, task, seen, told, botched, crashes>>

\* Mutants: the worker takes silence for a refusal; the receipt is not kept.
ClaimUnansweredDenied(p) ==
  /\ pc[p] = "claim"
  /\ UNCHANGED handoff
  /\ Leave(p, IF p = Tool THEN "idle" ELSE "deny")
  /\ UNCHANGED <<store, active, scratch, receipt, leaving, binding, task,
                 seen, told, botched, crashes>>

ClaimUnansweredForgets(p) ==
  /\ pc[p] = "claim"
  /\ receipt' = [receipt EXCEPT ![On(p)] = NoReceipt]
  /\ Leave(p, AfterAck(p))
  /\ UNCHANGED <<store, active, scratch, leaving, binding, handoff, task,
                 seen, told, botched, crashes>>

\* No attempt was answered, though one may have arrived; or the platform has
\* ended the sign-in and answers with that.
ClaimUnanswered(p) ==
  /\ pc[p] = "claim"
  /\ \/ UNCHANGED handoff
     \/ /\ handoff[On(p)].status = "ready"
        /\ handoff' = [handoff EXCEPT ![On(p)].status = "claimed"]
  /\ Leave(p, AfterAck(p))
  /\ UNCHANGED <<store, active, scratch, receipt, leaving, binding, task,
                 seen, told, botched, crashes>>

RetireReceipt(p) ==
  /\ pc[p] = "retire"
  /\ receipt' = [receipt EXCEPT ![On(p)] = NoReceipt]
  /\ ClearMarker(On(p))
  /\ Leave(p, "notice")
  /\ UNCHANGED <<store, scratch, leaving, binding, handoff, task, seen,
                 told, botched, crashes>>

\* The one notice of success, outside the lock.
ReadyNotice(p) ==
  /\ pc[p] = "notice"
  /\ told' = [told EXCEPT ![On(p)].ready = @ + 1]
  /\ Goto(p, AfterAck(p))
  /\ UNCHANGED <<shared, binding, handoff, task, seen, botched, crashes>>

-----------------------------------------------------------------------------
\* remove_credentials_if_assignment_changed, from the hook, status and every
\* consumer: read the registry, ask the platform, and only then take the lock.

\* A match changes nothing.  Nor does a registry of two bindings: the check
\* calls it "invalid", and the wipe it runs finds a readable file and keeps it.
HookReads ==
  /\ pc[Hook] = "idle"
  /\ \E b \in Bindings \ {binding} :
       /\ {a.binding : a \in store} = {b}
       /\ seen' = b
  /\ Goto(Hook, "wipe")
  /\ UNCHANGED <<shared, binding, handoff, task, told, botched, crashes>>

HookWipes ==
  /\ pc[Hook] = "wipe" /\ lock = None
  /\ IF store # {} /\ \A a \in store : a.binding = seen
       THEN WipeForAssignment
       ELSE UNCHANGED <<store, active, scratch, leaving>>
  /\ Goto(Hook, "idle")
  /\ UNCHANGED <<receipt, lock, binding, handoff, task, seen, told,
                 botched, crashes>>

-----------------------------------------------------------------------------
\* A process dies wherever it stands, and the kernel drops its lock.  Nothing
\* restarts a sign-in's worker.
Crash(p) ==
  /\ pc[p] \notin {"idle", "off", "gone"}
  /\ p # Hook
  /\ crashes < MaxCrashes
  /\ crashes' = crashes + 1
  /\ Goto(p, IF p = Tool THEN "idle" ELSE "gone")
  /\ lock' = IF lock = p THEN None ELSE lock
  /\ UNCHANGED <<store, active, scratch, receipt, leaving, binding,
                 handoff, task, seen, told, botched>>

\* A wipe that dies, or cannot remove the scratch directory, on its way to the
\* registry: the markers are gone and the credentials are still there.
WipeCutShort(p) ==
  /\ lock = None
  /\ \/ pc[p] = "ack" /\ \E a \in Matching(On(p)) : a.binding # binding
     \/ p = Tool /\ pc[p] = "idle" /\ \E a \in store : a.binding # binding
     \/ pc[p] = "wipe"
  /\ crashes < MaxCrashes
  /\ crashes' = crashes + 1
  /\ leaving' = None
  /\ active' = None
  /\ scratch' \in SUBSET scratch
  /\ Goto(p, IF p \in Workers THEN "closing" ELSE "idle")
  /\ UNCHANGED <<store, receipt, lock, binding, handoff, task, seen, told,
                 botched>>

\* The plugin dies between the marker and the worker it speaks for.
StartCutShort ==
  /\ pc[Tool] = "starting"
  /\ crashes < MaxCrashes
  /\ crashes' = crashes + 1
  /\ leaving' = None
  /\ scratch' = scratch \union {task.on}
  /\ active' \in {active, task.on}
  /\ Leave(Tool, "idle")
  /\ UNCHANGED <<store, receipt, binding, handoff, task, seen, told,
                 botched>>

-----------------------------------------------------------------------------
\* A Computer on which some accounts were connected before, and other sign-ins
\* came to nothing.
InitWith(accounts, over) ==
  LET before == {a.from : a \in accounts} IN
  /\ SharedInit(accounts)
  /\ handoff = [h \in Handoffs |->
       [status |-> IF h \in before THEN "claimed"
                   ELSE IF h \in over THEN "ended" ELSE "unused",
        target |-> h, binding |-> 1,
        subject |-> IF h \in before THEN (CHOOSE a \in accounts : a.from = h).subject
                                    ELSE None]]
  /\ pc = [p \in Procs |-> IF p \in {<<a.from, a.by>> : a \in accounts} THEN "gone"
                           ELSE IF p \in Workers THEN "off" ELSE "idle"]
  /\ task = [on |-> None, target |-> None]
  /\ seen = 1
  /\ told = [h \in Handoffs |-> [ready |-> 0, failed |-> FALSE]]
  /\ botched = [h \in Handoffs |-> {}]
  /\ crashes = 0

HandoffInit == InitWith({}, {})

Connects ==
  \/ \E h, target \in Handoffs : ConnectBegin(h, target)
  \/ \E target \in Handoffs \union {None} : ConnectFindsStale(target)
  \/ ConnectPosts \/ ConnectStarts \/ ConnectCannotSpawn \/ ConnectEnds

Polls(w) ==
  \/ WorkerReadsKey(w) \/ WorkerChecksMarker(w) \/ WorkerPolls(w)
  \/ WorkerClears(w) \/ WorkerDenies(w) \/ WorkerCloses(w)

Installs(w) ==
  \/ InstallSuperseded(w) \/ InstallUnassigned(w) \/ InstallRejected(w)
  \/ InstallBegins(w)
  \/ WriteReceipt(w) \/ SaveCredential(w) \/ PromoteReceipt(w)

Acknowledges(p) ==
  \/ AckGivesUp(p) \/ AckOrphaned(p) \/ AckUnassigned(p) \/ AckBegins(p)
  \/ ClaimAccepted(p) \/ ClaimUnanswered(p) \/ RetireReceipt(p)
  \/ ReadyNotice(p)

Environment ==
  \/ \E h \in Handoffs : PlatformEnds(h) \/ \E s \in Subjects : SignIn(h, s)
  \/ Reassign
  \/ \E p \in Procs : Crash(p) \/ WipeCutShort(p)
  \/ StartCutShort

HandoffNext ==
  \/ Connects
  \/ \E w \in Workers : Polls(w) \/ Installs(w)
  \/ \E h \in Handoffs : RecoverBegins(h)
  \/ \E p \in Workers \union {Tool} : Acknowledges(p)
  \/ HookReads \/ HookWipes
  \/ Environment

HandoffSpec == HandoffInit /\ [][HandoffNext]_allVars
=============================================================================
