--------------------------- MODULE GoogleDisconnect -------------------------
(***************************************************************************)
(* Revoking this Computer's access to one Google account.  The tool call   *)
(* asks the platform for an intent, binds it to the exact credential it    *)
(* read, and leaves a worker behind; the user decides in Telegram; the     *)
(* worker claims a confirmed intent, deletes the account and reports it.   *)
(* A completion receipt carries the deletion over a crash: a later tool    *)
(* call starts another worker for it, beside the first if that one lives.  *)
(***************************************************************************)
EXTENDS GoogleAccounts

CONSTANTS
  Intents,     \* the revocations the platform may create
  Copies,      \* the workers one revocation may have at a time
  Asker,       \* the plugin's tool call with action="disconnect"
  MaxDeaths,   \* bound on deaths of the tool call or of a worker
  Troubles     \* what may go wrong: a subset of {"late", "lost", "write"}

ASSUME DisconnectAssumption ==
  /\ None \notin Intents \union (Intents \X Copies) \union {Asker}
  /\ Asker \notin Intents \X Copies
  /\ MaxDeaths \in Nat

VARIABLES
  intent,  \* the platform's record of each revocation
  late,    \* the revocations whose create-time deadline has passed
  kept,    \* disconnects/<id>/: "none", "state", or the receipt's phase
  expect,  \* the credential generation written into each worker state
  dpc,     \* where the tool call and the workers stand
  asked,   \* the revocation the tool call is starting
  deaths   \* deaths so far

dvars == <<intent, late, kept, expect, dpc, asked, deaths>>

Deleters == Intents \X Copies

To(p, where) == dpc' = [dpc EXCEPT ![p] = where]
Exit(p, where) == lock' = None /\ To(p, where)

\* The marker names its revocation and the credential it may delete.
Owns(i) == leaving = i
ClearLeaving(i) == leaving' = IF leaving = i THEN None ELSE leaving

Open(i) == intent[i].status \in {"created", "offered", "confirmed"}

\* _complete_disconnect_intent(outcome="failed"), sent once and not awaited.
CompleteFailed(i) ==
  intent' \in {intent,
    [intent EXCEPT ![i].status = IF Open(i) THEN "ended" ELSE @]}

-----------------------------------------------------------------------------
\* The user and the platform.  An intent the worker has claimed is no longer
\* the platform's to end.

UserConfirms(i) ==
  /\ intent[i].status = "offered"
  /\ intent' = [intent EXCEPT ![i].status = "confirmed"]
  /\ UNCHANGED <<shared, binding, late, kept, expect, dpc, asked, deaths>>

\* Cancelled by the user, failed, expired or replaced.
IntentEnds(i) ==
  /\ Open(i) /\ ~intent[i].claimed
  /\ intent' = [intent EXCEPT ![i].status = "ended"]
  /\ UNCHANGED <<shared, binding, late, kept, expect, dpc, asked, deaths>>

DeadlinePasses(i) ==
  /\ "late" \in Troubles
  /\ intent[i].status # "unused" /\ i \notin late
  /\ late' = late \union {i}
  /\ UNCHANGED <<shared, binding, intent, kept, expect, dpc, asked, deaths>>

-----------------------------------------------------------------------------
\* _start_disconnect_intent

\* Credentials verified against the assignment, then the platform's intent.
AskBegins(i) ==
  /\ dpc[Asker] = "idle"
  /\ intent[i].status = "unused"
  /\ \E a \in store :
       /\ a.binding = binding
       /\ intent' = [intent EXCEPT ![i].status = "created", ![i].id = a.id]
       /\ expect' = [expect EXCEPT ![i] = a]
  /\ asked' = i
  /\ To(Asker, "offer")
  /\ UNCHANGED <<shared, binding, late, kept, deaths>>

\* Under the lock the credential must still be the one the intent was made
\* for; then the state, the marker, and a worker, or two when systemd-run answers
\* too late.
AskWrites ==
  LET i == asked IN
  /\ dpc[Asker] = "offer" /\ lock = None
  /\ expect[i] \in store /\ expect[i].binding = binding
  /\ kept' = [kept EXCEPT ![i] = "state"]
  /\ leaving' = i
  /\ lock' = Asker
  /\ \E c, d \in Copies :
       dpc' = [dpc EXCEPT ![Asker] = "await", ![<<i, c>>] = "starting", ![<<i, d>>] = "starting"]
  /\ UNCHANGED <<store, active, scratch, receipt, binding, intent, late,
                 expect, asked, deaths>>

AskRefused ==
  LET i == asked IN
  /\ dpc[Asker] = "offer" /\ lock = None
  /\ ~(expect[i] \in store /\ expect[i].binding = binding)
  /\ To(Asker, "undo")
  /\ UNCHANGED <<shared, binding, intent, late, kept, expect, asked, deaths>>

\* _wait_for_disconnect_worker_ready, still inside the lock.
AskSeesWorker ==
  /\ dpc[Asker] = "await"
  /\ \E c \in Copies : dpc[<<asked, c>>] \notin {"off", "starting"}
  /\ Exit(Asker, "activate")
  /\ UNCHANGED <<store, active, scratch, receipt, leaving, binding, intent,
                 late, kept, expect, asked, deaths>>

AskSeesNoWorker ==
  /\ dpc[Asker] = "await"
  /\ Exit(Asker, "unstarted")
  /\ UNCHANGED <<store, active, scratch, receipt, leaving, binding, intent,
                 late, kept, expect, asked, deaths>>

\* The platform sends the button; its answer may be lost.
AskActivates ==
  LET i == asked IN
  /\ dpc[Asker] = "activate"
  /\ \/ /\ intent[i].status = "created"
        /\ intent' = [intent EXCEPT ![i].status = "offered"]
        /\ To(Asker, "idle") \/ ("lost" \in Troubles /\ To(Asker, "undo"))
     \/ intent[i].status # "created" /\ UNCHANGED intent /\ To(Asker, "undo")
  /\ UNCHANGED <<shared, binding, late, kept, expect, asked, deaths>>

\* The ceremony is called off; the state of a worker that did not start goes.
AskUndoes ==
  LET i == asked IN
  /\ dpc[Asker] \in {"undo", "unstarted"} /\ lock = None
  /\ ClearLeaving(i)
  /\ CompleteFailed(i)
  /\ kept' = [kept EXCEPT ![i] = IF dpc[Asker] = "unstarted" THEN "none" ELSE @]
  /\ To(Asker, "idle")
  /\ UNCHANGED <<store, active, scratch, receipt, lock, binding, late, expect,
                 asked, deaths>>

-----------------------------------------------------------------------------
\* disconnect_worker.py: run_worker.  A worker leaves by "gone"; whether its
\* directory goes too is decided where it ends.

Drop(i) == kept' = [kept EXCEPT ![i] = "none"]

\* A directory another worker has removed comes back with a receipt in it but
\* without the state a resume needs.
Record(i, phase) ==
  kept' = [kept EXCEPT ![i] = IF @ = "none" THEN @ ELSE phase]

WorkerStarts(w) ==
  LET i == w[1] IN
  /\ dpc[w] = "starting"
  /\ To(w, CASE kept[i] = "none" -> "gone"
             [] kept[i] = "state" -> "loop"
             [] kept[i] = "delete_pending" -> "resume"
             [] kept[i] = "disconnected" -> "report"
             [] kept[i] = "expired" -> "expire")
  /\ UNCHANGED <<shared, binding, intent, late, kept, expect, asked, deaths>>

\* An exception before the first poll: only a receipt outlives the worker.
WorkerFails(w) ==
  LET i == w[1] IN
  /\ dpc[w] \in {"starting", "resume"} /\ "lost" \in Troubles
  /\ kept' = [kept EXCEPT ![i] = IF @ = "state" THEN "none" ELSE @]
  /\ To(w, "gone")
  /\ UNCHANGED <<shared, binding, intent, late, expect, asked, deaths>>

\* _poll_disconnect_intent: the deadline, the marker (inside the lock), the
\* platform (outside it).
WorkerLooks(w) ==
  LET i == w[1] IN
  /\ dpc[w] = "loop" /\ lock = None
  /\ i \notin late
  /\ IF Owns(i)
       THEN To(w, "poll") /\ UNCHANGED <<intent, kept>>
       ELSE CompleteFailed(i) /\ Drop(i) /\ To(w, "gone")
  /\ UNCHANGED <<shared, binding, late, expect, asked, deaths>>

WorkerAsks(w) ==
  LET i == w[1] IN
  /\ dpc[w] = "poll"
  /\ \/ intent[i].status \in {"created", "offered"} /\ To(w, "loop")
     \/ "lost" \in Troubles /\ To(w, "loop")
     \/ intent[i].status = "confirmed" /\ To(w, "delete")
     \/ intent[i].status \in {"disconnected", "ended"} /\ To(w, "retract")
  /\ UNCHANGED <<shared, binding, intent, late, kept, expect, asked, deaths>>

WorkerRetracts(w) ==
  LET i == w[1] IN
  /\ dpc[w] = "retract" /\ lock = None
  /\ ClearLeaving(i)
  /\ Drop(i)
  /\ To(w, "gone")
  /\ UNCHANGED <<store, active, scratch, receipt, lock, binding, intent, late,
                 expect, asked, deaths>>

\* The deadline: the expiry is recorded before it is reported.  The receipt of
\* a deletion that was begun cannot become one of an expiry; the exception
\* ends the worker and leaves the receipt.
WorkerIsLate(w) ==
  LET i == w[1] IN
  /\ dpc[w] = "loop"
  /\ i \in late
  /\ \/ kept[i] \in {"delete_pending", "disconnected"}
        /\ UNCHANGED kept /\ To(w, "gone")
     \/ kept[i] \notin {"delete_pending", "disconnected"}
        /\ Record(i, "expired") /\ To(w, "lapse")
     \/ "write" \in Troubles /\ kept[i] = "state"
        /\ Drop(i) /\ To(w, "gone")
  /\ UNCHANGED <<shared, binding, intent, late, expect, asked, deaths>>

-----------------------------------------------------------------------------
\* _delete_confirmed_disconnect, one hold of the lock.

\* Mutant: the account is known by its connection id.
UnchangedId(i) ==
  \A a \in store : a.id = expect[i].id => a.binding = binding

\* The account is there as the intent saw it, or is gone altogether.
Unchanged(i) ==
  \/ ~Saved(expect[i].id)
  \/ expect[i] \in store /\ expect[i].binding = binding

DeleteRefused(w) ==
  LET i == w[1] IN
  /\ dpc[w] = "delete" /\ lock = None
  /\ ~(Owns(i) /\ Unchanged(i))
  /\ IF Owns(i) THEN CompleteFailed(i) ELSE UNCHANGED intent
  /\ ClearLeaving(i)
  /\ Drop(i)
  /\ To(w, "gone")
  /\ UNCHANGED <<store, active, scratch, receipt, lock, binding, late, expect,
                 asked, deaths>>

DeleteBegins(w) ==
  LET i == w[1] IN
  /\ dpc[w] = "delete" /\ lock = None
  /\ Owns(i) /\ Unchanged(i)
  /\ \/ /\ kept[i] \in {"none", "state", "delete_pending"}
        /\ Record(i, "delete_pending")
        /\ lock' = w /\ To(w, "claim")
        /\ UNCHANGED intent
     \/ /\ \/ Troubles \intersect {"write", "lost"} # {}
           \/ kept[i] \in {"disconnected", "expired"}
        /\ CompleteFailed(i)
        /\ Drop(i)
        /\ UNCHANGED lock /\ To(w, "gone")
  /\ UNCHANGED <<store, active, scratch, receipt, leaving, binding, late,
                 expect, asked, deaths>>

\* The claim of the confirmed intent, immediately before the unlink.
ClaimConfirmed(w) ==
  LET i == w[1] IN
  /\ dpc[w] = "claim"
  /\ intent[i].status = "confirmed"
  /\ intent' = [intent EXCEPT ![i].claimed = TRUE]
  /\ To(w, IF Saved(expect[i].id) THEN "unlink" ELSE "promote")
  /\ UNCHANGED <<shared, binding, late, kept, expect, asked, deaths>>

\* The platform has ended the intent meanwhile: nothing is deleted.
ClaimTooLate(w) ==
  LET i == w[1] IN
  /\ dpc[w] = "claim"
  /\ intent[i].status # "confirmed"
  /\ ClearLeaving(i)
  /\ Drop(i)
  /\ Exit(w, "gone")
  /\ UNCHANGED <<store, active, scratch, receipt, binding, intent, late,
                 expect, asked, deaths>>

\* No answer, though the claim may have arrived, or one that neither confirms
\* nor ends the intent.  With the account still there the intent is failed;
\* without it the receipt is kept for another try.
ClaimLost(w) ==
  LET i == w[1] IN
  /\ dpc[w] = "claim" /\ "lost" \in Troubles
  /\ IF Saved(expect[i].id)
       THEN CompleteFailed(i) /\ Drop(i)
       ELSE /\ intent' \in {intent,
                 [intent EXCEPT ![i].claimed = @ \/ intent[i].status = "confirmed"]}
            /\ UNCHANGED kept
  /\ UNCHANGED leaving \/ ClearLeaving(i)
  /\ Exit(w, "gone")
  /\ UNCHANGED <<store, active, scratch, receipt, binding, late, expect, asked,
                 deaths>>

\* Every sign-in under way loses its marker before the account goes.
Unlink(w) ==
  LET i == w[1] IN
  /\ dpc[w] = "unlink"
  /\ active' = None
  /\ scratch' \in {{}, scratch}
  /\ store' = {a \in store : a.id # expect[i].id}
  /\ To(w, "promote")
  /\ UNCHANGED <<receipt, leaving, lock, binding, intent, late, kept, expect,
                 asked, deaths>>

\* The registry could not be written, or raised after it was: the intent fails,
\* with the account there or not.
UnlinkFails(w) ==
  LET i == w[1] IN
  /\ dpc[w] = "unlink" /\ "write" \in Troubles
  /\ active' \in {active, None}
  /\ scratch' \in {{}, scratch}
  /\ \/ UNCHANGED store
     \/ active' = None /\ store' = {a \in store : a.id # expect[i].id}
  /\ CompleteFailed(i)
  /\ Drop(i)
  /\ Exit(w, "gone")
  /\ UNCHANGED <<receipt, leaving, binding, late, expect, asked, deaths>>

\* The receipt is promoted if it can be.
Promote(w) ==
  LET i == w[1] IN
  /\ dpc[w] = "promote"
  /\ \/ Record(i, "disconnected")
     \/ "write" \in Troubles /\ UNCHANGED kept
  /\ ClearLeaving(i)
  /\ Exit(w, "report")
  /\ UNCHANGED <<store, active, scratch, receipt, binding, intent, late,
                 expect, asked, deaths>>

-----------------------------------------------------------------------------
\* Recovery: _resume_delete_pending_receipt, in one hold of the lock.

\* Mutant: the unlink is taken to have happened.
ResumeClaimsDone(w) ==
  LET i == w[1] IN
  /\ dpc[w] = "resume" /\ lock = None
  /\ intent[i].status = "confirmed"
  /\ intent' = [intent EXCEPT ![i].claimed = TRUE]
  /\ Record(i, "disconnected")
  /\ ClearLeaving(i)
  /\ To(w, "report")
  /\ UNCHANGED <<store, active, scratch, receipt, lock, binding, late, expect,
                 asked, deaths>>

ResumeClaims(w) ==
  LET i == w[1] IN
  /\ dpc[w] = "resume" /\ lock = None
  /\ IF intent[i].status = "confirmed"
       THEN /\ intent' = [intent EXCEPT ![i].claimed = TRUE]
            /\ IF Saved(expect[i].id)
                 THEN To(w, "loop") /\ UNCHANGED <<kept, leaving>>
                 ELSE /\ Record(i, "disconnected")
                      /\ ClearLeaving(i)
                      /\ To(w, "report")
       ELSE /\ ClearLeaving(i)
            /\ Drop(i)
            /\ To(w, "gone")
            /\ UNCHANGED intent
  /\ UNCHANGED <<store, active, scratch, receipt, lock, binding, late, expect,
                 asked, deaths>>

\* _retry_disconnect_completion: an hour of attempts.  "lapse" and "expire"
\* report a passed deadline; the first is still inside the poll, which takes
\* the marker back when it is done.
Reporting(w) ==
  \/ dpc[w] \in {"report", "expire"} /\ UNCHANGED leaving
  \/ dpc[w] = "lapse" /\ lock = None /\ ClearLeaving(w[1])

ReportAccepted(w) ==
  LET i == w[1] IN
  /\ Reporting(w)
  /\ IF dpc[w] = "report"
       THEN /\ \/ intent[i].status = "confirmed" /\ intent[i].claimed
               \/ intent[i].status = "disconnected"
            /\ intent' = [intent EXCEPT ![i].status = "disconnected"]
       ELSE intent' = [intent EXCEPT ![i].status = IF Open(i) THEN "ended" ELSE @]
  /\ Drop(i)
  /\ To(w, "gone")
  /\ UNCHANGED <<store, active, scratch, receipt, lock, binding, late, expect,
                 asked, deaths>>

\* Mutant: the receipt goes with the worker.
ReportUnansweredForgets(w) ==
  /\ Reporting(w)
  /\ "lost" \in Troubles
  /\ Drop(w[1])
  /\ To(w, "gone")
  /\ UNCHANGED <<store, active, scratch, receipt, lock, binding, intent, late,
                 expect, asked, deaths>>

\* Nobody accepted it in that hour: the receipt waits for another worker.
ReportUnanswered(w) ==
  /\ Reporting(w)
  /\ \/ "lost" \in Troubles
     \/ dpc[w] = "report" /\ intent[w[1]].status = "ended"
  /\ To(w, "gone")
  /\ UNCHANGED <<store, active, scratch, receipt, lock, binding, intent, late,
                 kept, expect, asked, deaths>>

-----------------------------------------------------------------------------
\* _resume_retained_disconnect_workers, on any later call of the tool.

\* Mutant: only what is left to report is resumed.
ResumesReports(w) ==
  LET i == w[1] IN
  /\ kept[i] \in {"disconnected", "expired"}
  /\ dpc[w] \in {"off", "gone"}
  /\ To(w, "starting")
  /\ UNCHANGED <<shared, binding, intent, late, kept, expect, asked, deaths>>

\* A receipt gets a worker even if its first one still lives.
Resumes(w) ==
  LET i == w[1] IN
  /\ kept[i] \in {"delete_pending", "disconnected", "expired"}
  /\ dpc[w] \in {"off", "gone"}
  /\ To(w, "starting")
  /\ UNCHANGED <<shared, binding, intent, late, kept, expect, asked, deaths>>

\* Five minutes past the deadline no call or worker is still without a receipt.
Sweeps(i) ==
  /\ lock = None
  /\ kept[i] = "state"
  /\ i \in late
  /\ asked = i => dpc[Asker] = "idle"
  /\ \A c \in Copies : dpc[<<i, c>>] \in {"off", "gone"}
  /\ ClearLeaving(i)
  /\ Drop(i)
  /\ UNCHANGED <<store, active, scratch, receipt, lock, binding, intent, late,
                 expect, dpc, asked, deaths>>

\* The tool call dies between the state, the marker and the worker.
AskCutShort ==
  LET i == asked IN
  /\ dpc[Asker] = "offer" /\ lock = None
  /\ expect[i] \in store /\ expect[i].binding = binding
  /\ deaths < MaxDeaths
  /\ deaths' = deaths + 1
  /\ kept' = [kept EXCEPT ![i] = "state"]
  /\ leaving' \in {leaving, i}
  /\ To(Asker, "idle")
  /\ UNCHANGED <<store, active, scratch, receipt, lock, binding, intent, late,
                 expect, asked>>

Dies(p) ==
  /\ dpc[p] \notin {"idle", "off", "gone"}
  /\ deaths < MaxDeaths
  /\ deaths' = deaths + 1
  /\ To(p, IF p = Asker THEN "idle" ELSE "gone")
  /\ lock' = IF lock = p THEN None ELSE lock
  /\ UNCHANGED <<store, active, scratch, receipt, leaving, binding, intent,
                 late, kept, expect, asked>>

-----------------------------------------------------------------------------
DisconnectInit ==
  /\ intent = [i \in Intents |->
       [status |-> "unused", id |-> None, claimed |-> FALSE]]
  /\ late = {}
  /\ kept = [i \in Intents |-> "none"]
  /\ expect = [i \in Intents |-> None]
  /\ dpc = [p \in Deleters \union {Asker} |-> IF p = Asker THEN "idle" ELSE "off"]
  /\ asked = None
  /\ deaths = 0

Asks ==
  \/ \E i \in Intents : AskBegins(i)
  \/ AskWrites \/ AskRefused \/ AskSeesWorker \/ AskSeesNoWorker
  \/ AskActivates \/ AskUndoes \/ AskCutShort

Revokes(w) ==
  \/ WorkerStarts(w) \/ WorkerFails(w) \/ WorkerLooks(w) \/ WorkerAsks(w)
  \/ WorkerRetracts(w) \/ WorkerIsLate(w)
  \/ DeleteRefused(w) \/ DeleteBegins(w)
  \/ ClaimConfirmed(w) \/ ClaimTooLate(w) \/ ClaimLost(w)
  \/ Unlink(w) \/ UnlinkFails(w) \/ Promote(w)
  \/ ResumeClaims(w) \/ ReportAccepted(w) \/ ReportUnanswered(w)

World ==
  \/ \E i \in Intents :
       UserConfirms(i) \/ IntentEnds(i) \/ DeadlinePasses(i) \/ Sweeps(i)
  \/ \E w \in Deleters : Resumes(w)
  \/ \E p \in Deleters \union {Asker} : Dies(p)

DisconnectNext ==
  \/ Asks
  \/ \E w \in Deleters : Revokes(w)
  \/ World
=============================================================================
