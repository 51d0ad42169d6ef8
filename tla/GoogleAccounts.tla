--------------------------- MODULE GoogleAccounts ---------------------------
(***************************************************************************)
(* The Google Workspace state directory of one Computer                    *)
(* (capabilities/google_workspace/connection.py): the account registry,    *)
(* the markers that say which sign-in and which revocation may still act,  *)
(* the install receipts, and the lifecycle lock every writer takes.  The   *)
(* plugin process and the detached workers of sign-ins and of revocations  *)
(* share it; any of them may die between two writes.                       *)
(*                                                                         *)
(* A sign-in is named by its handoff id.  The platform gives an added      *)
(* account a fresh connection id, so an account is named by the handoff    *)
(* that added it; a permission change keeps the id of its target.  The     *)
(* assignment binding is opaque to the code, which only compares it; the   *)
(* model numbers the assignments in the order the platform makes them.     *)
(***************************************************************************)
EXTENDS Naturals, FiniteSets

CONSTANTS
  Handoffs,    \* the sign-ins the platform may create
  Subjects,    \* the Google accounts the user may sign in with
  None,        \* no marker, no holder of the lock
  MaxBinding,  \* bound on assignments of this Computer
  MaxToken     \* bound on rotations of one account's refresh token

ASSUME AccountsAssumption ==
  /\ None \notin Handoffs
  /\ MaxBinding \in Nat \ {0}
  /\ MaxToken \in Nat

VARIABLES
  store,    \* accounts.json: the set of saved accounts
  active,   \* active-handoff.json: the sign-in that may install, or None
  scratch,  \* handoffs/<id>/: private keys of sign-ins not cleaned up yet
  receipt,  \* install-receipts/<id>.json: the start of the sign-in's worker whose
            \* credential generation it names, or NoReceipt
  leaving,  \* active-disconnect.json: the revocation that may delete, or None
  lock,     \* lifecycle.lock: the process inside it, or None
  binding   \* the platform's current assignment of this Computer

shared == <<store, active, scratch, receipt, leaving, lock>>

Bindings == 1 .. MaxBinding

\* A sign-in's worker may be started twice.
Starts == 1 .. 2
NoReceipt == 0

\* "by" is connected_at, the moment one worker opened the envelope.
Account ==
  [id : Handoffs, subject : Subjects, from : Handoffs, by : Starts,
   binding : Bindings, token : 0 .. MaxToken]

Saved(id) == \E a \in store : a.id = id

\* _install_credential_generation: what a token refresh cannot change.
\* connected_at makes it unique to the worker that installed the account.
InstallGeneration(a) == [a EXCEPT !.token = 0]

\* _atomic_save_credentials: upsert one account, keep every other.
Upsert(accounts, a) == {b \in accounts : b.id # a.id} \union {a}

\* _account_store_document refuses a registry that names an account twice.
Unambiguous(accounts) ==
  \A a, b \in accounts : a.id = b.id \/ a.subject = b.subject => a = b

\* _cancel_all_pending_handoffs_locked
CancelHandoffs == active' = None /\ scratch' = {}


\* What every path does on a stale binding, inside the lock.  A worker's own
\* install check leaves the revocation marker alone.
WipeForAssignment == leaving' = None /\ CancelHandoffs /\ store' = {}

\* _remove_active_handoff_marker_if_matches
ClearMarker(h) == active' = IF active = h THEN None ELSE active

SharedTypeOK ==
  /\ store \subseteq Account
  /\ active \in Handoffs \union {None}
  /\ scratch \subseteq Handoffs
  /\ receipt \in [Handoffs -> Starts \union {NoReceipt}]
  /\ binding \in Bindings

SharedInit(accounts) ==
  /\ store = accounts
  /\ active = None
  /\ scratch = {}
  /\ receipt = [h \in Handoffs |-> NoReceipt]
  /\ leaving = None
  /\ lock = None
  /\ binding = 1
=============================================================================
