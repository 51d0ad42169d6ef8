---------------------------- MODULE GoogleCommand ---------------------------
(***************************************************************************)
(* One call of tinyhat_google_workspace_app (google_workspace/app.py): a   *)
(* write is confirmed for an account as it is, the credential is loaded,   *)
(* perhaps refreshed, compared with the registry again under the lifecycle *)
(* lock, and the command runs between two checks of the assignment.  The   *)
(* owner signs in again, disconnects or hands the Computer over meanwhile. *)
(* ManagedApp keeps the binary in place while it runs.                     *)
(***************************************************************************)
EXTENDS Naturals

CONSTANTS
  Commands,     \* tool calls
  Accounts,     \* connection ids
  MaxEvents    \* bound on sign-ins, removals, reassignments and token changes

ASSUME CommandAssumption == "free" \notin Commands /\ MaxEvents \in Nat

VARIABLES
  saved,        \* account -> [gen, token], or Absent; gen is the install's lineage
  owner,        \* the assignment at the platform
  owned,        \* the assignment the saved accounts belong to
  locked,       \* the command inside the lifecycle lock, or "free"
  cmd,          \* command -> its progress
  changes,
  ranAs         \* what has been run

commandVars == <<saved, owner, owned, locked, cmd, changes, ranAs>>

Absent == [gen |-> 0, token |-> 0]
NewCommand == [pc |-> "idle", write |-> FALSE, id |-> "none", confirmed |-> 0,
               cred |-> Absent, refreshed |-> FALSE, under |-> 0]
Becomes(c, pc) == cmd' = [cmd EXCEPT ![c].pc = pc]
Change == changes < MaxEvents /\ changes' = changes + 1
Connected == {a \in Accounts : saved[a] # Absent}
Cleared   == [a \in Accounts |-> Absent]

----------------------------------------------------------------------------
\* _verified_credentials: accounts of a former assignment are deleted first, with
\* the lock; without an account_id there must be exactly one.
WipeStale(c) ==
  /\ cmd[c].pc \in {"idle", "load", "again"} /\ locked = "free"
  /\ owned # owner /\ Connected # {}
  /\ saved' = Cleared
  /\ UNCHANGED <<owner, owned, locked, cmd, changes, ranAs>>

Verified == Connected # {} /\ owned = owner

\* A read goes straight to the command; a write is first resolved to an account
\* and a confirmation made of its id and lineage.
AskRead(c) ==
  /\ cmd[c].pc = "idle" /\ Verified
  /\ \E a \in Connected : cmd' = [cmd EXCEPT ![c].pc = "load", ![c].id = a]
  /\ UNCHANGED <<saved, owner, owned, locked, changes, ranAs>>

AskWrite(c) ==
  /\ cmd[c].pc = "idle" /\ Verified
  /\ \E a \in Connected :
       cmd' = [cmd EXCEPT ![c].pc = "asked", ![c].write = TRUE, ![c].id = a,
                          ![c].confirmed = saved[a].gen]
  /\ UNCHANGED <<saved, owner, owned, locked, changes, ranAs>>

\* The call is repeated with confirmed=true; the id is computed anew and must be
\* the one the owner was shown, or a new one is asked for.
RepeatConfirmed(c) ==
  /\ cmd[c].pc = "asked" /\ Verified /\ cmd[c].id \in Connected
  /\ IF saved[cmd[c].id].gen = cmd[c].confirmed THEN Becomes(c, "load") ELSE Becomes(c, "askAgain")
  /\ UNCHANGED <<saved, owner, owned, locked, changes, ranAs>>

\* run_google_workspace_app loads again and compares the lineage.
Load(c) ==
  /\ cmd[c].pc = "load"
  /\ LET now == saved[cmd[c].id]
     IN  IF ~ Verified \/ now = Absent THEN Becomes(c, "not_connected")
         ELSE IF cmd[c].write /\ now.gen # cmd[c].confirmed THEN Becomes(c, "confirmation_stale")
         ELSE \E pc \in {"invoke", "refresh"} : cmd' = [cmd EXCEPT ![c].pc = pc, ![c].cred = now]
  /\ UNCHANGED <<saved, owner, owned, locked, changes, ranAs>>

----------------------------------------------------------------------------
\* refresh_verified_google_workspace_credentials loads the account once more ...
RefreshLoads(c) ==
  /\ cmd[c].pc \in {"refresh", "again"}
  /\ IF Verified /\ saved[cmd[c].id] # Absent
       THEN cmd' = [cmd EXCEPT ![c].pc = "refreshing", ![c].cred = saved[cmd[c].id],
                               ![c].refreshed = TRUE]
       ELSE Becomes(c, "refresh_failed")
  /\ UNCHANGED <<saved, owner, owned, locked, changes, ranAs>>

\* ... and saves the answer only over the account it was asked for; the platform
\* may also say that the authorization must be renewed, or not answer.
RefreshReturns(c) ==
  /\ cmd[c].pc = "refreshing" /\ locked = "free"
  /\ \/ Becomes(c, "refresh_failed") /\ UNCHANGED <<saved, changes>>
     \/ /\ saved[cmd[c].id] # cmd[c].cred
        /\ Becomes(c, "refresh_failed") /\ UNCHANGED <<saved, changes>>
     \/ /\ saved[cmd[c].id] = cmd[c].cred /\ owned # owner
        /\ saved' = Cleared /\ Becomes(c, "refresh_failed") /\ UNCHANGED changes
     \/ /\ saved[cmd[c].id] = cmd[c].cred /\ owned = owner /\ Change
        /\ saved' = [saved EXCEPT ![cmd[c].id].token = @ + 1]
        /\ cmd' = [cmd EXCEPT ![c].pc = "invoke", ![c].cred.token = @ + 1]
  /\ UNCHANGED <<owner, owned, locked, ranAs>>

\* Mutant: the lock is not held while the command runs.
InvokeUnlocked(c) ==
  /\ cmd[c].pc = "invoke" /\ locked = "free"
  /\ saved[cmd[c].id] # Absent /\ saved[cmd[c].id] = cmd[c].cred /\ owned = owner
  /\ cmd' = [cmd EXCEPT ![c].pc = "running", ![c].under = owner]
  /\ ranAs' = ranAs \union {<<c, cmd[c].id, saved[cmd[c].id].gen>>}
  /\ UNCHANGED <<saved, owner, owned, locked, changes>>

----------------------------------------------------------------------------
\* _invoke_with_assignment_guard, from here to the end under the lifecycle lock.
Invoke(c) ==
  /\ cmd[c].pc = "invoke" /\ locked = "free"
  /\ IF saved[cmd[c].id] = Absent \/ saved[cmd[c].id] # cmd[c].cred
       THEN Becomes(c, "connection_changed") /\ UNCHANGED <<saved, locked, ranAs>>
       ELSE IF owned # owner
       THEN Becomes(c, "assignment_changed") /\ saved' = Cleared /\ UNCHANGED <<locked, ranAs>>
       ELSE /\ cmd' = [cmd EXCEPT ![c].pc = "running", ![c].under = owner]
            /\ locked' = c
            /\ ranAs' = ranAs \union {<<c, cmd[c].id, saved[cmd[c].id].gen>>}
            /\ UNCHANGED saved
  /\ UNCHANGED <<owner, owned, changes>>

\* Mutant: a token that is refused is refreshed every time.
CommandReturnsForEver(c) ==
  /\ cmd[c].pc = "running"
  /\ Becomes(c, "invoke")
  /\ locked' = "free"
  /\ UNCHANGED <<saved, owner, owned, changes, ranAs>>

\* The bounded process ends, is killed at its deadline or at its output limit, or
\* says that the token is refused, which counts once.
Endings(c) == {"ok", "failed"} \union {pc \in {"again"} : ~ cmd[c].refreshed}

\* Its output counts only when the assignment is still the one it began under.
CommandReturns(c) ==
  /\ cmd[c].pc = "running"
  /\ IF owned # owner THEN Becomes(c, "assignment_changed") /\ saved' = Cleared
     ELSE (\E pc \in Endings(c) : Becomes(c, pc)) /\ UNCHANGED saved
  /\ locked' = "free"
  /\ UNCHANGED <<owner, owned, changes, ranAs>>

----------------------------------------------------------------------------
\* What the rest of the plugin does to the registry, under the same lock: a
\* sign-in or permission change, a revocation (GoogleHandoff, GoogleDisconnect).
SignsIn(a) ==
  /\ locked = "free" /\ Change /\ (Connected = {} \/ owned = owner)
  /\ saved' = [saved EXCEPT ![a] = [gen |-> changes + 2, token |-> 0]]
  /\ owned' = owner
  /\ UNCHANGED <<owner, locked, cmd, ranAs>>

Disconnects(a) ==
  /\ locked = "free" /\ Change /\ saved[a] # Absent
  /\ saved' = [saved EXCEPT ![a] = Absent]
  /\ UNCHANGED <<owner, owned, locked, cmd, ranAs>>

\* External: the Computer is given to somebody else, at any time.
IsReassigned ==
  /\ Change /\ owner' = owner + 1
  /\ UNCHANGED <<saved, owned, locked, cmd, ranAs>>

CommandInit ==
  /\ saved = [a \in Accounts |-> [gen |-> 1, token |-> 0]]
  /\ owner = 0 /\ owned = 0 /\ locked = "free" /\ changes = 0 /\ ranAs = {}
  /\ cmd = [c \in Commands |-> NewCommand]

CommandStep(c) ==
  \/ RepeatConfirmed(c) \/ Load(c) \/ RefreshLoads(c) \/ RefreshReturns(c)
  \/ Invoke(c) \/ CommandReturns(c)

CommandNext ==
  \/ \E c \in Commands : AskRead(c) \/ AskWrite(c) \/ WipeStale(c) \/ CommandStep(c)
  \/ \E a \in Accounts : SignsIn(a) \/ Disconnects(a)
  \/ IsReassigned

----------------------------------------------------------------------------
Outcomes == {"askAgain", "not_connected", "confirmation_stale", "refresh_failed",
          "connection_changed", "assignment_changed", "ok", "failed"}

\* Each command is in one of its states, and the one inside the lifecycle lock is
\* the one that runs (_invoke_with_assignment_guard).
CommandTypeOK ==
  /\ \A c \in Commands :
       /\ cmd[c].pc \in Outcomes \union {"idle", "asked", "load", "refresh", "refreshing",
                                      "invoke", "running", "again"}
       /\ cmd[c].pc = "running" <=> locked = c
  /\ locked \in Commands \union {"free"}

\* A confirmed write runs on the account it was confirmed for and, when no token
\* was refreshed on the way, under the very permissions it was confirmed under
\* (_argv_confirmation_id, expected_credential_generation).
WritesAsConfirmed ==
  \A r \in ranAs : cmd[r[1]].write =>
    r[2] = cmd[r[1]].id /\ (cmd[r[1]].refreshed \/ r[3] = cmd[r[1]].confirmed)

\* The account a command runs with is neither removed nor replaced under it.
AccountStaysWhileRunning ==
  \A c \in Commands : cmd[c].pc = "running" => saved[cmd[c].id] = cmd[c].cred

\* Output reaches the agent only while the Computer is its owner's from before
\* the command started.
OutputIsTheOwners ==
  [][\A c \in Commands :
       cmd[c].pc = "running" /\ cmd'[c].pc \in {"ok", "failed", "again"} => cmd[c].under = owner]_commandVars

\* A read, or a write the owner has confirmed, is under way: one refresh, two runs
\* at most.
Commanding == \E c \in Commands : cmd[c].pc \notin Outcomes \union {"idle", "asked"}
=============================================================================
