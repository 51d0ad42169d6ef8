---------------------------- MODULE VisualShares ----------------------------
(***************************************************************************)
(* Creating and revoking encrypted Visuals (_create and _revoke of         *)
(* local_app_sharing/tool.py): the session at the platform, its private    *)
(* key file on the Computer, and the fingerprint that lets the owner's     *)
(* Mini App rebuild the link.  ShareProcesses is what _create needs first. *)
(***************************************************************************)
EXTENDS Naturals

CONSTANTS
  Shares,      \* sharing sessions, each made by a call of its own
  MaxSlips     \* bound on lost answers, failed steps and crashes

ASSUME SharesAssumption == MaxSlips \in Nat

VARIABLES
  session,     \* share -> its state at the platform
  keyfile,     \* shares whose key file exists (SessionKeyStore)
  creating,    \* share -> progress of the call that creates it
  revoking,    \* share -> progress of a call that revokes it
  stray,       \* shares a crash or a lost answer has left in pieces
  slips

shareVars == <<session, keyfile, creating, revoking, stray, slips>>

Slip == slips < MaxSlips /\ slips' = slips + 1

----------------------------------------------------------------------------
\* POST local-app-shares: the answer may be lost, or name another Computer or
\* another transport; the session exists and the call has failed.
CreateSession(s) ==
  /\ creating[s] = "begin" /\ session[s] = "none"
  /\ session' = [session EXCEPT ![s] = "active"]
  /\ \/ creating' = [creating EXCEPT ![s] = "key"] /\ UNCHANGED <<stray, slips>>
     \/ Slip /\ creating' = [creating EXCEPT ![s] = "failed"] /\ stray' = stray \union {s}
  /\ UNCHANGED <<keyfile, revoking>>

\* SessionKeyStore.create.
CreateKey(s) ==
  /\ creating[s] = "key"
  /\ \/ /\ keyfile' = keyfile \union {s}
        /\ creating' = [creating EXCEPT ![s] = "register"] /\ UNCHANGED slips
     \/ Slip /\ creating' = [creating EXCEPT ![s] = "undo"] /\ UNCHANGED keyfile
  /\ UNCHANGED <<session, revoking, stray>>

\* POST link-fingerprint: refused for a session that has been revoked.
RegisterKey(s) ==
  /\ creating[s] = "register"
  /\ \/ session[s] = "active" /\ creating' = [creating EXCEPT ![s] = "shared"] /\ UNCHANGED slips
     \/ session[s] # "active" /\ creating' = [creating EXCEPT ![s] = "undo"] /\ UNCHANGED slips
     \/ Slip /\ creating' = [creating EXCEPT ![s] = "undo"]
  /\ UNCHANGED <<session, keyfile, revoking, stray>>

\* The session is deleted, errors suppressed, and the key.
UndoCreate(s) ==
  /\ creating[s] = "undo"
  /\ \/ session' = [session EXCEPT ![s] = "revoked"] /\ UNCHANGED <<stray, slips>>
     \/ Slip /\ stray' = stray \union {s} /\ UNCHANGED session
  /\ keyfile' = keyfile \ {s}
  /\ creating' = [creating EXCEPT ![s] = "failed"]
  /\ UNCHANGED revoking

\* action="list" shows a share only when every active one has its key; the agent
\* revokes what it was shown.
ListShows(s) == session[s] = "active" /\ \A t \in Shares : session[t] = "active" => t \in keyfile

\* DELETE at the platform ...
RevokeSession(s) ==
  /\ revoking[s] = "idle" /\ ListShows(s)
  /\ session' = [session EXCEPT ![s] = "revoked"]
  /\ \/ revoking' = [revoking EXCEPT ![s] = "key"] /\ UNCHANGED <<stray, slips>>
     \/ Slip /\ revoking' = [revoking EXCEPT ![s] = "failed"] /\ stray' = stray \union {s}
  /\ UNCHANGED <<keyfile, creating>>

\* ... and then the key file.
DeleteKey(s) ==
  /\ revoking[s] = "key"
  /\ keyfile' = keyfile \ {s}
  /\ revoking' = [revoking EXCEPT ![s] = "done"]
  /\ UNCHANGED <<session, creating, stray, slips>>

\* The call's process dies.
ShareCallDies(s) ==
  /\ Slip
  /\ \/ /\ creating[s] \in {"key", "register", "undo"}
        /\ creating' = [creating EXCEPT ![s] = "failed"] /\ UNCHANGED revoking
     \/ /\ revoking[s] = "key"
        /\ revoking' = [revoking EXCEPT ![s] = "failed"] /\ UNCHANGED creating
  /\ stray' = stray \union {s}
  /\ UNCHANGED <<session, keyfile>>

\* The session ends by itself at its expires_at.  The key file stays ...
SessionEnds(s) ==
  /\ session[s] = "active" /\ creating[s] = "shared"
  /\ session' = [session EXCEPT ![s] = "ended"]
  /\ UNCHANGED <<keyfile, creating, revoking, stray, slips>>

\* ... unless a request that was let in before meets it: load() deletes an expired
\* key.  (The clocks of the platform and the Computer are taken to agree.)
LoadExpired(s) ==
  /\ session[s] = "ended" /\ s \in keyfile
  /\ keyfile' = keyfile \ {s}
  /\ UNCHANGED <<session, creating, revoking, stray, slips>>

----------------------------------------------------------------------------
ShareInit ==
  /\ session = [s \in Shares |-> "none"] /\ keyfile = {}
  /\ creating = [s \in Shares |-> "begin"] /\ revoking = [s \in Shares |-> "idle"]
  /\ stray = {} /\ slips = 0

ShareNext ==
  \E s \in Shares :
    \/ CreateSession(s) \/ CreateKey(s) \/ RegisterKey(s) \/ UndoCreate(s)
    \/ RevokeSession(s) \/ DeleteKey(s) \/ ShareCallDies(s)
    \/ SessionEnds(s) \/ LoadExpired(s)

----------------------------------------------------------------------------
Settled(s) == creating[s] \in {"begin", "shared", "failed"} /\ revoking[s] # "key"

ShareTypeOK ==
  /\ session \in [Shares -> {"none", "active", "revoked", "ended"}]
  /\ keyfile \subseteq Shares /\ stray \subseteq Shares
  /\ creating \in [Shares -> {"begin", "key", "register", "undo", "shared", "failed"}]
  /\ revoking \in [Shares -> {"idle", "key", "done", "failed"}]
  /\ slips \in 0 .. MaxSlips

\* A session that is active at the platform has its key on the Computer: one
\* that has not makes action="list" refuse the whole list, so that no share can
\* be found and revoked any more (_list).
ActiveHasKey ==
  \A s \in Shares \ stray : Settled(s) /\ session[s] = "active" => s \in keyfile

\* A key does not outlive the revocation of its session, nor a creation that was
\* undone, however create and revoke interleave.  (The key of a session that ended
\* by itself may stay for ever.)
RevokedHasNoKey ==
  \A s \in Shares \ stray : Settled(s) /\ session[s] = "revoked" => s \notin keyfile
=============================================================================
