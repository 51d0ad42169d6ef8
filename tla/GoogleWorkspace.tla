--------------------------- MODULE GoogleWorkspace --------------------------
(***************************************************************************)
(* Sign-ins, revocations and refreshes over one state directory.  They     *)
(* meet in the registry, in the two markers each may take from the other,  *)
(* and in the lifecycle lock.                                              *)
(*                                                                         *)
(* To spend the bounds where they meet, the first account is connected to  *)
(* begin with: a state GoogleHandoff reaches from an empty directory.      *)
(***************************************************************************)
EXTENDS GoogleHandoff, GoogleDisconnect, GoogleRefresh

CONSTANT First   \* the sign-in of the account that is there already

ASSUME FirstAssumption == First \in Handoffs /\ Subjects # {}

\* A process of a revocation is none of a sign-in.
ASSUME ProcessesAssumption == Procs \intersect (Deleters \union {Asker}) = {}

VARIABLES
  barred,   \* sign-ins a revocation has cut off, and those it deleted
  revoked,  \* revocations whose deletion has happened
  beside    \* revocations that had two workers alive at a time

history == <<barred, revoked, beside>>
everything == <<shared, binding, hvars, dvars, rvars, history>>

Installed ==
  [id |-> First, subject |-> CHOOSE s \in Subjects : TRUE, from |-> First,
   by |-> 1, binding |-> 1, token |-> 0]

WorkspaceInit ==
  /\ InitWith({Installed}, {})
  /\ DisconnectInit
  /\ RefreshInit
  /\ barred = {} /\ revoked = {} /\ beside = {}

\* At the moment of a deletion: every sign-in the platform knows and no other
\* account came from.
BarredNow ==
  {h \in Handoffs : /\ handoff[h].status # "unused"
                    /\ \A a \in store' : a.from # h}

\* A worker of a revocation that has not left yet.
Living(w) == dpc[w] \notin {"off", "gone"}

Remember ==
  /\ barred' = IF store' = store THEN barred ELSE barred \union BarredNow
  /\ revoked' = revoked \union {i \in Intents : \E c \in Copies : Unlink(<<i, c>>)}
  /\ beside' = beside \union
       {i \in Intents : \E c, d \in Copies : c # d /\ Living(<<i, c>>)' /\ Living(<<i, d>>)'}

WorkspaceNext ==
  \/ HandoffNext /\ UNCHANGED <<dvars, rvars, history>>
  \/ DisconnectNext /\ Remember /\ UNCHANGED <<hvars, rvars>>
  \/ RefreshNext /\ UNCHANGED <<hvars, dvars, history>>

WorkspaceSpec == WorkspaceInit /\ [][WorkspaceNext]_everything
=============================================================================
