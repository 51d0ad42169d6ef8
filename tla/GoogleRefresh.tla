---------------------------- MODULE GoogleRefresh ---------------------------
(***************************************************************************)
(* Refreshing an access token through the platform, as every consumer of a *)
(* saved account does when the token is about to expire.  The account is   *)
(* read before the request and written after it, and anything may have     *)
(* happened to it in between.  Access tokens are not modelled; a rotated   *)
(* refresh token is, because every generation but the install's covers it. *)
(***************************************************************************)
EXTENDS GoogleAccounts

VARIABLES
  base,     \* the credential the request was made with, or None
  refresher \* "idle" or "sent"

rvars == <<base, refresher>>

\* load_verified_google_workspace_credentials: one binding, the current one.
RefreshSends ==
  /\ refresher = "idle"
  /\ {a.binding : a \in store} = {binding}
  /\ base' \in store
  /\ refresher' = "sent"
  /\ UNCHANGED <<shared, binding>>

RefreshFails ==
  /\ refresher = "sent"
  /\ refresher' = "idle"
  /\ UNCHANGED <<shared, binding, base>>

\* Mutant: what the registry holds by now is not compared.
RefreshSavesBlindly ==
  /\ refresher = "sent" /\ lock = None
  /\ IF base.binding = binding
       THEN store' = Upsert(store, base)
       ELSE store' = {}
  /\ refresher' = "idle"
  /\ UNCHANGED <<active, scratch, receipt, leaving, lock, binding, base>>

\* _persist_refreshed_credentials, one hold of the lock: only the unchanged
\* credential is updated, and a changed assignment deletes every account
\* without cancelling the sign-in under way.
RefreshSaves ==
  /\ refresher = "sent" /\ lock = None
  /\ base \in store
  /\ IF base.binding = binding
       THEN \E t \in {base.token, base.token + 1} \intersect (0 .. MaxToken) :
              store' = Upsert(store, [base EXCEPT !.token = t])
       ELSE store' = {}
  /\ refresher' = "idle"
  /\ UNCHANGED <<active, scratch, receipt, leaving, lock, binding, base>>

RefreshInit == base = None /\ refresher = "idle"
RefreshNext == RefreshSends \/ RefreshFails \/ RefreshSaves
=============================================================================
