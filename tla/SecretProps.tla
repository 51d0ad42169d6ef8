----------------------------- MODULE SecretProps -----------------------------
(***************************************************************************)
(* What is claimed of the private handoffs and of Slack.                   *)
(***************************************************************************)
EXTENDS SlackConnection

\* Every variable of the ceremonies stays in its set.
SecretTypeOK ==
  /\ record \in [Handoffs -> {"none", "pending", "submitted", "claimed", "failed", "expired"}]
  /\ privateKey \in [Handoffs -> BOOLEAN]
  /\ wpc \in [Handoffs -> [Workers ->
       {"none", "started", "polling", "failed_seen", "installing", "copying",
        "recording", "saving", "saving_token", "verifying", "greeting",
        "claiming", "rejecting", "denying", "ending", "done", "dead", "unstarted"}]]
  /\ hatlock \in (Persistent \X Workers) \union {None}
  /\ starting \in Handoffs \union {None}
  /\ env \in [Names \union SlackNames -> Handoffs \union {None}]
  /\ hat \in [Names -> Handoffs \union {None}]
  /\ troubles \in 0 .. MaxTroubles
  /\ agenda \in Agendas
  /\ removal \in {"none", "pending", "confirmed", "removed", "failed", "expired"}
  /\ dpc \in {"none", "polling", "revoking", "reading", "rewriting", "checking",
              "reporting", "keeping", "dead"}
  /\ {botToken, loaded} \subseteq SlackHandoffs \union {None}
  /\ revoked \subseteq SlackHandoffs
  /\ envPage \in [Names \union SlackNames -> Handoffs \union {None}]
  /\ overlap \in BOOLEAN

\* A one-time private key is on disk only while the tool is about to start a
\* worker for it, or for a worker: one that runs, one that died, or one that was
\* never started because the tool itself was cut off (nothing removes those).
\* Spawning twice, failing to spawn, and the first worker's end taking the key from
\* under a second one leave none behind.
KeyHasAWorker ==
  \A h \in Handoffs : privateKey[h] =>
    \/ starting = h /\ Started(h) = {}
    \/ \E i \in Workers : wpc[h][i] \notin {"none", "done"}

\* A handoff the platform lists as installed is installed: whichever worker
\* claimed it, after whatever failures, every credential it asks for has a
\* value where it is used.  (A removal that rewrites the env file during a save
\* takes the saved value with it; that is "overlap".)
ClaimedIsSaved ==
  ~overlap =>
    \A h \in Handoffs \ SlackHandoffs : record[h] = "claimed" =>
      \A n \in NamesOf[h] :
        /\ h \in Secrets \union Required \union Transfers => env[n] # None
        /\ h \in HatSecrets \union Bundles \union Transfers => hat[n] # None

\* "Owner allowlists are installed before tokens": a worker that dies or is cut
\* off between two writes never leaves Hermes a token that anyone may talk to.
TokenHasAllowlist ==
  ~overlap => (env[TOKEN] # None => env[ALLOWLIST] # None)

\* The platform shows a connection as connected only with the whole of it saved.
ConnectedIsComplete ==
  [][\A h \in SlackHandoffs :
       record[h] # "claimed" /\ record'[h] = "claimed" =>
         (env[TOKEN] = h /\ env[ALLOWLIST] = h) \/ overlap']_slackAllVars

\* A token leaves the Computer only after Slack has revoked it: when Slack's
\* answer is lost the bundle stays for a retry.
KeptUntilRevoked ==
  [][env[TOKEN] # None /\ env'[TOKEN] = None => env[TOKEN] \in revoked \/ overlap]_slackAllVars

\* A worker that has taken a submission up does not end before it has told the
\* platform what became of it (_poll_and_install_secret).  What is submitted again
\* in the last round before the deadline is dropped: "failed_seen".
SubmissionsAreAnswered ==
  [][\A h \in Handoffs, i \in Workers :
       /\ wpc[h][i] \in {"claiming", "rejecting", "denying"} /\ wpc'[h][i] = "ending"
       /\ troubles' = 0
       => record'[h] # "submitted"]_slackAllVars

\* A one-time key is on disk, and neither a worker of its handoff nor the tool that
\* was to start it has died.
KeyKept ==
  \E h \in OneTime : privateKey[h] /\ \A i \in Workers : wpc[h][i] \notin {"dead", "unstarted"}

\* A worker that polled for it has not answered what the owner submitted.
Unsaved ==
  troubles = 0 /\ \E h \in Handoffs, i \in Workers :
    record[h] = "submitted" /\ wpc[h][i] \notin {"none", "started", "done"}

\* The owner has confirmed a disconnect, and although nothing broke and no
\* connection was being installed at the same time, Slack is not removed.
Unremoved == removal \in {"confirmed", "failed"} /\ troubles = 0 /\ ~overlap

\* The invariants above, as one.
SecretsAreSound == ClaimedIsSaved /\ KeyHasAWorker /\ TokenHasAllowlist

\* What a step may do to a ceremony: Slack is shown connected only when it is
\* whole, its token leaves only after it was revoked, and a submission is not
\* dropped (slack/connection.py, slack/disconnect.py, secrets/handoff_worker.py).
CeremoniesAreWhole == ConnectedIsComplete /\ KeptUntilRevoked /\ SubmissionsAreAnswered

\* A ceremony is not over: a key to destroy, a submission to answer, a removal to
\* carry out.
Owing == KeyKept \/ Unsaved \/ Unremoved
=============================================================================
