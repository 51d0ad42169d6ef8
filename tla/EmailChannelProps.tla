-------------------------- MODULE EmailChannelProps -------------------------
(* The properties of EmailChannel.                                         *)
EXTENDS EmailChannel

\* One idempotency key never carries two texts, whatever is retried, resumed
\* or restarted: "Exact body/key survive restarts" (channel.py, _recover_outbox).
OneTextPerKey ==
  \A k \in Keys : \A a, b \in posted[k] : a = b

\* A turn is answered by its reply or by the failure notice, never by both: a
\* late completion cannot follow the notice, nor the notice a posted reply.
ReplyExcludesNotice ==
  \A k \in Turns : posted[k] = {} \/ rows[NoticeOf(k)].state = "absent"

\* A turn given up without any reply has its notice in the ledger, so that no
\* crash can lose both (InboxState.start_turn quarantines and enqueues at once).
SilenceIsExplained ==
  \A k \in Turns : rows[k].state = "failed" /\ posted[k] = {}
                     => rows[NoticeOf(k)].state # "absent"

\* The model is called at most MAX_TURN_ATTEMPTS times for one email, over all
\* restarts, timeouts and resumptions (README, "Email onboarding").
TurnBudget == \A k \in Turns : begun[k] <= MaxTurns

\* A turn starts only for mail of the owner as last fetched, also when it is
\* resumed after a restart or a change of owner (_receive, _resume).
OnlyOwnerTurns ==
  [][\A m \in Messages : begun'[m] # begun[m] => Sender[m] = channel.owner]_vars

\* The request for key k leaves the Computer in this step.
Leaves(k) == \E w \in Keys \X Texts :
               /\ w[1] = k
               /\ w \in (flight' \ flight) \/ (cur' = w /\ cur # w)

\* Once the platform has called the acceptance of a key unknown, nothing is
\* posted under it before a receipt settled the question (_recover_outbox).
NoBlindResend == [][\A k \in unsure : ~Leaves(k)]_vars

\* Whatever waits for delivery or for a receipt has its text, and what is to be
\* delivered has budget left: no order of two answers to one key leaves a row that
\* cannot be sent (delivery_attempt, _recover_outbox).  Where the poll delivered a
\* key beside its send(), or dropped it beside its reply, such a row can be left.
OutboxIsSound ==
  \A k \in Keys \ crossed :
    /\ rows[k].state \in {"outbox", "uncertain"} => rows[k].body # NoBody
    /\ rows[k].state = "outbox" => rows[k].attempts < MaxAttempts

\* No answer that comes late sends an email a second time, not while its
\* acceptance is unknown and not by reopening what was delivered, but under a key
\* on which two parts of the adapter have worked at a time.
NothingResent ==
  [][\A k \in Keys \ crossed :
       /\ k \in unsure => ~Leaves(k)
       /\ rows[k].state = "done" => rows'[k].state = "done"]_vars

\* Every turn ends: in a delivery, a drop, a quarantine, or the one state that
\* only the platform's operator resolves.  A crash or a lost turn delays it.
Ended(k) == rows[k].state \in {"done", "failed", "uncertain"}
ArrivalsEnd == \A m \in Messages : m \in mail ~> Ended(m)

\* Nothing stays in the outbox for ever.
OutboxDrains ==
  \A k \in Keys : rows[k].state = "outbox" ~> rows[k].state # "outbox"

\* The poll task keeps coming back to the mailbox.
PollReachesMailbox == []<>(pc \in {"arrivals", "down"})

-----------------------------------------------------------------------------
\* What became of a turn, as module EmailDuty sees it.
Outcome(k) ==
  IF posted[k] # {}                 THEN CHOOSE b \in posted[k] : TRUE
  ELSE IF rows[k].state = "failed"  THEN "noticed"
  ELSE IF rows[k].state = "done"    THEN "dropped"
  ELSE "open"

Duty == INSTANCE EmailDuty WITH outcome <- [k \in Turns |-> Outcome(k)]

\* The adapter implements EmailDuty.
ImplementsDuty == Duty!Spec
=============================================================================
