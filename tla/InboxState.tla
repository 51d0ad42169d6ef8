----------------------------- MODULE InboxState -----------------------------
(***************************************************************************)
(* The durable email ledger of one Computer: the `messages` table of       *)
(* capabilities/mail/channel_state.py.  It outlives every process that     *)
(* opens it, and it is shared by the Hermes adapter (module EmailChannel)  *)
(* and by the native coding sessions (module EmailFrameworks).             *)
(*                                                                         *)
(* The table is a function from keys to rows, a row being "absent" until   *)
(* it is inserted.  Every method of the class that writes is one SQLite    *)
(* transaction, so it is one operator from a table to a table here.        *)
(*                                                                         *)
(* Clock values are abstracted to what the queries compare: `ready` says   *)
(* that retry_at has passed, `stale` that a "processing" row was last      *)
(* updated more than RETRY_TURN_SECONDS ago.                               *)
(***************************************************************************)
EXTENDS Naturals

CONSTANTS
  Messages,       \* ids of the emails that can reach the mailbox
  Notifications,  \* ids of the unthreaded notifications an agent can send
  Welcome,        \* the key "onboarding-welcome"
  Bodies,         \* the texts a model can produce
  MaxTurns,       \* MAX_TURN_ATTEMPTS
  MaxAttempts     \* MAX_DELIVERY_ATTEMPTS

\* A turn is what the model is asked to answer: an arrival or the welcome.
Turns == Messages \union {Welcome}

\* The key and the fixed text of the notice that replaces an exhausted turn.
NoticeOf(k) == <<"turn-failure", k>>
NoticeBody  == "stopped retrying"
NoBody      == "no body"

Notices == {NoticeOf(k) : k \in Turns}
Keys    == Turns \union Notifications \union Notices
Texts   == Bodies \union {NoticeBody}

States == {"absent", "queued", "processing", "outbox", "uncertain",
           "done", "failed"}
Errors == {"none", "exhausted", "delivery", "handoff"}

Row == [state    : States,
        turns    : Nat,                  \* turn_attempts
        attempts : Nat,                  \* attempts (of the delivery)
        body     : Texts \union {NoBody},\* the text in payload, once there is one
        error    : Errors,
        ready    : BOOLEAN,              \* retry_at <= now
        stale    : BOOLEAN]              \* updated < now - RETRY_TURN_SECONDS

ASSUME KeysAssumption ==
  /\ Welcome \notin Messages
  /\ Turns \intersect Notifications = {}
  /\ Notices \intersect (Turns \union Notifications) = {}

ASSUME BodiesAssumption == NoBody \notin Texts /\ NoticeBody \notin Bodies

ASSUME LimitsAssumption ==
  /\ MaxTurns    \in Nat \ {0}
  /\ MaxAttempts \in Nat \ {0}

-----------------------------------------------------------------------------
\* A row that is not in the table, with the column defaults an INSERT gives it.
Absent == [state |-> "absent", turns |-> 0, attempts |-> 0, body |-> NoBody,
           error |-> "none", ready |-> TRUE, stale |-> FALSE]

EmptyTable == [k \in Keys |-> Absent]

\* put(key, state, payload): an upsert that always replaces the payload.
put(t, k, s, b) ==
  [t EXCEPT ![k].state = s, ![k].body = b, ![k].stale = FALSE]

\* Mutant: INSERT OR REPLACE.
ingestReplacing(t, ids) ==
  [k \in Keys |-> IF k \in ids THEN [Absent EXCEPT !.state = "queued"] ELSE t[k]]

\* ingest(messages, ...): INSERT OR IGNORE each message as "queued".
ingest(t, ids) ==
  [k \in Keys |-> IF k \in ids /\ t[k].state = "absent"
                  THEN [Absent EXCEPT !.state = "queued"]
                  ELSE t[k]]

\* Mutant: a reply that is on its way does not keep a turn from starting.
MayStartTurnUnlessDone(t, k) == t[k].state # "done"

\* start_turn returns False, and changes nothing, once the row has moved on.
MayStartTurn(t, k) == t[k].state \in {"absent", "queued", "processing"}

BudgetLeft(t, k) == t[k].turns < MaxTurns

\* Mutant: quarantine without a notice.
quarantineSilently(t, k) ==
  [t EXCEPT ![k].state = "failed", ![k].error = "exhausted", ![k].stale = FALSE]

\* start_turn, out of budget: quarantine the turn and enqueue its notice.
quarantine(t, k) ==
  [t EXCEPT ![k].state = "failed",
            ![k].error = "exhausted",
            ![k].stale = FALSE,
            ![NoticeOf(k)] = IF @.state = "absent"
                             THEN [Absent EXCEPT !.state = "outbox",
                                                 !.body  = NoticeBody]
                             ELSE @]

\* Mutant: a resumed turn is not charged.
beginUncharged(t, k) ==
  [t EXCEPT ![k].state = "processing",
            ![k].turns = IF t[k].state = "processing" THEN @ ELSE @ + 1,
            ![k].body  = NoBody,
            ![k].stale = FALSE]

\* start_turn, within budget: record the attempt before the model is called.
begin(t, k) ==
  [t EXCEPT ![k].state = "processing",
            ![k].turns = @ + 1,
            ![k].body  = NoBody,
            ![k].stale = FALSE]

start_turn(t, k) ==
  IF BudgetLeft(t, k) THEN begin(t, k) ELSE quarantine(t, k)

\* Mutant: the limit is off by one.
delivery_attemptOneMore(t, k, terminal) ==
  LET n == t[k].attempts + 1 IN
  [t EXCEPT ![k].attempts = n,
            ![k].error = "delivery",
            ![k].state = IF terminal \/ n > MaxAttempts THEN "failed" ELSE "outbox",
            ![k].ready = FALSE]

\* delivery_attempt(key, ...): count a failed delivery; the payload stays.
delivery_attempt(t, k, terminal) ==
  LET n == t[k].attempts + 1 IN
  [t EXCEPT ![k].attempts = n,
            ![k].error = "delivery",
            ![k].state = IF terminal \/ n >= MaxAttempts THEN "failed" ELSE "outbox",
            ![k].ready = FALSE]

\* defer_lookup(key): the next receipt lookup is an hour away.
defer_lookup(t, k) == [t EXCEPT ![k].ready = FALSE]

\* Mutant: the limit is off by one.
native_handoff_failedOneMore(t, k, limit) ==
  LET n == t[k].turns + 1 IN
  [t EXCEPT ![k].turns = n,
            ![k].error = "handoff",
            ![k].stale = FALSE,
            ![k].state = IF n > limit THEN "failed" ELSE "queued",
            ![k].ready = FALSE]

\* native_handoff_failed(key, reason, limit).
native_handoff_failed(t, k, limit) ==
  LET n == t[k].turns + 1 IN
  [t EXCEPT ![k].turns = n,
            ![k].error = "handoff",
            ![k].stale = FALSE,
            ![k].state = IF n >= limit THEN "failed" ELSE "queued",
            ![k].ready = FALSE]

\* defer_native_handoff(key): backpressure costs no retry budget.
defer_native_handoff(t, k) ==
  IF t[k].state = "queued" THEN [t EXCEPT ![k].ready = FALSE] ELSE t

-----------------------------------------------------------------------------
\* Mutants: delivery is tried once; unknown acceptance is retried; a turn
\* that was begun is never looked at again.
pendingOnce(t) == {<<k, t[k].body>> : k \in {x \in Keys :
                     t[x].state = "outbox" /\ t[x].ready /\ t[x].attempts = 0}}
pendingUncertain(t) == {<<k, t[k].body>> : k \in {x \in Keys :
                          t[x].state \in {"outbox", "uncertain"} /\ t[x].ready}}
arrivalsQueued(t) == {<<k, t[k].state>> : k \in {x \in Keys :
                        t[x].state = "queued" /\ t[x].ready}}

\* The three queries; a result row carries what the caller reads from it.
pending(t)   == {<<k, t[k].body>> : k \in {x \in Keys :
                   t[x].state = "outbox" /\ t[x].ready}}
uncertain(t) == {<<k, t[k].body>> : k \in {x \in Keys :
                   t[x].state = "uncertain" /\ t[x].ready}}
arrivals(t)  == {<<k, t[k].state>> : k \in {x \in Keys :
                   \/ t[x].state = "queued" /\ t[x].ready
                   \/ t[x].state = "processing" /\ t[x].stale}}
=============================================================================
