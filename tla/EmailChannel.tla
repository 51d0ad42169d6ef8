---------------------------- MODULE EmailChannel ----------------------------
(***************************************************************************)
(* The Hermes email adapter, capabilities/mail/channel.py: one poll task,  *)
(* the gateway's turn tasks that call send(), and the deliveries both of   *)
(* them make, over the durable ledger of InboxState.                       *)
(*                                                                         *)
(* An action is what the event loop runs between two awaits.  A delivery   *)
(* awaits the platform, so it is three steps: the request leaves the       *)
(* Computer, it reaches the platform, its answer is applied to the ledger. *)
(* Everything but the ledger and the platform is lost when the process     *)
(* stops.                                                                  *)
(***************************************************************************)
EXTENDS InboxState, FiniteSets

CONSTANTS
  NoKey,             \* not a key: the poll task waits for nothing
  Owners,            \* the people the Computer can be assigned to
  Sender,            \* who each arrival is authenticated as coming from
  FreshComputer,     \* the welcome has not been sent yet
  PostOutlivesPoll,  \* a send() may still await the platform when a poll delivers
  MaxStops           \* bound: how often the process stops

\* Sender[m] is an owner, or one of these.
Unverified == "unverified"
Automatic  == "automatic"

ASSUME SenderAssumption ==
  /\ Sender \in [Messages -> Owners \union {Unverified, Automatic}]
  /\ {Unverified, Automatic} \intersect Owners = {}

ASSUME FlagsAssumption ==
  /\ NoKey \notin Keys
  /\ FreshComputer \in BOOLEAN
  /\ PostOutlivesPoll \in BOOLEAN
  /\ MaxStops \in Nat

VARIABLES
  rows,     \* the ledger
  up,       \* connect() succeeded and the process has not stopped since
  stops,    \* how often it stopped
  pc,       \* where the poll task awaits
  todo,     \* the rest of the query result it is walking through
  cur,      \* the delivery or the turn it waits for
  live,     \* turns handed to the gateway: each may call send() at any time
  flight,   \* deliveries started by send() whose answer is outstanding
  plat,     \* the platform's record of each idempotency key
  mail,     \* messages that have reached the mailbox
  owner,    \* the assigned owner, as the platform knows it
  channel,  \* self._channel: the owner and welcome_sent_at, as last fetched
  posted,   \* history: the texts posted under each key
  unsure,   \* history: keys whose acceptance the platform called unknown
  begun,    \* history: turns handed to the gateway, per key
  crossed   \* history: keys that two parts of the adapter worked on at a time

vars == <<rows, up, stops, pc, todo, cur, live, flight, plat, mail, owner,
          channel, posted, unsure, begun, crossed>>
poll     == <<pc, todo, cur>>
process  == <<up, stops>>
history  == <<posted, unsure, begun, crossed>>
external == <<plat, mail, owner>>

None == <<NoKey, NoBody>>

PollStates == {"down", "sleep", "lookup", "deliver", "fetch", "arrivals", "turn"}
Receipts   == {"none", "sent", "unknown", "failed"}
Deliveries == Keys \X (Texts \union {NoBody})
Arrivals   == Turns \X {"queued", "processing"}

TypeOK ==
  /\ rows \in [Keys -> Row]
  /\ up \in BOOLEAN
  /\ stops \in 0..MaxStops
  /\ pc \in PollStates
  /\ todo \subseteq IF pc \in {"lookup", "deliver"} THEN Deliveries ELSE Arrivals
  /\ cur \in CASE pc = "deliver" -> Deliveries \union {None}
               [] pc = "turn"    -> Turns \X {NoBody}
               [] OTHER          -> {None}
  /\ live \subseteq Turns
  /\ flight \subseteq Keys \X Texts
  /\ plat \in [Keys -> Receipts]
  /\ mail \subseteq Messages
  /\ owner \in Owners
  /\ channel \in [owner : Owners, welcomed : BOOLEAN]
  /\ posted \in [Keys -> SUBSET Texts]
  /\ unsure \subseteq Keys
  /\ begun \in [Keys -> Nat]
  /\ crossed \subseteq Keys

Welcomed == ~FreshComputer \/ plat[Welcome] = "sent"

\* Mutant: the status lacks welcome_sent_at.
StatusWithoutWelcome == [owner |-> owner]

\* owner.request("status"), once the channel is ready.
Status == [owner |-> owner, welcomed |-> Welcomed]

Init ==
  /\ rows = EmptyTable
  /\ up = FALSE
  /\ stops = 0
  /\ pc = "down"
  /\ todo = {}
  /\ cur = None
  /\ live = {}
  /\ flight = {}
  /\ plat = [k \in Keys |-> "none"]
  /\ mail = {}
  /\ owner \in Owners
  /\ channel = [owner |-> owner, welcomed |-> ~FreshComputer]
  /\ posted = [k \in Keys |-> {}]
  /\ unsure = {}
  /\ begun = [k \in Keys |-> 0]
  /\ crossed = {}

-----------------------------------------------------------------------------
(* The process.                                                            *)

Connect ==
  /\ ~up
  /\ up' = TRUE
  /\ pc' = "sleep"
  /\ todo' = {}
  /\ cur' = None
  /\ channel' = Status
  /\ UNCHANGED <<rows, stops, live, flight, external, history>>

\* disconnect() or a crash: tasks, waiters and outstanding answers are gone.
Stop ==
  /\ up
  /\ stops < MaxStops
  /\ stops' = stops + 1
  /\ up' = FALSE
  /\ pc' = "down"
  /\ todo' = {}
  /\ cur' = None
  /\ live' = {}
  /\ flight' = {}
  /\ UNCHANGED <<rows, external, channel, history>>

-----------------------------------------------------------------------------
(* _deliver: the request leaves with this text, and its answer comes back. *)

PostLeaves(k, b) == posted' = [posted EXCEPT ![k] = @ \union {b}]

MarkWelcomed(k) ==
  channel' = IF k = Welcome THEN [channel EXCEPT !.welcomed = TRUE] ELSE channel

Accepted(k) ==
  /\ plat[k] = "sent"
  /\ rows' = put(rows, k, "done", NoBody)
  /\ unsure' = unsure \ {k}
  /\ MarkWelcomed(k)

AcceptanceUnknown(k, b) ==
  /\ plat[k] = "unknown"
  /\ rows' = defer_lookup(put(rows, k, "uncertain", b), k)
  /\ unsure' = unsure \union {k}
  /\ UNCHANGED channel

\* An HTTP error or a lost answer.  A refusal is never an acceptance.
Refused(k) ==
  \E terminal \in BOOLEAN :
    /\ terminal => plat[k] \in {"none", "failed"}
    /\ rows' = delivery_attempt(rows, k, terminal)
    /\ UNCHANGED <<channel, unsure>>

Answered(k, b) == Accepted(k) \/ AcceptanceUnknown(k, b) \/ Refused(k)

-----------------------------------------------------------------------------
(* _poll, up to the mailbox: _refresh_status and _recover_outbox.          *)

\* The cached status is kept for STATUS_SECONDS; a failed refresh sleeps on.
PollWakes ==
  /\ pc = "sleep"
  /\ pc' = "lookup"
  /\ channel' \in {channel, Status}
  /\ todo' = uncertain(rows)
  /\ UNCHANGED <<rows, process, cur, live, flight, external, history>>

LookupReturns ==
  /\ pc = "lookup"
  /\ \E w \in todo : LET k == w[1] IN
       /\ todo' = todo \ {w}
       /\ \/ Accepted(k)
          \/ /\ plat[k] = "failed"
             /\ rows' = put(rows, k, "outbox", w[2])
             /\ unsure' = unsure \ {k}
             /\ UNCHANGED channel
          \/ /\ rows' = IF rows[k].state = "uncertain" THEN defer_lookup(rows, k)
                        ELSE rows
             /\ UNCHANGED <<channel, unsure>>
  /\ UNCHANGED <<process, pc, cur, live, flight, external, posted, begun, crossed>>

\* What send() still waits for may be in the result.
LookupsDone ==
  /\ pc = "lookup"
  /\ todo = {}
  /\ PostOutlivesPoll \/ flight = {}
  /\ pc' = "deliver"
  /\ todo' = pending(rows)
  /\ crossed' = crossed \union {w[1] : w \in flight \intersect todo'}
  /\ UNCHANGED <<rows, process, cur, live, flight, external, channel, posted, unsure, begun>>

\* The payload comes from the query result; the row is not read again.
PollPosts ==
  /\ pc = "deliver"
  /\ cur = None
  /\ \E w \in todo :
       /\ w[2] # NoBody
       /\ todo' = todo \ {w}
       /\ cur' = w
       /\ PostLeaves(w[1], w[2])
  /\ UNCHANGED <<rows, process, pc, live, flight, external, channel, unsure, begun, crossed>>

\* json.loads(None) raises, and the exception ends this round of the poll.
PollFindsNoPayload ==
  /\ pc = "deliver"
  /\ cur = None
  /\ \E w \in todo : w[2] = NoBody
  /\ pc' = "sleep"
  /\ todo' = {}
  /\ UNCHANGED <<rows, process, cur, live, flight, external, channel, history>>

PollPostReturns ==
  /\ pc = "deliver"
  /\ cur # None
  /\ Answered(cur[1], cur[2])
  /\ cur' = None
  /\ UNCHANGED <<process, pc, todo, live, flight, external, posted, begun, crossed>>

-----------------------------------------------------------------------------
(* _dispatch: charge the turn, hand it to the gateway and wait for it.     *)

Dispatch(k, next) ==
  IF MayStartTurn(rows, k) /\ BudgetLeft(rows, k)
  THEN /\ rows' = begin(rows, k)
       /\ live' = live \union {k}
       /\ begun' = [begun EXCEPT ![k] = @ + 1]
       /\ pc' = "turn"
       /\ cur' = <<k, NoBody>>
  ELSE /\ rows' = IF MayStartTurn(rows, k) THEN quarantine(rows, k) ELSE rows
       /\ pc' = next
       /\ UNCHANGED <<live, begun, cur>>

\* Mutant: no timeout; a turn the gateway drops is waited for.
TurnWaitEndsOnReply ==
  /\ pc = "turn"
  /\ rows[cur[1]].state # "processing"
  /\ pc' = IF cur[1] = Welcome THEN "fetch" ELSE "arrivals"
  /\ cur' = None
  /\ UNCHANGED <<rows, process, todo, live, flight, external, channel, history>>

\* The completion event, a reply that was delivered, or TURN_WAIT_SECONDS.
TurnWaitEnds ==
  /\ pc = "turn"
  /\ pc' = IF cur[1] = Welcome THEN "fetch" ELSE "arrivals"
  /\ cur' = None
  /\ UNCHANGED <<rows, process, todo, live, flight, external, channel, history>>

\* _welcome and _receive leave alone what is settled, on its way or running.
Settled(k)  == rows[k].state \in {"done", "outbox", "failed", "uncertain"}
Underway(k) == Settled(k) \/ (rows[k].state = "processing" /\ ~rows[k].stale)

DeliveriesDone ==
  /\ pc = "deliver"
  /\ todo = {}
  /\ cur = None
  /\ IF channel.welcomed \/ Underway(Welcome)
     THEN pc' = "fetch" /\ UNCHANGED <<rows, live, begun, cur>>
     ELSE Dispatch(Welcome, "fetch")
  /\ UNCHANGED <<process, todo, flight, external, channel, posted, unsure, crossed>>

-----------------------------------------------------------------------------
(* _poll, the mailbox: _messages, then each arrival of the ledger.         *)

FetchMessages ==
  /\ pc = "fetch"
  /\ rows' = ingest(rows, mail)
  /\ pc' = "arrivals"
  /\ todo' = arrivals(rows')
  /\ UNCHANGED <<process, cur, live, flight, external, channel, history>>

\* The mailbox cannot be read, or its answer brings nothing (a start over).
FetchFails ==
  /\ pc = "fetch"
  /\ \/ pc' = "sleep" /\ UNCHANGED todo
     \/ pc' = "arrivals" /\ todo' = arrivals(rows)
  /\ UNCHANGED <<rows, process, cur, live, flight, external, channel, history>>

Authenticated(k) == Sender[k] = channel.owner

Drop(k) ==
  /\ rows' = put(rows, k, "done", NoBody)
  /\ UNCHANGED <<pc, cur, live, begun>>

Skip == UNCHANGED <<rows, pc, cur, live, begun>>

_receive(k) ==
  IF Underway(k) THEN Skip
  ELSE IF Sender[k] = Automatic \/ ~Authenticated(k) THEN Drop(k)
  ELSE Dispatch(k, "arrivals")

\* Mutant: the saved arrival is trusted.
ResumeUnchecked(k) == Dispatch(k, "arrivals")

_resume(k) == IF Authenticated(k) THEN Dispatch(k, "arrivals") ELSE Drop(k)

\* A row that is dropped may have its reply on its way.
TakeArrival ==
  /\ pc = "arrivals"
  /\ \E w \in todo :
       /\ todo' = todo \ {w}
       /\ IF w[2] = "queued" THEN _receive(w[1])
          ELSE IF w[1] = Welcome THEN Skip
          ELSE _resume(w[1])
  /\ crossed' = crossed \union
       {k \in Keys : rows[k].state \in {"outbox", "uncertain"} /\ rows'[k].state = "done"}
  /\ UNCHANGED <<process, flight, external, channel, posted, unsure>>

ArrivalsDone ==
  /\ pc = "arrivals"
  /\ todo = {}
  /\ pc' = "sleep"
  /\ UNCHANGED <<rows, process, todo, cur, live, flight, external, channel, history>>

-----------------------------------------------------------------------------
(* send(), called by the gateway's turns and by whatever else it runs.     *)

PutAndPost(k, b) ==
  /\ rows' = put(rows, k, "outbox", b)
  /\ flight' = flight \union {<<k, b>>}
  /\ PostLeaves(k, b)
  /\ UNCHANGED <<process, poll, live, external, channel, unsure, begun, crossed>>

\* Mutants: the state of the row is not, or not fully, consulted.
SendAgain(k, b) ==
  /\ up /\ k \in live
  /\ rows[k].state \in {"processing", "outbox"}
  /\ PutAndPost(k, b)

SendLate(k, b) ==
  /\ up /\ k \in live
  /\ rows[k].state \in {"processing", "failed"}
  /\ PutAndPost(k, b)

\* The reply of a turn: accepted only while the ledger says "processing".
Send(k, b) ==
  /\ up
  /\ k \in live
  /\ rows[k].state = "processing"
  /\ PutAndPost(k, b)

WelcomePending ==
  /\ rows[Welcome].state # "absent"
  /\ \/ pc = "turn" /\ cur[1] = Welcome
     \/ ~channel.welcomed /\ rows[Welcome].state \in {"processing", "outbox", "uncertain"}

\* Mutant: the pending welcome takes the text whatever became of it.
SendUnthreadedUnchecked(n, b) ==
  /\ up
  /\ IF WelcomePending
     THEN PutAndPost(Welcome, b)
     ELSE rows[n].state = "absent" /\ PutAndPost(n, b)

\* Text without reply_to is the pending welcome's, or a notification.
SendUnthreaded(n, b) ==
  /\ up
  /\ IF WelcomePending
     THEN rows[Welcome].state = "processing" /\ PutAndPost(Welcome, b)
     ELSE rows[n].state = "absent" /\ PutAndPost(n, b)

SendReturns ==
  /\ \E w \in flight :
       /\ Answered(w[1], w[2])
       /\ flight' = flight \ {w}
  /\ UNCHANGED <<process, poll, live, external, posted, begun, crossed>>

-----------------------------------------------------------------------------
(* The clock, the mailbox and the platform.                                *)

RetryTimeReached(k) ==
  /\ rows[k].state \in {"queued", "outbox", "uncertain"}
  /\ ~rows[k].ready
  /\ rows' = [rows EXCEPT ![k].ready = TRUE]
  /\ UNCHANGED <<process, poll, live, flight, external, channel, history>>

TurnGoesStale(k) ==
  /\ rows[k].state = "processing"
  /\ ~rows[k].stale
  /\ rows' = [rows EXCEPT ![k].stale = TRUE]
  /\ UNCHANGED <<process, poll, live, flight, external, channel, history>>

MailArrives(m) ==
  /\ m \notin mail
  /\ mail' = mail \union {m}
  /\ UNCHANGED <<rows, process, poll, live, flight, plat, owner, channel, history>>

OwnerChanges ==
  /\ owner' \in Owners \ {owner}
  /\ UNCHANGED <<rows, process, poll, live, flight, plat, mail, channel, history>>

\* The platform submits a key at most once, unless it knows that it failed.
PlatformSubmits(k) ==
  /\ \E w \in flight \union {cur} : w[1] = k /\ w[2] # NoBody
  /\ plat[k] \in {"none", "failed"}
  /\ plat' \in {[plat EXCEPT ![k] = r] : r \in {"sent", "unknown"}}
  /\ UNCHANGED <<rows, process, poll, live, flight, mail, owner, channel, history>>

PlatformReconciles(k) ==
  /\ plat[k] = "unknown"
  /\ plat' \in {[plat EXCEPT ![k] = r] : r \in {"sent", "failed"}}
  /\ UNCHANGED <<rows, process, poll, live, flight, mail, owner, channel, history>>

-----------------------------------------------------------------------------
PollTask ==
  \/ PollWakes \/ LookupReturns \/ LookupsDone
  \/ PollPosts \/ PollFindsNoPayload \/ PollPostReturns \/ DeliveriesDone
  \/ FetchMessages \/ FetchFails \/ TakeArrival \/ ArrivalsDone \/ TurnWaitEnds

Gateway ==
  \/ \E k \in Turns, b \in Bodies : Send(k, b)
  \/ \E n \in Notifications, b \in Bodies : SendUnthreaded(n, b)
  \/ SendReturns

Environment ==
  \/ Connect \/ Stop
  \/ \E k \in Keys : RetryTimeReached(k) \/ TurnGoesStale(k)
  \/ \E m \in Messages : MailArrives(m)
  \/ OwnerChanges
  \/ \E k \in Keys : PlatformSubmits(k) \/ PlatformReconciles(k)

Next == PollTask \/ Gateway \/ Environment

\* The event loop runs the poll task; requests are answered or time out;
\* clocks advance; the mailbox cannot fail on every round forever.
Fairness ==
  /\ WF_vars(Connect)
  /\ WF_vars(PollTask)
  /\ SF_vars(FetchMessages)
  /\ WF_vars(SendReturns)
  /\ \A k \in Keys : WF_vars(RetryTimeReached(k)) /\ WF_vars(TurnGoesStale(k))

Spec     == Init /\ [][Next]_vars
FairSpec == Spec /\ Fairness
=============================================================================
