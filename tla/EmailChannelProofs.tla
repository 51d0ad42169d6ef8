------------------------- MODULE EmailChannelProofs -------------------------
(* Proofs of the safety properties of EmailChannel: the ledger's operators *)
(* first, then one lemma per invariant with one step per action.           *)
EXTENDS EmailChannelProps, TLAPS

-----------------------------------------------------------------------------
(* The ledger.                                                             *)

\* Turns, notices and notifications are keys, and no notice is a turn.
LEMMA KeysOf ==
  /\ Turns \subseteq Keys
  /\ Welcome \in Turns
  /\ \A k \in Turns : NoticeOf(k) \in Keys \ Turns
  /\ \A n \in Notifications : n \in Keys \ Turns
BY KeysAssumption DEF Keys, Turns, Notices

\* An upsert writes one row and leaves the others.
LEMMA PutRow ==
  ASSUME NEW t \in [Keys -> Row], NEW k \in Keys, NEW s \in States,
         NEW b \in Texts \union {NoBody}
  PROVE  /\ put(t, k, s, b) \in [Keys -> Row]
         /\ put(t, k, s, b)[k].state = s
         /\ put(t, k, s, b)[k].body = b
         /\ put(t, k, s, b)[k].turns = t[k].turns
         /\ put(t, k, s, b)[k].attempts = t[k].attempts
         /\ \A x \in Keys \ {k} : put(t, k, s, b)[x] = t[x]
<1>1. t[k] \in Row
  OBVIOUS
<1>2. [t[k] EXCEPT !.state = s, !.body = b, !.stale = FALSE] \in Row
  BY <1>1 DEF Row
<1>3. put(t, k, s, b) = [t EXCEPT ![k] = [@ EXCEPT !.state = s, !.body = b, !.stale = FALSE]]
  BY <1>1 DEF put, Row
<1>4. put(t, k, s, b)[k] = [t[k] EXCEPT !.state = s, !.body = b, !.stale = FALSE]
  BY <1>3
<1> QED
  BY <1>1, <1>2, <1>3, <1>4 DEF Row

\* A start charges the turn and forgets its text.
LEMMA BeginRow ==
  ASSUME NEW t \in [Keys -> Row], NEW k \in Keys
  PROVE  /\ begin(t, k) \in [Keys -> Row]
         /\ begin(t, k)[k].state = "processing"
         /\ begin(t, k)[k].body = NoBody
         /\ begin(t, k)[k].turns = t[k].turns + 1
         /\ begin(t, k)[k].attempts = t[k].attempts
         /\ \A x \in Keys \ {k} : begin(t, k)[x] = t[x]
<1> DEFINE u == begin(t, k)
<1>0. u = [t EXCEPT ![k] = [t[k] EXCEPT !.state = "processing", !.turns = @ + 1,
                                        !.body = NoBody, !.stale = FALSE]]
  BY DEF begin
<1> HIDE DEF u
<1>1. u[k] = [t[k] EXCEPT !.state = "processing", !.turns = @ + 1,
                                        !.body = NoBody, !.stale = FALSE]
  BY <1>0
<1>2. t[k] \in Row
  OBVIOUS
<1>3. u[k] \in Row
  <2> DEFINE n == t[k].turns + 1
  <2>1. n \in Nat
    BY <1>2 DEF Row
  <2>2. u[k] = [t[k] EXCEPT !.state = "processing", !.turns = n,
                            !.body = NoBody, !.stale = FALSE]
    BY <1>1
  <2> HIDE DEF n
  <2> QED
    BY <1>2, <2>1, <2>2 DEF Row, States
<1>4. u \in [Keys -> Row]
  BY <1>0, <1>1, <1>3
<1>5. \A x \in Keys \ {k} : u[x] = t[x]
  BY <1>0
<1>6. /\ u[k].state = "processing" /\ u[k].body = NoBody
      /\ u[k].turns = t[k].turns + 1 /\ u[k].attempts = t[k].attempts
  BY <1>1, <1>2 DEF Row
<1> QED BY <1>4, <1>5, <1>6 DEF u

\* A quarantine touches the turn and its notice, which is created at most once.
LEMMA QuarantineRow ==
  ASSUME NEW t \in [Keys -> Row], NEW k \in Turns
  PROVE  LET n == NoticeOf(k)  u == quarantine(t, k) IN
         /\ u \in [Keys -> Row]
         /\ u[k].state = "failed" /\ u[k].body = t[k].body /\ u[k].turns = t[k].turns
         /\ u[n] = IF t[n].state = "absent"
                   THEN [Absent EXCEPT !.state = "outbox", !.body = NoticeBody]
                   ELSE t[n]
         /\ \A x \in Keys \ {k, n} : u[x] = t[x]
<1> DEFINE n == NoticeOf(k)
           u == quarantine(t, k)
<1>1. n \in Keys /\ k \in Keys /\ k # n
  BY KeysOf
<1> HIDE DEF n
<1>2. u = [t EXCEPT ![k] = [t[k] EXCEPT !.state = "failed", !.error = "exhausted", !.stale = FALSE],
                    ![n] = IF t[n].state = "absent"
                           THEN [Absent EXCEPT !.state = "outbox", !.body = NoticeBody]
                           ELSE t[n]]
  BY <1>1 DEF quarantine, n
<1> HIDE DEF u
<1>2a. t[k] \in Row
  BY <1>1
<1>3. u \in [Keys -> Row]
  <2>1. [t[k] EXCEPT !.state = "failed", !.error = "exhausted", !.stale = FALSE] \in Row
    BY <1>2a DEF Row, States, Errors
  <2>2. [Absent EXCEPT !.state = "outbox", !.body = NoticeBody] \in Row
    BY DEF Row, States, Errors, Absent, Texts
  <2> QED BY <1>1, <1>2, <2>1, <2>2
<1>4. u[k].state = "failed" /\ u[k].body = t[k].body /\ u[k].turns = t[k].turns
  BY <1>1, <1>2, <1>2a DEF Row
<1>5. u[n] = IF t[n].state = "absent"
             THEN [Absent EXCEPT !.state = "outbox", !.body = NoticeBody]
             ELSE t[n]
  BY <1>1, <1>2
<1>6. \A x \in Keys \ {k, n} : u[x] = t[x]
  BY <1>1, <1>2
<1> QED BY <1>3, <1>4, <1>5, <1>6 DEF n, u

\* A failed delivery leaves the text, and the turns, as they are.
LEMMA AttemptRow ==
  ASSUME NEW t \in [Keys -> Row], NEW k \in Keys, NEW terminal \in BOOLEAN
  PROVE  LET u == delivery_attempt(t, k, terminal) IN
         /\ u \in [Keys -> Row]
         /\ u[k].state \in {"outbox", "failed"}
         /\ u[k].body = t[k].body
         /\ u[k].turns = t[k].turns
         /\ u[k].state = "outbox" => u[k].attempts < MaxAttempts
         /\ \A x \in Keys \ {k} : u[x] = t[x]
<1> DEFINE u == delivery_attempt(t, k, terminal)
<1>1. u \in [Keys -> Row]
  <2> DEFINE n == t[k].attempts + 1
             s == IF terminal \/ n >= MaxAttempts THEN "failed" ELSE "outbox"
  <2>1. t[k] \in Row
    OBVIOUS
  <2>2. n \in Nat /\ s \in States
    BY <2>1 DEF Row, States
  <2>3. u = [t EXCEPT ![k] = [t[k] EXCEPT !.attempts = n, !.error = "delivery",
                                          !.state = s, !.ready = FALSE]]
    BY DEF delivery_attempt
  <2> HIDE DEF n, s, u
  <2>4. [t[k] EXCEPT !.attempts = n, !.error = "delivery",
                     !.state = s, !.ready = FALSE] \in Row
    BY <2>1, <2>2 DEF Row, Errors
  <2> QED
    BY <2>3, <2>4
<1>2. u[k].state \in {"outbox", "failed"} /\  u[k].body = t[k].body /\ u[k].turns = t[k].turns
  BY DEF delivery_attempt, Row
<1>3. \A x \in Keys \ {k} : u[x] = t[x]
  BY DEF delivery_attempt
<1>4. u[k].state = "outbox" => u[k].attempts < MaxAttempts
  <2>1. t[k].attempts + 1 \in Nat
    BY DEF Row
  <2>2. u[k].attempts = t[k].attempts + 1
    BY DEF delivery_attempt, Row
  <2>3. u[k].state = "outbox" => ~(t[k].attempts + 1 >= MaxAttempts)
    BY DEF delivery_attempt, Row
  <2> QED
    BY <2>1, <2>2, <2>3, LimitsAssumption
<1> QED BY <1>1, <1>2, <1>3, <1>4

\* Putting a lookup off moves its time.
LEMMA DeferRow ==
  ASSUME NEW t \in [Keys -> Row], NEW k \in Keys
  PROVE  /\ defer_lookup(t, k) \in [Keys -> Row]
         /\ defer_lookup(t, k)[k].state = t[k].state
         /\ defer_lookup(t, k)[k].body = t[k].body
         /\ defer_lookup(t, k)[k].turns = t[k].turns
         /\ defer_lookup(t, k)[k].attempts = t[k].attempts
         /\ \A x \in Keys \ {k} : defer_lookup(t, k)[x] = t[x]
BY DEF defer_lookup, Row

\* Ingesting queues what is not in the table, and changes nothing else.
LEMMA IngestRow ==
  ASSUME NEW t \in [Keys -> Row], NEW ids \in SUBSET Keys
  PROVE  /\ ingest(t, ids) \in [Keys -> Row]
         /\ \A x \in Keys : ingest(t, ids)[x] =
              IF x \in ids /\ t[x].state = "absent"
              THEN [Absent EXCEPT !.state = "queued"] ELSE t[x]
BY DEF ingest, Row, States, Errors, Absent

\* Every operator returns a table.
LEMMA TablesOf ==
  ASSUME NEW t \in [Keys -> Row]
  PROVE  /\ \A k \in Keys, s \in States, b \in Texts \union {NoBody} :
              put(t, k, s, b) \in [Keys -> Row]
         /\ \A k \in Turns : begin(t, k) \in [Keys -> Row]
         /\ \A k \in Turns : quarantine(t, k) \in [Keys -> Row]
         /\ \A k \in Keys, b \in BOOLEAN : delivery_attempt(t, k, b) \in [Keys -> Row]
         /\ \A k \in Keys : defer_lookup(t, k) \in [Keys -> Row]
         /\ \A ids \in SUBSET Keys : ingest(t, ids) \in [Keys -> Row]
BY KeysOf, PutRow, BeginRow, QuarantineRow, AttemptRow, DeferRow, IngestRow

-----------------------------------------------------------------------------
(* Type correctness.                                                       *)

\* Only a turn is ever waiting for the model.
OnlyTurnsRun ==
  \A k \in Keys : rows[k].state \in {"queued", "processing"} => k \in Turns

TypeInv == TypeOK /\ OnlyTurnsRun

\* A row that is written for a delivery, or is settled, is not run.
LEMMA PutKeepsRunning ==
  ASSUME TypeInv, NEW k \in Keys, NEW b \in Texts \union {NoBody},
         NEW s \in {"outbox", "uncertain", "done"}, rows' = put(rows, k, s, b)
  PROVE  rows' \in [Keys -> Row] /\ OnlyTurnsRun'
<1>1. rows \in [Keys -> Row] /\ s \in States
  BY DEF TypeInv, TypeOK, States
<1>2. rows' \in [Keys -> Row] /\ rows'[k].state = s /\ \A x \in Keys \ {k} : rows'[x] = rows[x]
  BY <1>1, PutRow
<1> QED
  BY <1>2 DEF TypeInv, OnlyTurnsRun

\* What an answer writes to the ledger, the channel and the history is typed.
LEMMA AnsweredTypes ==
  ASSUME TypeInv, NEW k \in Keys, NEW b \in Texts \union {NoBody}, Answered(k, b)
  PROVE  /\ rows' \in [Keys -> Row] /\ OnlyTurnsRun'
         /\ channel' \in [owner : Owners, welcomed : BOOLEAN]
         /\ unsure' \subseteq Keys
<1>1. CASE Accepted(k)
  <2>1. rows' \in [Keys -> Row] /\ OnlyTurnsRun'
    BY <1>1, PutKeepsRunning DEF Accepted
  <2> QED
    BY <1>1, <2>1 DEF Accepted, MarkWelcomed, TypeInv, TypeOK
<1>2. CASE AcceptanceUnknown(k, b)
  <2> DEFINE t == put(rows, k, "uncertain", b)
  <2>0. rows \in [Keys -> Row] /\ "uncertain" \in States
    BY DEF TypeInv, TypeOK, States
  <2>1. /\ t \in [Keys -> Row]
        /\ t[k].state = "uncertain"
        /\ \A x \in Keys \ {k} : t[x] = rows[x]
    BY <2>0, PutRow
  <2>2. rows' = defer_lookup(t, k)
    BY <1>2 DEF AcceptanceUnknown
  <2> HIDE DEF t
  <2>3. /\ rows' \in [Keys -> Row]
        /\ rows'[k].state = "uncertain"
        /\ \A x \in Keys \ {k} : rows'[x] = rows[x]
    BY <2>1, <2>2, DeferRow
  <2> QED
    BY <1>2, <2>3 DEF AcceptanceUnknown, TypeInv, TypeOK, OnlyTurnsRun
<1>3. CASE Refused(k)
  <2>1. PICK terminal \in BOOLEAN : rows' = delivery_attempt(rows, k, terminal)
    BY <1>3 DEF Refused
  <2>2. /\ rows' \in [Keys -> Row]
        /\ rows'[k].state \in {"outbox", "failed"}
        /\ \A x \in Keys \ {k} : rows'[x] = rows[x]
    BY <2>1, AttemptRow DEF TypeInv, TypeOK
  <2> QED
    BY <1>3, <2>2 DEF Refused, TypeInv, TypeOK, OnlyTurnsRun
<1> QED
  BY <1>1, <1>2, <1>3 DEF Answered

\* A dispatched turn is begun and waited for, or quarantined and passed over.
LEMMA DispatchTypes ==
  ASSUME TypeInv, NEW k \in Turns, NEW next, Dispatch(k, next)
  PROVE  /\ rows' \in [Keys -> Row] /\ OnlyTurnsRun'
         /\ live' \subseteq Turns
         /\ begun' \in [Keys -> Nat]
         /\ \/ pc' = "turn" /\ cur' \in Turns \X {NoBody}
            \/ pc' = next /\ cur' = cur
<1> k \in Keys
  BY KeysOf
<1>1. CASE MayStartTurn(rows, k) /\ BudgetLeft(rows, k)
  <2>1. /\ rows' \in [Keys -> Row]
        /\ \A x \in Keys \ {k} : rows'[x] = rows[x]
    BY <1>1, BeginRow DEF Dispatch, TypeInv, TypeOK
  <2>2. OnlyTurnsRun'
    BY <2>1 DEF TypeInv, OnlyTurnsRun
  <2>3. cur' = <<k, NoBody>> /\ pc' = "turn"
    BY <1>1 DEF Dispatch
  <2>4. begun' \in [Keys -> Nat] /\ live' \subseteq Turns
    BY <1>1 DEF Dispatch, TypeInv, TypeOK
  <2> QED
    BY <1>1, <2>1, <2>2, <2>3, <2>4 DEF Dispatch
<1>2. CASE MayStartTurn(rows, k) /\ ~BudgetLeft(rows, k)
  <2> DEFINE n == NoticeOf(k)
  <2>1. n \in Keys
    BY KeysOf
  <2>2. /\ rows' \in [Keys -> Row]
        /\ rows'[k].state = "failed"
        /\ rows'[n] = IF rows[n].state = "absent"
                      THEN [Absent EXCEPT !.state = "outbox", !.body = NoticeBody]
                      ELSE rows[n]
        /\ \A x \in Keys \ {k, n} : rows'[x] = rows[x]
    BY <1>2, QuarantineRow DEF Dispatch, TypeInv, TypeOK
  <2> HIDE DEF n
  <2>3. rows'[n].state \in {"queued", "processing"} => n \in Turns
    BY <2>1, <2>2 DEF TypeInv, OnlyTurnsRun, Absent
  <2>4. OnlyTurnsRun'
    BY <2>2, <2>3 DEF TypeInv, OnlyTurnsRun
  <2> QED
    BY <1>2, <2>2, <2>4 DEF Dispatch, TypeInv, TypeOK
<1>3. CASE ~MayStartTurn(rows, k)
  BY <1>3 DEF Dispatch, TypeInv, TypeOK, OnlyTurnsRun
<1> QED
  BY <1>1, <1>2, <1>3

\* The invariant holds at first.
LEMMA TypeInit == Init => TypeInv
<1> SUFFICES ASSUME Init PROVE TypeInv
  OBVIOUS
<1>1. EmptyTable \in [Keys -> Row] /\ \A k \in Keys : EmptyTable[k].state = "absent"
  BY DEF EmptyTable, Absent, Row, States, Errors
<1>2. /\ rows \in [Keys -> Row] /\ OnlyTurnsRun
      /\ plat \in [Keys -> Receipts]
      /\ posted \in [Keys -> SUBSET Texts]
      /\ begun \in [Keys -> Nat]
  BY <1>1 DEF Init, OnlyTurnsRun, Receipts
<1>3. channel \in [owner : Owners, welcomed : BOOLEAN]
  BY FlagsAssumption DEF Init
<1>4. stops \in 0..MaxStops /\ pc \in PollStates
  BY FlagsAssumption DEF Init, PollStates
<1> QED
  BY <1>2, <1>3, <1>4 DEF Init, TypeInv, TypeOK

\* The platform's status names an owner and says whether the welcome was sent.
LEMMA StatusType ==
  ASSUME TypeOK
  PROVE  Status \in [owner : Owners, welcomed : BOOLEAN]
<1>1. Welcomed \in BOOLEAN
  BY Zenon DEF Welcomed
<1> QED
  BY <1>1 DEF Status, TypeOK

\* What a delivery query returns is a set of deliveries, each with its row's text.
LEMMA QueryTypes ==
  ASSUME NEW t \in [Keys -> Row], \A k \in Keys :
            t[k].state \in {"queued", "processing"} => k \in Turns
  PROVE  /\ pending(t) \subseteq Deliveries
         /\ uncertain(t) \subseteq Deliveries
         /\ arrivals(t) \subseteq Arrivals
<1>1. \A k \in Keys : t[k].body \in Texts \union {NoBody}
  BY DEF Row
<1>2. pending(t) \subseteq Deliveries /\ uncertain(t) \subseteq Deliveries
  BY <1>1 DEF pending, uncertain, Deliveries
<1>3. arrivals(t) \subseteq Arrivals
  BY DEF arrivals, Arrivals
<1> QED
  BY <1>2, <1>3

\* Every step keeps the types.
LEMMA TypeStep == TypeInv /\ [Next]_vars => TypeInv'
<1> SUFFICES ASSUME TypeInv, [Next]_vars PROVE TypeInv'
  OBVIOUS
<1> USE DEF TypeInv
<1>1. CASE Connect
  BY <1>1, StatusType DEF Connect, TypeOK, OnlyTurnsRun, PollStates, external, history
<1>2. CASE Stop
  <2>1. stops' \in 0..MaxStops
    BY <1>2, FlagsAssumption DEF Stop, TypeOK
  <2> QED
    BY <1>2, <2>1 DEF Stop, TypeOK, OnlyTurnsRun, PollStates, external, history
<1>3. CASE PollWakes
  <2>1. uncertain(rows) \subseteq Deliveries
    BY QueryTypes DEF TypeOK, OnlyTurnsRun
  <2> QED
    BY <1>3, <2>1, StatusType DEF PollWakes, TypeOK, OnlyTurnsRun, PollStates,
       process, external, history
<1>4. CASE LookupReturns
  <2>1. PICK w \in todo : 
          /\ todo' = todo \ {w}
          /\ \/ Accepted(w[1])
             \/ /\ rows' = put(rows, w[1], "outbox", w[2])
                /\ unsure' = unsure \ {w[1]}
                /\ UNCHANGED channel
             \/ /\ rows' = IF rows[w[1]].state = "uncertain" THEN defer_lookup(rows, w[1])
                           ELSE rows
                /\ UNCHANGED <<channel, unsure>>
    BY <1>4 DEF LookupReturns
  <2>2. /\ pc = "lookup"
        /\ UNCHANGED <<process, pc, cur, live, flight, external, posted, begun, crossed>>
    BY <1>4 DEF LookupReturns
  <2>3. w[1] \in Keys /\ w[2] \in Texts \union {NoBody}
    BY <2>2 DEF TypeOK, Deliveries
  <2>4. /\ rows' \in [Keys -> Row] /\ OnlyTurnsRun'
        /\ channel' \in [owner : Owners, welcomed : BOOLEAN]
        /\ unsure' \subseteq Keys
    <3>1. CASE Accepted(w[1])
      BY <3>1, <2>3, AnsweredTypes DEF Answered
    <3>2. CASE /\ rows' = put(rows, w[1], "outbox", w[2])
               /\ unsure' = unsure \ {w[1]}
               /\ UNCHANGED channel
      <4>1. rows' \in [Keys -> Row] /\ OnlyTurnsRun'
        BY <3>2, <2>3, PutKeepsRunning
      <4> QED
        BY <3>2, <4>1 DEF TypeOK
    <3>3. CASE /\ rows' = IF rows[w[1]].state = "uncertain" THEN defer_lookup(rows, w[1])
                          ELSE rows
               /\ UNCHANGED <<channel, unsure>>
      <4>1. rows \in [Keys -> Row]
        BY DEF TypeOK
      <4>2. rows' \in [Keys -> Row] /\ OnlyTurnsRun'
        BY <3>3, <2>3, <4>1, DeferRow DEF OnlyTurnsRun
      <4> QED
        BY <3>3, <4>2 DEF TypeOK
    <3> QED
      BY <2>1, <3>1, <3>2, <3>3
  <2> QED
    BY <2>1, <2>2, <2>4 DEF TypeOK, process, external
<1>5. CASE LookupsDone
  <2>1. pending(rows) \subseteq Deliveries
    BY QueryTypes DEF TypeOK, OnlyTurnsRun
  <2> QED
    BY <1>5, <2>1 DEF LookupsDone, TypeOK, OnlyTurnsRun, PollStates, process, external, history
<1>6. CASE PollPosts
  <2>1. PICK w \in todo : /\ w[2] # NoBody
                         /\ todo' = todo \ {w}
                         /\ cur' = w
                         /\ PostLeaves(w[1], w[2])
    BY <1>6 DEF PollPosts
  <2>2. w \in Deliveries /\ w[1] \in Keys /\ w[2] \in Texts
    BY <1>6, <2>1 DEF PollPosts, TypeOK, Deliveries
  <2>3. posted' \in [Keys -> SUBSET Texts]
    BY <2>1, <2>2 DEF PostLeaves, TypeOK
  <2> QED
    BY <1>6, <2>1, <2>2, <2>3 DEF PollPosts, TypeOK, OnlyTurnsRun, process, external
<1>7. CASE PollFindsNoPayload
  BY <1>7 DEF PollFindsNoPayload, TypeOK, OnlyTurnsRun, PollStates, process, external, history
<1>8. CASE PollPostReturns
  <2>1. cur[1] \in Keys /\ cur[2] \in Texts \union {NoBody}
    BY <1>8 DEF PollPostReturns, TypeOK, Deliveries
  <2>2. /\ rows' \in [Keys -> Row] /\ OnlyTurnsRun'
        /\ channel' \in [owner : Owners, welcomed : BOOLEAN]
        /\ unsure' \subseteq Keys
    BY <1>8, <2>1, AnsweredTypes DEF PollPostReturns
  <2> QED
    BY <1>8, <2>2 DEF PollPostReturns, TypeOK, process, external
<1>9. CASE DeliveriesDone
  <2>1. todo = {} /\ todo' = {} /\ cur = None
    BY <1>9 DEF DeliveriesDone
  <2>2. /\ rows' \in [Keys -> Row] /\ OnlyTurnsRun'
        /\ live' \subseteq Turns
        /\ begun' \in [Keys -> Nat]
        /\ \/ pc' = "turn" /\ cur' \in Turns \X {NoBody}
           \/ pc' = "fetch" /\ cur' = None
    <3>1. CASE channel.welcomed \/ Underway(Welcome)
      BY <1>9, <2>1, <3>1 DEF DeliveriesDone, TypeOK, OnlyTurnsRun
    <3>2. CASE ~(channel.welcomed \/ Underway(Welcome))
      BY <1>9, <2>1, <3>2, KeysOf, DispatchTypes DEF DeliveriesDone
    <3> QED
      BY <3>1, <3>2
  <2> QED
    BY <1>9, <2>1, <2>2 DEF DeliveriesDone, TypeOK, PollStates, process, external
<1>10. CASE FetchMessages
  <2>1. mail \in SUBSET Keys
    BY DEF TypeOK, Keys, Turns
  <2>2. rows' \in [Keys -> Row] /\ OnlyTurnsRun'
    <3>1. /\ rows' \in [Keys -> Row]
          /\ \A x \in Keys : rows'[x].state # rows[x].state => x \in mail
      BY <1>10, <2>1, IngestRow DEF FetchMessages, TypeOK
    <3> QED
      BY <3>1 DEF TypeOK, OnlyTurnsRun, Turns
  <2>3. arrivals(rows') \subseteq Arrivals
    BY <2>2, QueryTypes DEF OnlyTurnsRun
  <2> QED
    BY <1>10, <2>2, <2>3 DEF FetchMessages, TypeOK, PollStates, process, external, history
<1>11. CASE FetchFails
  <2>1. arrivals(rows) \subseteq Arrivals
    BY QueryTypes DEF TypeOK, OnlyTurnsRun
  <2> QED
    BY <1>11, <2>1 DEF FetchFails, TypeOK, OnlyTurnsRun, PollStates, process, external, history
<1>12. CASE TakeArrival
  <2>1. PICK w \in todo :
          /\ todo' = todo \ {w}
          /\ IF w[2] = "queued" THEN _receive(w[1])
             ELSE IF w[1] = Welcome THEN Skip
             ELSE _resume(w[1])
    BY <1>12 DEF TakeArrival
  <2>2. w[1] \in Turns /\ w[1] \in Keys
    BY <1>12, KeysOf DEF TakeArrival, TypeOK, Arrivals
  <2> pc = "arrivals" /\ cur = None
    BY <1>12 DEF TakeArrival, TypeOK
  <2>3. /\ rows' \in [Keys -> Row] /\ OnlyTurnsRun'
        /\ live' \subseteq Turns
        /\ begun' \in [Keys -> Nat]
        /\ \/ pc' = "turn" /\ cur' \in Turns \X {NoBody}
           \/ pc' = "arrivals" /\ cur' = None
    <3>1. CASE Skip
      BY <1>12, <3>1 DEF TakeArrival, Skip, TypeOK, OnlyTurnsRun
    <3>2. CASE Drop(w[1])
      <4>1. rows' \in [Keys -> Row] /\ OnlyTurnsRun'
        BY <3>2, <2>2, PutKeepsRunning DEF Drop
      <4> QED
        BY <1>12, <3>2, <4>1 DEF TakeArrival, Drop, TypeOK
    <3>3. CASE Dispatch(w[1], "arrivals")
      BY <3>3, <2>2, DispatchTypes
    <3> QED
      BY <2>1, <3>1, <3>2, <3>3 DEF _receive, _resume
  <2> QED
    BY <1>12, <2>1, <2>3 DEF TakeArrival, TypeOK, PollStates, process, external
<1>13. CASE ArrivalsDone
  BY <1>13 DEF ArrivalsDone, TypeOK, OnlyTurnsRun, PollStates, process, external, history
<1>14. CASE TurnWaitEnds
  BY <1>14 DEF TurnWaitEnds, TypeOK, OnlyTurnsRun, PollStates, process, external, history
<1>15. ASSUME NEW k \in Keys, NEW b \in Bodies, PutAndPost(k, b) PROVE TypeInv'
  <2>1. b \in Texts
    BY DEF Texts
  <2>2. rows' \in [Keys -> Row] /\ OnlyTurnsRun'
    BY <1>15, <2>1, PutKeepsRunning DEF PutAndPost
  <2>3. posted' \in [Keys -> SUBSET Texts] /\ flight' \subseteq Keys \X Texts
    BY <1>15, <2>1 DEF PutAndPost, PostLeaves, TypeOK
  <2> QED
    BY <1>15, <2>2, <2>3 DEF PutAndPost, TypeOK, process, poll, external
<1>16. ASSUME NEW k \in Turns, NEW b \in Bodies, Send(k, b) PROVE TypeInv'
  BY <1>15, <1>16, KeysOf DEF Send
<1>17. ASSUME NEW n \in Notifications, NEW b \in Bodies, SendUnthreaded(n, b) PROVE TypeInv'
  BY <1>15, <1>17, KeysOf DEF SendUnthreaded
<1>18. CASE SendReturns
  <2>1. PICK w \in flight : Answered(w[1], w[2]) /\ flight' = flight \ {w}
    BY <1>18 DEF SendReturns
  <2>2. w[1] \in Keys /\ w[2] \in Texts \union {NoBody}
    BY DEF TypeOK
  <2>3. /\ rows' \in [Keys -> Row] /\ OnlyTurnsRun'
        /\ channel' \in [owner : Owners, welcomed : BOOLEAN]
        /\ unsure' \subseteq Keys
    BY <2>1, <2>2, AnsweredTypes
  <2> QED
    BY <1>18, <2>1, <2>3 DEF SendReturns, TypeOK, process, poll, external
<1>19. ASSUME NEW k \in Keys, RetryTimeReached(k) \/ TurnGoesStale(k) PROVE TypeInv'
  <2>1. /\ rows' \in [Keys -> Row]
        /\ \A x \in Keys : rows'[x].state = rows[x].state
    <3>1. rows \in [Keys -> Row] /\ rows[k] \in Row
      BY DEF TypeOK
    <3>2. /\ [rows[k] EXCEPT !.ready = TRUE] \in Row
          /\ [rows[k] EXCEPT !.stale = TRUE] \in Row
          /\ [rows[k] EXCEPT !.ready = TRUE].state = rows[k].state
          /\ [rows[k] EXCEPT !.stale = TRUE].state = rows[k].state
      BY <3>1 DEF Row
    <3>3. \/ rows' = [rows EXCEPT ![k] = [rows[k] EXCEPT !.ready = TRUE]]
          \/ rows' = [rows EXCEPT ![k] = [rows[k] EXCEPT !.stale = TRUE]]
      BY <1>19 DEF RetryTimeReached, TurnGoesStale
    <3> QED
      BY <3>1, <3>2, <3>3
  <2> QED
    BY <1>19, <2>1 DEF RetryTimeReached, TurnGoesStale, TypeOK, OnlyTurnsRun,
       process, poll, external, history
<1>20. ASSUME NEW m \in Messages, MailArrives(m) PROVE TypeInv'
  BY <1>20 DEF MailArrives, TypeOK, OnlyTurnsRun, process, poll, history
<1>21. CASE OwnerChanges
  BY <1>21 DEF OwnerChanges, TypeOK, OnlyTurnsRun, process, poll, history
<1>22. ASSUME NEW k \in Keys, PlatformSubmits(k) \/ PlatformReconciles(k) PROVE TypeInv'
  BY <1>22 DEF PlatformSubmits, PlatformReconciles, TypeOK, OnlyTurnsRun, Receipts,
     process, poll, history
<1>23. CASE UNCHANGED vars
  BY <1>23 DEF vars, TypeOK, OnlyTurnsRun
<1> QED
  BY <1>1, <1>2, <1>3, <1>4, <1>5, <1>6, <1>7, <1>8, <1>9, <1>10, <1>11, <1>12,
     <1>13, <1>14, <1>16, <1>17, <1>18, <1>19, <1>20, <1>21, <1>22, <1>23
     DEF Next, PollTask, Gateway, Environment

\* Every reachable state is typed.
THEOREM TypeCorrect == Spec => []TypeOK
<1>1. TypeInv => TypeOK
  BY DEF TypeInv
<1> QED
  BY TypeInit, TypeStep, <1>1, PTL DEF Spec
-----------------------------------------------------------------------------
(* One text per key, and never both a reply and a notice.                  *)

\* Deliveries under way, or read from the ledger to be made.
Carried == {w \in Deliveries : \/ w \in flight
                               \/ pc = "deliver" /\ w = cur
                               \/ pc \in {"lookup", "deliver"} /\ w \in todo}

\* Every text that was, or may yet be, posted under k.
Held(k) == {b \in Texts : b \in posted[k] \/ rows[k].body = b \/ <<k, b>> \in Carried}

Awaiting == {"outbox", "uncertain"}
Final    == Awaiting \union {"done", "failed"}

\* A delivery of k was begun, or is due.
Touched(k) ==
  \/ Held(k) # {}
  \/ \E b \in Texts \union {NoBody} : <<k, b>> \in Carried
  \/ rows[k].state \in Awaiting

\* What no step changes: a touched row does not run again, it has one text, and
\* a turn with a notice is untouched and closed.
Closed(k) == ~Touched(k) /\ rows[k].state \in {"done", "failed"}

OneTextInv ==
  /\ TypeInv
  /\ \A k \in Keys : Touched(k) => rows[k].state \in Final
  /\ \A k \in Keys : \A a, b \in Held(k) : a = b
  /\ \A k \in Turns : rows[NoticeOf(k)].state # "absent" => Closed(k)

\* The three things a step can do to a key.
Keeps(k) ==
  /\ Held(k)' \subseteq Held(k)
  /\ Touched(k)' => Touched(k)
  /\ rows[k].state \in Final => rows'[k].state \in Final
  /\ rows[k].state = "absent" => rows'[k].state = "absent" \/ k \in Turns

Posts(k) ==
  /\ k \notin Notices
  /\ ~Touched(k)
  /\ rows[k].state \notin Final
  /\ rows'[k].state \in Final
  /\ \E b \in Bodies : Held(k)' \subseteq {b} /\ posted'[k] = {b}

Noticed(k) ==
  \E x \in Turns :
    /\ k = NoticeOf(x)
    /\ ~Touched(k)
    /\ rows[k].state = "absent"
    /\ rows'[k].state \in Final
    /\ Held(k)' \subseteq {NoticeBody}
    /\ Closed(x)'

Moves(k) == Keeps(k) \/ Posts(k) \/ Noticed(k)

\* A step keeps a key when its texts come from where they already were.
LEMMA KeepsIf ==
  ASSUME NEW k \in Keys,
         \A b \in Texts : b \in posted'[k] => b \in Held(k),
         \A b \in Texts \union {NoBody} : <<k, b>> \in Carried' =>
            \/ <<k, b>> \in Carried
            \/ rows[k].state \in Awaiting /\ rows[k].body = b,
         rows'[k].body \in {rows[k].body, NoBody} \union Held(k),
         rows'[k].state \in Awaiting => Touched(k),
         rows[k].state \in Final => rows'[k].state \in Final,
         rows[k].state = "absent" => rows'[k].state = "absent" \/ k \in Turns
  PROVE  Keeps(k)
<1>1. Held(k)' \subseteq Held(k)
  BY BodiesAssumption DEF Held
<1>2. Touched(k)' => Touched(k)
  BY <1>1 DEF Touched
<1> QED
  BY <1>1, <1>2 DEF Keeps

\* A step that leaves the row and the history alone, and carries no more.
LEMMA KeepsQuietly ==
  ASSUME NEW k \in Keys, Carried' \subseteq Carried, UNCHANGED posted,
         rows'[k].state = rows[k].state, rows'[k].body = rows[k].body
  PROVE  Keeps(k)
<1>1. \A b \in Texts : b \in posted'[k] => b \in Held(k)
  BY DEF Held
<1>2. rows'[k].state \in Awaiting => Touched(k)
  BY DEF Touched
<1> QED
  BY <1>1, <1>2, KeepsIf

\* The three moves preserve the invariant.
LEMMA MovesSuffice ==
  ASSUME OneTextInv, TypeInv', \A k \in Keys : Moves(k)
  PROVE  OneTextInv'
<1>1. ASSUME NEW k \in Keys, Touched(k)' PROVE rows'[k].state \in Final
  <2>1. CASE Keeps(k)
    BY <1>1, <2>1 DEF Keeps, OneTextInv
  <2> QED
    BY <2>1 DEF Moves, Posts, Noticed
<1>2. ASSUME NEW k \in Keys, NEW a \in Held(k)', NEW b \in Held(k)' PROVE a = b
  BY <1>2 DEF Moves, Keeps, Posts, Noticed, OneTextInv
<1>3. ASSUME NEW k \in Turns, rows'[NoticeOf(k)].state # "absent" PROVE Closed(k)'
  <2> DEFINE n == NoticeOf(k)
  <2>1. n \in Keys /\ k \in Keys /\ n \notin Turns /\ n \in Notices
    BY KeysOf DEF Notices
  <2>2. CASE rows[n].state # "absent"
    <3>1. ~Touched(k) /\ rows[k].state \in {"done", "failed"}
      BY <2>2 DEF OneTextInv, Closed
    <3>2. Keeps(k)
      BY <2>1, <3>1, KeysOf DEF Moves, Posts, Noticed, Final
    <3> QED
      BY <3>1, <3>2 DEF Keeps, Closed, Final, Touched
  <2>3. CASE rows[n].state = "absent"
    <3>1. ~Keeps(n)
      BY <1>3, <2>1, <2>3 DEF Keeps
    <3>2. Noticed(n)
      BY <2>1, <3>1 DEF Moves, Posts
    <3>3. PICK x \in Turns : n = NoticeOf(x) /\ Closed(x)'
      BY <3>2 DEF Noticed
    <3>4. x = k
      BY <3>3 DEF NoticeOf
    <3> QED
      BY <3>3, <3>4
  <2> QED
    BY <2>2, <2>3
<1> QED
  BY <1>1, <1>2, <1>3 DEF OneTextInv
\* A text that a delivery carries is held.
LEMMA CarriedIsHeld ==
  ASSUME NEW k \in Keys, NEW b \in Texts \union {NoBody}, <<k, b>> \in Carried
  PROVE  Touched(k) /\ b \in Held(k) \union {NoBody}
BY DEF Touched, Held

\* Applying the answer of a delivery that is under way.
LEMMA AnsweredMoves ==
  ASSUME OneTextInv, NEW x \in Keys, NEW y \in Texts \union {NoBody},
         <<x, y>> \in Carried, Answered(x, y),
         Carried' \subseteq Carried, UNCHANGED posted
  PROVE  \A k \in Keys : Moves(k)
<1> rows \in [Keys -> Row]
  BY DEF OneTextInv, TypeInv, TypeOK
<1>1. /\ rows'[x].state \in Final
      /\ rows'[x].body \in {rows[x].body, y, NoBody}
      /\ \A k \in Keys \ {x} : rows'[k] = rows[k]
  <2>1. CASE Accepted(x)
    BY <2>1, PutRow DEF Accepted, Final, Awaiting, States
  <2>2. CASE AcceptanceUnknown(x, y)
    <3> DEFINE t == put(rows, x, "uncertain", y)
    <3>1. /\ t \in [Keys -> Row] /\ t[x].state = "uncertain" /\ t[x].body = y
          /\ \A k \in Keys \ {x} : t[k] = rows[k]
      BY PutRow DEF States
    <3>2. rows' = defer_lookup(t, x)
      BY <2>2 DEF AcceptanceUnknown
    <3> HIDE DEF t
    <3> QED
      BY <3>1, <3>2, DeferRow DEF Final, Awaiting
  <2>3. CASE Refused(x)
    <3>1. PICK terminal \in BOOLEAN : rows' = delivery_attempt(rows, x, terminal)
      BY <2>3 DEF Refused
    <3> QED
      BY <3>1, AttemptRow DEF Final, Awaiting
  <2> QED
    BY <2>1, <2>2, <2>3 DEF Answered
<1>2. Touched(x) /\ y \in Held(x) \union {NoBody}
  BY CarriedIsHeld
<1>3. rows[x].state \in Final
  BY <1>2 DEF OneTextInv
<1>4. Keeps(x)
  <2>1. \A b \in Texts : b \in posted'[x] => b \in Held(x)
    BY DEF Held
  <2>2. rows[x].state # "absent"
    BY <1>3 DEF Final, Awaiting
  <2> QED
    BY <1>1, <1>2, <2>1, <2>2, KeepsIf
<1> QED
  BY <1>1, <1>4, KeepsQuietly DEF Moves

\* Dispatching a turn.
LEMMA DispatchMoves ==
  ASSUME OneTextInv, NEW x \in Turns, NEW next, Dispatch(x, next),
         Carried' \subseteq Carried, UNCHANGED posted
  PROVE  \A k \in Keys : Moves(k)
<1> rows \in [Keys -> Row]
  BY DEF OneTextInv, TypeInv, TypeOK
<1> x \in Keys
  BY KeysOf
<1>1. CASE ~MayStartTurn(rows, x)
  BY <1>1, KeepsQuietly DEF Dispatch, Moves
<1>2. CASE MayStartTurn(rows, x)
  <2>1. rows[x].state \notin Final
    BY <1>2 DEF MayStartTurn, Final, Awaiting
  <2>2. ~Touched(x)
    BY <2>1 DEF OneTextInv
  <2>3. \A b \in Texts : b \in posted'[x] => b \in Held(x)
    BY DEF Held
  <2>4. CASE BudgetLeft(rows, x)
    <3>1. /\ rows'[x].state = "processing"
          /\ rows'[x].body = NoBody
          /\ \A k \in Keys \ {x} : rows'[k] = rows[k]
      BY <1>2, <2>4, BeginRow DEF Dispatch
    <3>2. Keeps(x)
      BY <2>1, <2>3, <3>1, KeepsIf DEF Awaiting
    <3> QED
      BY <3>1, <3>2, KeepsQuietly DEF Moves
  <2>5. CASE ~BudgetLeft(rows, x)
    <3> DEFINE n == NoticeOf(x)
    <3>1. n \in Keys /\ n # x
      BY KeysOf
    <3>2. /\ rows'[x].state = "failed"
          /\ rows'[x].body = rows[x].body
          /\ rows'[n] = IF rows[n].state = "absent"
                        THEN [Absent EXCEPT !.state = "outbox", !.body = NoticeBody]
                        ELSE rows[n]
          /\ \A k \in Keys \ {x, n} : rows'[k] = rows[k]
      BY <1>2, <2>5, QuarantineRow DEF Dispatch
    <3> HIDE DEF n
    <3>3. Keeps(x)
      <4>1. rows'[x].state \notin Awaiting /\ rows'[x].state \in Final
        BY <3>2 DEF Awaiting, Final
      <4> QED
        BY <2>3, <3>2, <4>1, KeepsIf
    <3>4. CASE rows[n].state # "absent"
      BY <3>1, <3>2, <3>3, <3>4, KeepsQuietly DEF Moves
    <3>5. CASE rows[n].state = "absent"
      <4>1. ~Touched(n)
        BY <3>1, <3>5 DEF OneTextInv, Final, Awaiting
      <4>2. rows'[n].state = "outbox" /\ rows'[n].body = NoticeBody
        BY <3>2, <3>5 DEF Absent
      <4>3. Held(n)' \subseteq {NoticeBody}
        <5> SUFFICES ASSUME NEW b \in Texts, b \in Held(n)' PROVE b = NoticeBody
          BY DEF Held
        <5>1. b \in posted'[n] \/ rows'[n].body = b \/ <<n, b>> \in Carried'
          BY DEF Held
        <5>2. b \notin posted[n] /\ <<n, b>> \notin Carried
          BY <4>1 DEF Touched, Held
        <5> QED
          BY <4>2, <5>1, <5>2
      <4>4. Closed(x)'
        BY <2>2, <3>2, <3>3 DEF Keeps, Closed
      <4>5. Noticed(n)
        BY <3>5, <4>1, <4>2, <4>3, <4>4 DEF Noticed, Final, Awaiting, n
      <4> QED
        BY <3>1, <3>2, <3>3, <4>5, KeepsQuietly DEF Moves
    <3> QED
      BY <3>4, <3>5
  <2> QED
    BY <2>4, <2>5
<1> QED
  BY <1>1, <1>2

\* send() takes a text for a turn that runs, or for a new notification.
LEMMA PutAndPostMoves ==
  ASSUME OneTextInv, NEW x \in Turns \union Notifications, NEW y \in Bodies, PutAndPost(x, y),
         rows[x].state \in {"absent", "processing"}
  PROVE  \A k \in Keys : Moves(k)
<1> rows \in [Keys -> Row] /\ posted \in [Keys -> SUBSET Texts]
  BY DEF OneTextInv, TypeInv, TypeOK
<1>1. x \in Keys \ Notices /\ y \in Texts
  BY KeysOf, KeysAssumption DEF Texts
<1>2. /\ rows'[x].state = "outbox" /\ rows'[x].body = y
      /\ \A k \in Keys \ {x} : rows'[k] = rows[k]
  BY <1>1, PutRow DEF PutAndPost, States
<1>3. /\ posted'[x] = posted[x] \union {y}
      /\ \A k \in Keys \ {x} : posted'[k] = posted[k]
  BY <1>1 DEF PutAndPost, PostLeaves
<1>4. Carried' \subseteq Carried \union {<<x, y>>}
  BY DEF PutAndPost, Carried, poll
<1>5. rows[x].state \notin Final /\ ~Touched(x)
  BY <1>1 DEF OneTextInv, Final, Awaiting
<1>6. Posts(x)
  <2>1. Held(x)' \subseteq {y}
    <3> SUFFICES ASSUME NEW b \in Texts, b \in Held(x)' PROVE b = y
      BY DEF Held
    <3>1. b \in posted'[x] \/ rows'[x].body = b \/ <<x, b>> \in Carried'
      BY DEF Held
    <3>2. b \notin posted[x] /\ <<x, b>> \notin Carried
      BY <1>5 DEF Touched, Held
    <3> QED
      BY <1>2, <1>3, <1>4, <3>1, <3>2
  <2>2. posted'[x] = {y}
    <3>1. posted[x] = {}
      BY <1>1, <1>5 DEF Touched, Held
    <3> QED
      BY <1>3, <3>1
  <2> QED
    BY <1>1, <1>2, <1>5, <2>1, <2>2 DEF Posts, Final, Awaiting
<1>7. ASSUME NEW k \in Keys \ {x} PROVE Keeps(k)
  <2>1. \A b \in Texts : b \in posted'[k] => b \in Held(k)
    BY <1>3 DEF Held
  <2>2. \A b \in Texts \union {NoBody} : <<k, b>> \in Carried' => <<k, b>> \in Carried
    BY <1>4
  <2>3. rows'[k].state \in Awaiting => Touched(k)
    BY <1>2 DEF Touched
  <2> QED
    BY <1>2, <2>1, <2>2, <2>3, KeepsIf
<1> QED
  BY <1>6, <1>7 DEF Moves

\* The invariant holds at first.
LEMMA OneTextInit == Init => OneTextInv
<1> SUFFICES ASSUME Init PROVE OneTextInv
  OBVIOUS
<1>1. \A k \in Keys : rows[k].state = "absent" /\ rows[k].body = NoBody /\ posted[k] = {}
  BY DEF Init, EmptyTable, Absent
<1>2. Carried = {}
  BY DEF Init, Carried
<1>3. \A k \in Keys : ~Touched(k) /\ Held(k) = {}
  BY <1>1, <1>2, BodiesAssumption DEF Touched, Held, Awaiting
<1>4. \A k \in Turns : rows[NoticeOf(k)].state = "absent"
  BY <1>1, KeysOf
<1> QED
  BY <1>3, <1>4, TypeInit DEF OneTextInv

\* Every step moves every key in one of the three ways.
LEMMA StepMoves ==
  ASSUME OneTextInv, [Next]_vars
  PROVE  \A k \in Keys : Moves(k)
<1> rows \in [Keys -> Row] /\ TypeInv /\ TypeOK
  BY DEF OneTextInv, TypeInv, TypeOK
<1>0. ASSUME UNCHANGED <<rows, posted>>, Carried' \subseteq Carried
      PROVE  \A k \in Keys : Moves(k)
  BY <1>0, KeepsQuietly DEF Moves
<1>1. CASE Connect
  BY <1>0, <1>1 DEF Connect, Carried, history
<1>2. CASE Stop
  BY <1>0, <1>2 DEF Stop, Carried, history
<1>3. CASE PollWakes
  <2>1. ASSUME NEW k \in Keys PROVE Keeps(k)
    <3>1. \A b \in Texts : b \in posted'[k] => b \in Held(k)
      BY <1>3 DEF PollWakes, Held, history
    <3>2. \A b \in Texts \union {NoBody} : <<k, b>> \in Carried' =>
             \/ <<k, b>> \in Carried
             \/ rows[k].state \in Awaiting /\ rows[k].body = b
      BY <1>3 DEF PollWakes, Carried, uncertain, Awaiting
    <3>3. rows'[k].state \in Awaiting => Touched(k)
      BY <1>3 DEF PollWakes, Touched
    <3> QED
      BY <1>3, <3>1, <3>2, <3>3, KeepsIf DEF PollWakes
  <2> QED
    BY <2>1 DEF Moves
<1>4. CASE LookupReturns
  <2>1. PICK w \in todo :
          /\ todo' = todo \ {w}
          /\ \/ Accepted(w[1])
             \/ rows' = put(rows, w[1], "outbox", w[2])
             \/ rows' = IF rows[w[1]].state = "uncertain" THEN defer_lookup(rows, w[1])
                        ELSE rows
    BY <1>4 DEF LookupReturns
  <2> DEFINE x == w[1]
             y == w[2]
  <2>2. x \in Keys /\ y \in Texts \union {NoBody} /\ w = <<x, y>> /\ w \in Carried
    BY <1>4 DEF LookupReturns, TypeOK, Deliveries, Carried
  <2>3. Carried' \subseteq Carried /\ posted' = posted
    BY <1>4, <2>1 DEF LookupReturns, Carried
  <2> HIDE DEF x, y
  <2>4. CASE Accepted(x)
    BY <2>2, <2>3, <2>4, AnsweredMoves DEF Answered
  <2>5. CASE rows' = put(rows, x, "outbox", y)
    <3>1. /\ rows'[x].state = "outbox" /\ rows'[x].body = y
          /\ \A k \in Keys \ {x} : rows'[k] = rows[k]
      BY <2>2, <2>5, PutRow DEF States
    <3>2. Touched(x) /\ y \in Held(x) \union {NoBody}
      BY <2>2, CarriedIsHeld
    <3>3. rows[x].state # "absent"
      BY <2>2, <3>2 DEF OneTextInv, Final, Awaiting
    <3>4. \A b \in Texts : b \in posted'[x] => b \in Held(x)
      BY <2>3 DEF Held
    <3>5. Keeps(x)
      BY <2>2, <2>3, <3>1, <3>2, <3>3, <3>4, KeepsIf DEF Final, Awaiting
    <3> QED
      BY <2>3, <3>1, <3>5, KeepsQuietly DEF Moves
  <2>6. CASE rows' = IF rows[x].state = "uncertain" THEN defer_lookup(rows, x) ELSE rows
    <3>1. \A k \in Keys : rows'[k].state = rows[k].state /\ rows'[k].body = rows[k].body
      BY <2>2, <2>6, DeferRow
    <3> QED
      BY <2>3, <3>1, KeepsQuietly DEF Moves
  <2> QED
    BY <2>1, <2>4, <2>5, <2>6 DEF x, y
<1>5. CASE LookupsDone
  <2>1. ASSUME NEW k \in Keys PROVE Keeps(k)
    <3>1. \A b \in Texts : b \in posted'[k] => b \in Held(k)
      BY <1>5 DEF LookupsDone, Held, history
    <3>2. \A b \in Texts \union {NoBody} : <<k, b>> \in Carried' =>
             \/ <<k, b>> \in Carried
             \/ rows[k].state \in Awaiting /\ rows[k].body = b
      <4>1. cur' = None /\ \A b : <<k, b>> # None
        BY <1>5, FlagsAssumption DEF LookupsDone, TypeOK, None
      <4> QED
        BY <1>5, <4>1 DEF LookupsDone, Carried, pending, Awaiting
    <3>3. rows'[k].state \in Awaiting => Touched(k)
      BY <1>5 DEF LookupsDone, Touched
    <3> QED
      BY <1>5, <3>1, <3>2, <3>3, KeepsIf DEF LookupsDone
  <2> QED
    BY <2>1 DEF Moves

<1>6. CASE PollPosts
  <2>1. PICK w \in todo : /\ w[2] # NoBody
                         /\ todo' = todo \ {w}
                         /\ cur' = w
                         /\ PostLeaves(w[1], w[2])
    BY <1>6 DEF PollPosts
  <2> DEFINE x == w[1]
             y == w[2]
  <2>2. x \in Keys /\ y \in Texts /\ w = <<x, y>> /\ w \in Carried
    BY <1>6, <2>1 DEF PollPosts, TypeOK, Deliveries, Carried
  <2>3. Carried' \subseteq Carried
    BY <1>6, <2>1, <2>2 DEF PollPosts, Carried
  <2> HIDE DEF x, y
  <2>4. y \in Held(x)
    BY <2>2 DEF Held
  <2>5. ASSUME NEW k \in Keys PROVE Keeps(k)
    <3>1. \A b \in Texts : b \in posted'[k] => b \in posted[k] \/ (k = x /\ b = y)
      BY <2>1, <2>2 DEF PostLeaves, x, y, TypeOK
    <3>2. \A b \in Texts : b \in posted'[k] => b \in Held(k)
      BY <2>4, <3>1 DEF Held
    <3>3. rows'[k].state \in Awaiting => Touched(k)
      BY <1>6 DEF PollPosts, Touched
    <3> QED
      BY <1>6, <2>3, <3>2, <3>3, KeepsIf DEF PollPosts
  <2> QED
    BY <2>5 DEF Moves
<1>7. CASE PollFindsNoPayload
  BY <1>0, <1>7 DEF PollFindsNoPayload, Carried, history
<1>8. CASE PollPostReturns
  <2>1. cur \in Carried /\ cur = <<cur[1], cur[2]>>
        /\ cur[1] \in Keys /\ cur[2] \in Texts \union {NoBody}
    BY <1>8 DEF PollPostReturns, TypeOK, Deliveries, Carried
  <2>2. Carried' \subseteq Carried /\ posted' = posted
    BY <1>8, FlagsAssumption DEF PollPostReturns, Carried, None, Deliveries
  <2> QED
    BY <1>8, <2>1, <2>2, AnsweredMoves DEF PollPostReturns
<1>9. CASE DeliveriesDone
  <2>1. Carried' \subseteq Carried /\ posted' = posted
    BY <1>9, KeysOf, DispatchTypes DEF DeliveriesDone, Carried
  <2>2. CASE channel.welcomed \/ Underway(Welcome)
    BY <1>0, <1>9, <2>1, <2>2 DEF DeliveriesDone
  <2>3. CASE ~(channel.welcomed \/ Underway(Welcome))
    BY <1>9, <2>1, <2>3, KeysOf, DispatchMoves DEF DeliveriesDone
  <2> QED
    BY <2>2, <2>3
<1>10. CASE FetchMessages
  <2>1. Carried' \subseteq Carried /\ posted' = posted
    BY <1>10 DEF FetchMessages, Carried, history
  <2>2. mail \in SUBSET Keys /\ mail \subseteq Turns
    BY DEF TypeOK, Keys, Turns
  <2>3. \A k \in Keys : rows'[k] = IF k \in mail /\ rows[k].state = "absent"
                                   THEN [Absent EXCEPT !.state = "queued"] ELSE rows[k]
    BY <1>10, <2>2, IngestRow DEF FetchMessages
  <2>4. ASSUME NEW k \in Keys PROVE Keeps(k)
    <3>1. CASE k \in mail /\ rows[k].state = "absent"
      <4>1. rows'[k].state = "queued" /\ rows'[k].body = NoBody
        BY <2>3, <3>1 DEF Absent
      <4>2. \A b \in Texts : b \in posted'[k] => b \in Held(k)
        BY <2>1 DEF Held
      <4> QED
        BY <2>1, <2>2, <3>1, <4>1, <4>2, KeepsIf DEF Final, Awaiting
    <3>2. CASE ~(k \in mail /\ rows[k].state = "absent")
      BY <2>1, <2>3, <3>2, KeepsQuietly
    <3> QED
      BY <3>1, <3>2
  <2> QED
    BY <2>4 DEF Moves
<1>11. CASE FetchFails
  BY <1>0, <1>11 DEF FetchFails, Carried, history
<1>12. CASE TakeArrival
  <2>1. PICK w \in todo :
          IF w[2] = "queued" THEN _receive(w[1])
          ELSE IF w[1] = Welcome THEN Skip
          ELSE _resume(w[1])
    BY <1>12 DEF TakeArrival
  <2>2. w[1] \in Turns /\ w[1] \in Keys
    BY <1>12, KeysOf DEF TakeArrival, TypeOK, Arrivals
  <2>3. pc = "arrivals" /\ posted' = posted /\ flight' = flight
    BY <1>12 DEF TakeArrival
  <2>4. CASE Skip
    BY <1>0, <2>3, <2>4 DEF Skip, Carried
  <2>5. CASE Drop(w[1])
    <3>1. /\ rows'[w[1]].state = "done" /\ rows'[w[1]].body = NoBody
          /\ \A k \in Keys \ {w[1]} : rows'[k] = rows[k]
      BY <2>2, <2>5, PutRow DEF Drop, States
    <3>2. Carried' \subseteq Carried
      BY <2>3, <2>5 DEF Drop, Carried
    <3>3. \A b \in Texts : b \in posted'[w[1]] => b \in Held(w[1])
      BY <2>3 DEF Held
    <3>4. Keeps(w[1])
      BY <2>2, <3>1, <3>2, <3>3, KeepsIf DEF Final, Awaiting
    <3> QED
      BY <2>3, <3>1, <3>2, <3>4, KeepsQuietly DEF Moves
  <2>6. CASE Dispatch(w[1], "arrivals")
    <3>1. Carried' \subseteq Carried
      BY <2>2, <2>3, <2>6, DispatchTypes DEF Carried
    <3> QED
      BY <2>2, <2>3, <2>6, <3>1, DispatchMoves
  <2> QED
    BY <2>1, <2>4, <2>5, <2>6 DEF _receive, _resume
<1>13. CASE ArrivalsDone
  BY <1>0, <1>13 DEF ArrivalsDone, Carried, history
<1>14. CASE TurnWaitEnds
  BY <1>0, <1>14 DEF TurnWaitEnds, Carried, history
<1>15. ASSUME NEW k \in Turns, NEW b \in Bodies, Send(k, b) PROVE \A x \in Keys : Moves(x)
  BY <1>15, PutAndPostMoves DEF Send
<1>16. ASSUME NEW n \in Notifications, NEW b \in Bodies, SendUnthreaded(n, b)
       PROVE  \A x \in Keys : Moves(x)
  BY <1>16, PutAndPostMoves, KeysOf DEF SendUnthreaded
<1>17. CASE SendReturns
  <2>1. PICK w \in flight : Answered(w[1], w[2]) /\ flight' = flight \ {w}
    BY <1>17 DEF SendReturns
  <2>2. w \in Carried /\ w = <<w[1], w[2]>> /\ w[1] \in Keys /\ w[2] \in Texts \union {NoBody}
    BY DEF TypeOK, Carried, Deliveries
  <2>3. Carried' \subseteq Carried /\ posted' = posted
    BY <1>17, <2>1 DEF SendReturns, Carried, poll
  <2> QED
    BY <2>1, <2>2, <2>3, AnsweredMoves
<1>18. ASSUME NEW k \in Keys, RetryTimeReached(k) \/ TurnGoesStale(k)
       PROVE  \A x \in Keys : Moves(x)
  <2>1. Carried' \subseteq Carried /\ posted' = posted
    BY <1>18 DEF RetryTimeReached, TurnGoesStale, Carried, poll, history
  <2>2. rows[k] \in Row
    OBVIOUS
  <2>3. \A x \in Keys : rows'[x].state = rows[x].state /\ rows'[x].body = rows[x].body
    BY <1>18, <2>2 DEF RetryTimeReached, TurnGoesStale, Row
  <2> QED
    BY <2>1, <2>3, KeepsQuietly DEF Moves
<1>19. ASSUME NEW m \in Messages, MailArrives(m) PROVE \A x \in Keys : Moves(x)
  BY <1>0, <1>19 DEF MailArrives, Carried, poll, history
<1>20. CASE OwnerChanges
  BY <1>0, <1>20 DEF OwnerChanges, Carried, poll, history
<1>21. ASSUME NEW k \in Keys, PlatformSubmits(k) \/ PlatformReconciles(k)
       PROVE  \A x \in Keys : Moves(x)
  BY <1>0, <1>21 DEF PlatformSubmits, PlatformReconciles, Carried, poll, history
<1>22. CASE UNCHANGED vars
  BY <1>0, <1>22 DEF vars, Carried
<1> QED
  BY <1>1, <1>2, <1>3, <1>4, <1>5, <1>6, <1>7, <1>8, <1>9, <1>10, <1>11, <1>12,
     <1>13, <1>14, <1>15, <1>16, <1>17, <1>18, <1>19, <1>20, <1>21, <1>22
     DEF Next, PollTask, Gateway, Environment

\* The invariant of this section holds throughout.
LEMMA OneTextAlways == Spec => []OneTextInv
<1>1. OneTextInv /\ [Next]_vars => OneTextInv'
  BY StepMoves, MovesSuffice, TypeStep DEF OneTextInv
<1> QED
  BY OneTextInit, <1>1, PTL DEF Spec

\* One idempotency key never carries two texts.
THEOREM OneTextPerKeyHolds == Spec => []OneTextPerKey
<1>1. OneTextInv => OneTextPerKey
  <2> SUFFICES ASSUME OneTextInv, NEW k \in Keys, NEW a \in posted[k], NEW b \in posted[k]
               PROVE  a = b
    BY DEF OneTextPerKey
  <2>1. a \in Held(k) /\ b \in Held(k)
    BY DEF OneTextInv, TypeInv, TypeOK, Held
  <2> QED
    BY <2>1 DEF OneTextInv
<1> QED
  BY OneTextAlways, <1>1, PTL

\* A turn is never answered both by its reply and by the failure notice.
THEOREM ReplyExcludesNoticeHolds == Spec => []ReplyExcludesNotice
<1>1. OneTextInv => ReplyExcludesNotice
  <2> SUFFICES ASSUME OneTextInv, NEW k \in Turns, rows[NoticeOf(k)].state # "absent"
               PROVE  posted[k] = {}
    BY DEF ReplyExcludesNotice
  <2>1. k \in Keys /\ Held(k) = {}
    BY KeysOf DEF OneTextInv, Closed, Touched
  <2> QED
    BY <2>1 DEF OneTextInv, TypeInv, TypeOK, Held
<1> QED
  BY OneTextAlways, <1>1, PTL

-----------------------------------------------------------------------------
(* The budget of model calls.                                              *)

\* What the ledger has charged is what was handed to the gateway.
BudgetInv ==
  /\ TypeInv
  /\ \A k \in Turns : /\ begun[k] = rows[k].turns
                      /\ begun[k] <= MaxTurns
                      /\ rows[k].state = "absent" => rows[k].turns = 0

\* A step that charges nothing, and does not remove a row.
LEMMA ChargesNothing ==
  ASSUME BudgetInv, TypeInv', UNCHANGED begun,
         \A k \in Turns : /\ rows'[k].turns = rows[k].turns
                          /\ rows'[k].state = "absent" => rows[k].state = "absent"
  PROVE  BudgetInv'
BY DEF BudgetInv

\* Nor does an upsert.
LEMMA PutChargesNothing ==
  ASSUME rows \in [Keys -> Row], NEW x \in Keys, NEW y \in Texts \union {NoBody},
         NEW s \in {"outbox", "done"}, rows' = put(rows, x, s, y)
  PROVE  \A k \in Keys : /\ rows'[k].turns = rows[k].turns
                         /\ rows'[k].state = "absent" => rows[k].state = "absent"
<1>1. s \in States /\ s # "absent"
  BY DEF States
<1>2. rows'[x].turns = rows[x].turns /\ rows'[x].state = s
  BY <1>1, PutRow
<1>3. \A k \in Keys \ {x} : rows'[k] = rows[k]
  BY <1>1, PutRow
<1> QED
  BY <1>1, <1>2, <1>3

\* The answer of a delivery charges nothing.
LEMMA AnsweredChargesNothing ==
  ASSUME TypeInv, NEW x \in Keys, NEW y \in Texts \union {NoBody}, Answered(x, y)
  PROVE  \A k \in Keys : /\ rows'[k].turns = rows[k].turns
                         /\ rows'[k].state = "absent" => rows[k].state = "absent"
<1> rows \in [Keys -> Row]
  BY DEF TypeInv, TypeOK
<1>1. CASE Accepted(x)
  BY <1>1, PutChargesNothing DEF Accepted
<1>2. CASE AcceptanceUnknown(x, y)
  <2> DEFINE t == put(rows, x, "uncertain", y)
  <2>1. /\ t \in [Keys -> Row] /\ t[x].state = "uncertain" /\ t[x].turns = rows[x].turns
        /\ \A k \in Keys \ {x} : t[k] = rows[k]
    BY PutRow DEF States
  <2>2. rows' = defer_lookup(t, x)
    BY <1>2 DEF AcceptanceUnknown
  <2> HIDE DEF t
  <2> QED
    BY <2>1, <2>2, DeferRow
<1>3. CASE Refused(x)
  <2>1. PICK terminal \in BOOLEAN : rows' = delivery_attempt(rows, x, terminal)
    BY <1>3 DEF Refused
  <2> QED
    BY <2>1, AttemptRow
<1> QED
  BY <1>1, <1>2, <1>3 DEF Answered

\* A dispatch charges the turn it begins, within the budget.
LEMMA DispatchCharges ==
  ASSUME BudgetInv, TypeInv', NEW x \in Turns, NEW next, Dispatch(x, next)
  PROVE  BudgetInv'
<1> rows \in [Keys -> Row] /\ begun \in [Keys -> Nat]
  BY DEF BudgetInv, TypeInv, TypeOK
<1> x \in Keys
  BY KeysOf
<1>1. CASE MayStartTurn(rows, x) /\ BudgetLeft(rows, x)
  <2>1. /\ rows'[x].state = "processing" /\ rows'[x].turns = rows[x].turns + 1
        /\ \A k \in Keys \ {x} : rows'[k] = rows[k]
    BY <1>1, BeginRow DEF Dispatch
  <2>2. /\ begun'[x] = begun[x] + 1
        /\ \A k \in Keys \ {x} : begun'[k] = begun[k]
    BY <1>1 DEF Dispatch
  <2>3. begun'[x] = rows'[x].turns /\ begun'[x] <= MaxTurns
    BY <1>1, <2>1, <2>2, LimitsAssumption DEF BudgetInv, BudgetLeft
  <2>4. rows'[x].state # "absent"
    BY <2>1
  <2>5. \A k \in Turns \ {x} : begun'[k] = begun[k] /\ rows'[k] = rows[k]
    BY <2>1, <2>2, KeysOf
  <2> QED
    BY <2>3, <2>4, <2>5 DEF BudgetInv
<1>2. CASE MayStartTurn(rows, x) /\ ~BudgetLeft(rows, x)
  <2> DEFINE n == NoticeOf(x)
  <2>1. n \notin Turns
    BY KeysOf
  <2>2. /\ rows'[x].state = "failed" /\ rows'[x].turns = rows[x].turns
        /\ \A k \in Keys \ {x, n} : rows'[k] = rows[k]
    BY <1>2, QuarantineRow DEF Dispatch
  <2> HIDE DEF n
  <2> QED
    BY <1>2, <2>1, <2>2, ChargesNothing, KeysOf DEF Dispatch
<1>3. CASE ~MayStartTurn(rows, x)
  BY <1>3, ChargesNothing DEF Dispatch
<1> QED
  BY <1>1, <1>2, <1>3

\* Every step keeps the books.
LEMMA BudgetStep ==
  ASSUME BudgetInv, [Next]_vars
  PROVE  BudgetInv'
<1>0. TypeInv' /\ TypeInv /\ TypeOK /\ rows \in [Keys -> Row]
  BY TypeStep DEF BudgetInv, TypeInv, TypeOK
<1>1. CASE Connect \/ Stop \/ PollWakes \/ LookupsDone \/ PollPosts \/ PollFindsNoPayload
           \/ FetchFails \/ ArrivalsDone \/ TurnWaitEnds \/ OwnerChanges \/ UNCHANGED vars
  BY <1>0, <1>1, ChargesNothing
     DEF Connect, Stop, PollWakes, LookupsDone, PollPosts, PollFindsNoPayload, FetchFails,
         ArrivalsDone, TurnWaitEnds, OwnerChanges, vars, history
<1>2. ASSUME NEW k \in Keys, PlatformSubmits(k) \/ PlatformReconciles(k) PROVE BudgetInv'
  BY <1>0, <1>2, ChargesNothing DEF PlatformSubmits, PlatformReconciles, history
<1>13. ASSUME NEW m \in Messages, MailArrives(m) PROVE BudgetInv'
  BY <1>0, <1>13, ChargesNothing DEF MailArrives, history
<1>3. CASE LookupReturns
  <2>1. PICK w \in todo :
             \/ Accepted(w[1])
             \/ rows' = put(rows, w[1], "outbox", w[2])
             \/ rows' = IF rows[w[1]].state = "uncertain" THEN defer_lookup(rows, w[1])
                        ELSE rows
    BY <1>3 DEF LookupReturns
  <2>2. w[1] \in Keys /\ w[2] \in Texts \union {NoBody} /\ begun' = begun
    BY <1>0, <1>3 DEF LookupReturns, TypeOK, Deliveries
  <2>3. CASE Accepted(w[1])
    BY <1>0, <2>2, <2>3, AnsweredChargesNothing, ChargesNothing, KeysOf DEF Answered
  <2>4. CASE rows' = put(rows, w[1], "outbox", w[2])
    <3>1. \A k \in Keys : /\ rows'[k].turns = rows[k].turns
                          /\ rows'[k].state = "absent" => rows[k].state = "absent"
      BY <1>0, <2>2, <2>4, PutChargesNothing
    <3> QED
      BY <1>0, <2>2, <3>1, ChargesNothing, KeysOf
  <2>5. CASE rows' = IF rows[w[1]].state = "uncertain" THEN defer_lookup(rows, w[1])
                     ELSE rows
    <3>1. \A k \in Keys : /\ rows'[k].turns = rows[k].turns
                          /\ rows'[k].state = "absent" => rows[k].state = "absent"
      <4>1. CASE rows' = rows
        BY <4>1
      <4>2. CASE rows' = defer_lookup(rows, w[1])
        BY <1>0, <2>2, <4>2, DeferRow
      <4> QED
        BY <2>5, <4>1, <4>2
    <3> QED
      BY <1>0, <2>2, <3>1, ChargesNothing, KeysOf
  <2> QED
    BY <2>1, <2>3, <2>4, <2>5
<1>4. CASE PollPostReturns
  <2>1. cur[1] \in Keys /\ cur[2] \in Texts \union {NoBody}
    BY <1>0, <1>4 DEF PollPostReturns, TypeOK, Deliveries
  <2> QED
    BY <1>0, <1>4, <2>1, AnsweredChargesNothing, ChargesNothing, KeysOf DEF PollPostReturns
<1>5. CASE SendReturns
  <2>1. PICK w \in flight : Answered(w[1], w[2])
    BY <1>5 DEF SendReturns
  <2>2. w[1] \in Keys /\ w[2] \in Texts \union {NoBody}
    BY <1>0 DEF TypeOK
  <2> QED
    BY <1>0, <1>5, <2>1, <2>2, AnsweredChargesNothing, ChargesNothing, KeysOf DEF SendReturns
<1>6. CASE DeliveriesDone
  <2>1. CASE channel.welcomed \/ Underway(Welcome)
    BY <1>0, <1>6, <2>1, ChargesNothing DEF DeliveriesDone
  <2>2. CASE ~(channel.welcomed \/ Underway(Welcome))
    BY <1>0, <1>6, <2>2, KeysOf, DispatchCharges DEF DeliveriesDone
  <2> QED
    BY <2>1, <2>2
<1>7. CASE FetchMessages
  <2>1. mail \in SUBSET Keys
    BY <1>0 DEF TypeOK, Keys, Turns
  <2>2. \A k \in Keys : rows'[k] = IF k \in mail /\ rows[k].state = "absent"
                                   THEN [Absent EXCEPT !.state = "queued"] ELSE rows[k]
    BY <1>0, <1>7, <2>1, IngestRow DEF FetchMessages
  <2>3. \A k \in Turns : /\ rows'[k].turns = rows[k].turns
                         /\ rows'[k].state = "absent" => rows[k].state = "absent"
    BY <2>2, KeysOf DEF BudgetInv, Absent
  <2> QED
    BY <1>0, <1>7, <2>3, ChargesNothing DEF FetchMessages, history
<1>8. CASE TakeArrival
  <2>1. PICK w \in todo :
          IF w[2] = "queued" THEN _receive(w[1])
          ELSE IF w[1] = Welcome THEN Skip
          ELSE _resume(w[1])
    BY <1>8 DEF TakeArrival
  <2>2. w[1] \in Turns /\ w[1] \in Keys
    BY <1>0, <1>8, KeysOf DEF TakeArrival, TypeOK, Arrivals
  <2>3. CASE Skip
    BY <1>0, <2>3, ChargesNothing DEF Skip
  <2>4. CASE Drop(w[1])
    <3>1. \A k \in Keys : /\ rows'[k].turns = rows[k].turns
                          /\ rows'[k].state = "absent" => rows[k].state = "absent"
      BY <1>0, <2>2, <2>4, PutChargesNothing DEF Drop
    <3> QED
      BY <1>0, <2>4, <3>1, ChargesNothing, KeysOf DEF Drop
  <2>5. CASE Dispatch(w[1], "arrivals")
    BY <1>0, <2>2, <2>5, DispatchCharges
  <2> QED
    BY <2>1, <2>3, <2>4, <2>5 DEF _receive, _resume
<1>9. ASSUME NEW k \in Keys, NEW b \in Bodies, PutAndPost(k, b) PROVE BudgetInv'
  <2>1. \A x \in Keys : /\ rows'[x].turns = rows[x].turns
                        /\ rows'[x].state = "absent" => rows[x].state = "absent"
    BY <1>0, <1>9, PutChargesNothing DEF PutAndPost, Texts
  <2> QED
    BY <1>0, <1>9, <2>1, ChargesNothing, KeysOf DEF PutAndPost
<1>10. ASSUME NEW k \in Turns, NEW b \in Bodies, Send(k, b) PROVE BudgetInv'
  BY <1>9, <1>10, KeysOf DEF Send
<1>11. ASSUME NEW n \in Notifications, NEW b \in Bodies, SendUnthreaded(n, b) PROVE BudgetInv'
  BY <1>9, <1>11, KeysOf DEF SendUnthreaded
<1>12. ASSUME NEW k \in Keys, RetryTimeReached(k) \/ TurnGoesStale(k) PROVE BudgetInv'
  <2>1. rows[k] \in Row
    BY <1>0
  <2>2. \A x \in Keys : rows'[x].turns = rows[x].turns /\ rows'[x].state = rows[x].state
    BY <1>0, <1>12, <2>1 DEF RetryTimeReached, TurnGoesStale, Row
  <2> QED
    BY <1>0, <1>12, <2>2, ChargesNothing, KeysOf DEF RetryTimeReached, TurnGoesStale, history
<1> QED
  BY <1>1, <1>2, <1>3, <1>4, <1>5, <1>6, <1>7, <1>8, <1>10, <1>11, <1>12, <1>13, KeysOf
     DEF Next, PollTask, Gateway, Environment

\* No email costs more than MAX_TURN_ATTEMPTS model calls.
THEOREM TurnBudgetHolds == Spec => []TurnBudget
<1>1. Init => BudgetInv
  <2> SUFFICES ASSUME Init PROVE BudgetInv
    OBVIOUS
  <2>1. \A k \in Turns : rows[k].turns = 0 /\ begun[k] = 0
    BY KeysOf DEF Init, EmptyTable, Absent
  <2> QED
    BY <2>1, TypeInit, LimitsAssumption DEF BudgetInv
<1>2. BudgetInv /\ [Next]_vars => BudgetInv'
  BY BudgetStep
<1>3. BudgetInv => TurnBudget
  BY DEF BudgetInv, TurnBudget
<1> QED
  BY <1>1, <1>2, <1>3, PTL DEF Spec

-----------------------------------------------------------------------------
(* The ledger: what is on its way is written by nobody else, but where two   *)
(* parts of the adapter have worked on one key at a time.                    *)

\* A row whose state, text, attempts and doubt fit each other.
RowSound(k) ==
  k \notin crossed =>
    /\ rows[k].state \in {"absent", "queued", "processing"} => rows[k].attempts = 0
    /\ rows[k].state \in Awaiting => rows[k].body \in Texts /\ rows[k].attempts < MaxAttempts
    /\ k \in unsure => rows[k].state = "uncertain"

\* The row of a delivery still says what the delivery carries.
Waits(w, s) == rows[w[1]].state = s /\ rows[w[1]].body = w[2]

\* What send() has posted waits in the outbox.
FlightSound == \A w \in flight : w[1] \notin crossed => Waits(w, "outbox")

\* The query results of the poll task are not out of date, and no key is with
\* the poll task and with send() at once.
LookupSound == pc = "lookup" => \A w \in todo : w[1] \notin crossed => Waits(w, "uncertain")
DeliverSound ==
  pc = "deliver" =>
    /\ \A w \in todo : w[1] \notin crossed => Waits(w, "outbox") /\ w[1] # cur[1]
    /\ cur # None /\ cur[1] \notin crossed => Waits(cur, "outbox")
    /\ \A v \in flight :
         v[1] \notin crossed => v[1] # cur[1] /\ \A w \in todo : v[1] # w[1]

LedgerInv ==
  /\ TypeInv
  /\ \A k \in Keys : RowSound(k)
  /\ FlightSound /\ LookupSound /\ DeliverSound

\* What waits for an answer is not written in this step.
AwaitingKept ==
  \A k \in Keys \ crossed' : rows[k].state \in Awaiting =>
    rows'[k].state = rows[k].state /\ rows'[k].body = rows[k].body

\* A row that is not written stays sound.
LEMMA RowKept ==
  ASSUME LedgerInv, NEW k \in Keys, unsure' \subseteq unsure, crossed \subseteq crossed',
         rows'[k].state = rows[k].state, rows'[k].body = rows[k].body,
         rows'[k].attempts = rows[k].attempts
  PROVE  RowSound(k)'
<1>1. RowSound(k)
  BY DEF LedgerInv
<1> QED
  BY <1>1 DEF RowSound

\* A step of the poll task, or none, that writes no row on its way.
LEMMA QuietStep ==
  ASSUME LedgerInv, TypeInv', AwaitingKept, \A k \in Keys : RowSound(k)',
         flight' \subseteq flight, crossed \subseteq crossed',
         \/ UNCHANGED <<pc, todo, cur>>
         \/ pc' \notin {"lookup", "deliver"}
         \/ pc' = "deliver" /\ pc = "deliver" /\ todo' \subseteq todo /\ cur' = cur
  PROVE  LedgerInv'
<1>0. /\ TypeOK /\ TypeOK'
      /\ flight \subseteq Keys \X Texts
      /\ FlightSound /\ LookupSound /\ DeliverSound
  BY DEF LedgerInv, TypeInv, TypeOK
<1>1. ASSUME NEW w \in Deliveries, NEW s \in Awaiting, Waits(w, s), w[1] \notin crossed'
      PROVE  Waits(w, s)'
  <2>1. w[1] \in Keys
    BY DEF Deliveries
  <2> QED
    BY <1>1, <2>1 DEF Waits, AwaitingKept
<1>2. \A w \in Keys \X Texts : w \in Deliveries
  BY DEF Deliveries
<1>3. FlightSound'
  BY <1>0, <1>1, <1>2 DEF FlightSound, Awaiting
<1>4. LookupSound'
  <2> SUFFICES ASSUME pc' = "lookup", NEW w \in todo', w[1] \notin crossed'
               PROVE  Waits(w, "uncertain")'
    BY DEF LookupSound
  <2>1. pc = "lookup" /\ w \in todo
    OBVIOUS
  <2>2. w \in Deliveries /\ Waits(w, "uncertain")
    BY <1>0, <2>1 DEF LookupSound, TypeOK
  <2> QED
    BY <1>1, <2>2 DEF Awaiting
<1>5. DeliverSound'
  <2> SUFFICES ASSUME pc' = "deliver" PROVE DeliverSound'
    BY DEF DeliverSound
  <2>1. pc = "deliver" /\ todo' \subseteq todo /\ cur' = cur
    OBVIOUS
  <2>2. todo \subseteq Deliveries /\ cur \in Deliveries \union {None}
    BY <1>0, <2>1 DEF TypeOK
  <2>3. (\A w \in todo : w[1] \notin crossed => Waits(w, "outbox") /\ w[1] # cur[1])'
    BY <1>0, <1>1, <2>1, <2>2 DEF DeliverSound, Awaiting
  <2>4. (cur # None /\ cur[1] \notin crossed => Waits(cur, "outbox"))'
    <3> SUFFICES ASSUME cur # None, cur[1] \notin crossed'
                 PROVE  rows'[cur[1]].state = "outbox" /\ rows'[cur[1]].body = cur[2]
      BY <2>1 DEF Waits
    <3>1. Waits(cur, "outbox")'
      BY <1>0, <1>1, <2>1, <2>2 DEF DeliverSound, Awaiting
    <3> QED
      BY <2>1, <3>1 DEF Waits
  <2>5. (\A v \in flight :
           v[1] \notin crossed => v[1] # cur[1] /\ \A w \in todo : v[1] # w[1])'
    BY <1>0, <2>1 DEF DeliverSound
  <2> QED
    BY <2>3, <2>4, <2>5 DEF DeliverSound
<1> QED
  BY <1>3, <1>4, <1>5 DEF LedgerInv

\* An answer writes one row.
LEMMA AnsweredWrites ==
  ASSUME LedgerInv, NEW x \in Keys, NEW y, Answered(x, y) \/ Accepted(x)
  PROVE  \A k \in Keys \ {x} : rows'[k] = rows[k] /\ (k \in unsure' => k \in unsure)
<1>0. rows \in [Keys -> Row]
  BY DEF LedgerInv, TypeInv, TypeOK
<1>1. CASE Accepted(x)
  BY <1>0, <1>1 DEF Accepted, put
<1>2. CASE AcceptanceUnknown(x, y)
  <2>1. rows' = defer_lookup(put(rows, x, "uncertain", y), x) /\ unsure' = unsure \union {x}
    BY <1>2 DEF AcceptanceUnknown
  <2> QED
    BY <1>0, <2>1 DEF put, defer_lookup
<1>3. CASE Refused(x)
  <2>1. PICK terminal \in BOOLEAN : rows' = delivery_attempt(rows, x, terminal)
    BY <1>3 DEF Refused
  <2> QED
    BY <1>0, <1>3, <2>1 DEF Refused, delivery_attempt
<1> QED
  BY <1>1, <1>2, <1>3 DEF Answered

\* The answer to a delivery whose row is waiting for it.
LEMMA AnsweredSound ==
  ASSUME LedgerInv, NEW x \in Keys, NEW y, rows[x].body = y, crossed' = crossed,
         \/ rows[x].state = "outbox" /\ Answered(x, y)
         \/ rows[x].state = "uncertain" /\ Accepted(x)
  PROVE  /\ \A k \in Keys : RowSound(k)'
         /\ \A k \in Keys \ {x} : rows'[k] = rows[k]
<1> rows \in [Keys -> Row] /\ RowSound(x)
  BY DEF LedgerInv, TypeInv, TypeOK
<1>1. /\ \A k \in Keys \ {x} : rows'[k] = rows[k] /\ (k \in unsure' => k \in unsure)
      /\ RowSound(x)'
  <2> SUFFICES ASSUME x \notin crossed
               PROVE  /\ \A k \in Keys \ {x} : rows'[k] = rows[k] /\ (k \in unsure' => k \in unsure)
                      /\ RowSound(x)'
    BY AnsweredWrites DEF RowSound
  <2>0. y \in Texts /\ rows[x].attempts < MaxAttempts
    BY DEF RowSound, Awaiting
  <2>1. CASE Accepted(x)
    <3>1. /\ rows'[x].state = "done"
          /\ \A k \in Keys \ {x} : rows'[k] = rows[k]
      BY <2>1, PutRow DEF Accepted, States
    <3> QED
      BY <2>1, <3>1 DEF Accepted, RowSound, Awaiting
  <2>2. CASE AcceptanceUnknown(x, y)
    <3> DEFINE t == put(rows, x, "uncertain", y)
    <3>1. /\ t \in [Keys -> Row] /\ t[x].state = "uncertain" /\ t[x].body = y
          /\ t[x].attempts = rows[x].attempts
          /\ \A k \in Keys \ {x} : t[k] = rows[k]
      BY <2>0, PutRow DEF States
    <3>2. rows' = defer_lookup(t, x)
      BY <2>2 DEF AcceptanceUnknown
    <3> HIDE DEF t
    <3>3. /\ rows'[x].state = "uncertain" /\ rows'[x].body = y
          /\ rows'[x].attempts = rows[x].attempts
          /\ \A k \in Keys \ {x} : rows'[k] = rows[k]
      BY <3>1, <3>2, DeferRow
    <3> QED
      BY <2>0, <2>2, <3>3 DEF AcceptanceUnknown, RowSound
  <2>3. CASE Refused(x) /\ rows[x].state = "outbox"
    <3>1. PICK terminal \in BOOLEAN : rows' = delivery_attempt(rows, x, terminal)
      BY <2>3 DEF Refused
    <3>2. /\ rows'[x].state \in {"outbox", "failed"}
          /\ rows'[x].body = y
          /\ rows'[x].state = "outbox" => rows'[x].attempts < MaxAttempts
          /\ \A k \in Keys \ {x} : rows'[k] = rows[k]
      BY <3>1, AttemptRow
    <3>3. x \notin unsure' /\ unsure' = unsure
      BY <2>3 DEF RowSound, Refused
    <3> QED
      BY <2>0, <3>2, <3>3 DEF RowSound, Awaiting
  <2> QED
    BY <2>1, <2>2, <2>3 DEF Answered
<1>2. ASSUME NEW k \in Keys \ {x} PROVE RowSound(k)'
  <2>1. RowSound(k)
    BY DEF LedgerInv
  <2> QED
    BY <1>1, <2>1 DEF RowSound
<1> QED
  BY <1>1, <1>2

\* A done row stays done.
DoneKept == \A k \in Keys \ crossed : rows[k].state = "done" => rows'[k].state = "done"

\* A step after which nobody carries the one key that it wrote, or that wrote a
\* crossed one.
LEMMA WriteStep ==
  ASSUME LedgerInv, TypeInv', NEW x \in Keys, \A k \in Keys : RowSound(k)',
         \A k \in Keys \ {x} : rows'[k] = rows[k],
         flight' \subseteq flight, todo' \subseteq todo, cur' \in {cur, None}, pc' = pc,
         crossed' = crossed,
         \/ x \in crossed
         \/ /\ \A v \in flight' : v[1] # x
            /\ pc \in {"lookup", "deliver"} => cur'[1] # x /\ \A w \in todo' : w[1] # x
  PROVE  LedgerInv'
<1>0. /\ TypeOK /\ TypeOK'
      /\ flight \subseteq Keys \X Texts
      /\ FlightSound /\ LookupSound /\ DeliverSound
  BY DEF LedgerInv, TypeInv, TypeOK
<1>1. ASSUME NEW w \in Deliveries, w[1] # x, NEW s, Waits(w, s) PROVE Waits(w, s)'
  <2>1. w[1] \in Keys \ {x}
    BY <1>1 DEF Deliveries
  <2> QED
    BY <1>1, <2>1 DEF Waits
<1>2. \A w \in Keys \X Texts : w \in Deliveries
  BY DEF Deliveries
<1>3. FlightSound'
  BY <1>0, <1>1, <1>2 DEF FlightSound
<1>4. LookupSound'
  <2> SUFFICES ASSUME pc = "lookup", NEW w \in todo', w[1] \notin crossed
               PROVE  Waits(w, "uncertain")'
    BY DEF LookupSound
  <2>1. w \in todo /\ w \in Deliveries /\ Waits(w, "uncertain") /\ w[1] # x
    BY <1>0 DEF LookupSound, TypeOK
  <2> QED
    BY <1>1, <2>1
<1>5. DeliverSound'
  <2> SUFFICES ASSUME pc = "deliver" PROVE DeliverSound'
    BY DEF DeliverSound
  <2>1. todo \subseteq Deliveries /\ cur \in Deliveries \union {None}
    BY <1>0 DEF TypeOK
  <2>2. \A w \in todo' : w[1] \notin crossed =>
          Waits(w, "outbox") /\ w[1] # cur[1] /\ w[1] # None[1] /\ w[1] # x
    BY <1>0, <2>1, FlagsAssumption DEF DeliverSound, None, Deliveries
  <2>3. \A v \in flight' : v[1] \notin crossed =>
          v[1] # cur[1] /\ v[1] # None[1] /\ \A w \in todo' : v[1] # w[1]
    BY <1>0, FlagsAssumption DEF DeliverSound, None
  <2>4. (\A w \in todo : w[1] \notin crossed => Waits(w, "outbox") /\ w[1] # cur[1])'
    BY <1>1, <2>1, <2>2
  <2>5. (cur # None /\ cur[1] \notin crossed => Waits(cur, "outbox"))'
    <3> SUFFICES ASSUME cur' # None, cur'[1] \notin crossed
                 PROVE  rows'[cur'[1]].state = "outbox" /\ rows'[cur'[1]].body = cur'[2]
      BY DEF Waits
    <3>0. cur' = cur /\ cur \in Deliveries /\ cur[1] # x /\ Waits(cur, "outbox")
      BY <1>0, <2>1 DEF DeliverSound
    <3>1. Waits(cur, "outbox")'
      <4>1. cur[1] \in Keys \ {x}
        BY <3>0 DEF Deliveries
      <4> QED
        BY <3>0, <4>1 DEF Waits
    <3> QED
      BY <3>0, <3>1 DEF Waits
  <2>6. (\A v \in flight :
           v[1] \notin crossed => v[1] # cur[1] /\ \A w \in todo : v[1] # w[1])'
    BY <2>3
  <2> QED
    BY <2>4, <2>5, <2>6 DEF DeliverSound
<1> QED
  BY <1>3, <1>4, <1>5 DEF LedgerInv

\* A dispatch writes what is not on its way.
LEMMA DispatchSound ==
  ASSUME LedgerInv, NEW x \in Turns, NEW next, Dispatch(x, next), UNCHANGED unsure,
         crossed \subseteq crossed'
  PROVE  AwaitingKept /\ DoneKept /\ \A k \in Keys : RowSound(k)'
<1> rows \in [Keys -> Row] /\ x \in Keys /\ RowSound(x)
  BY KeysOf DEF LedgerInv, TypeInv, TypeOK
<1>0. \A k \in Keys : rows'[k] = rows[k] => RowSound(k)'
  BY RowKept
<1>1. CASE MayStartTurn(rows, x) /\ BudgetLeft(rows, x)
  <2>1. /\ rows'[x].state = "processing" /\ rows'[x].attempts = rows[x].attempts
        /\ \A k \in Keys \ {x} : rows'[k] = rows[k]
    BY <1>1, BeginRow DEF Dispatch
  <2>2. rows[x].state \in {"absent", "queued", "processing"}
    BY <1>1 DEF MayStartTurn
  <2>3. RowSound(x)'
    BY <2>1, <2>2 DEF RowSound, Awaiting
  <2> QED
    BY <1>0, <2>1, <2>2, <2>3 DEF AwaitingKept, DoneKept, Awaiting
<1>2. CASE MayStartTurn(rows, x) /\ ~BudgetLeft(rows, x)
  <2> DEFINE n == NoticeOf(x)
  <2>1. n \in Keys \ Turns /\ RowSound(n)
    BY KeysOf DEF LedgerInv
  <2>2. /\ rows'[x].state = "failed"
        /\ rows'[n] = IF rows[n].state = "absent"
                      THEN [Absent EXCEPT !.state = "outbox", !.body = NoticeBody]
                      ELSE rows[n]
        /\ \A k \in Keys \ {x, n} : rows'[k] = rows[k]
    BY <1>2, QuarantineRow DEF Dispatch
  <2> HIDE DEF n
  <2>3. rows[x].state \in {"absent", "queued", "processing"}
    BY <1>2 DEF MayStartTurn
  <2>4. RowSound(x)'
    BY <2>2, <2>3 DEF RowSound, Awaiting
  <2>5. CASE rows[n].state = "absent"
    <3>1. rows'[n].state = "outbox" /\ rows'[n].body = NoticeBody /\ rows'[n].attempts = 0
      BY <2>2, <2>5 DEF Absent
    <3>2. (n \notin crossed => n \notin unsure') /\ NoticeBody \in Texts /\ 0 < MaxAttempts
      BY <2>1, <2>5, LimitsAssumption DEF RowSound, Texts
    <3>3. RowSound(n)'
      BY <3>1, <3>2 DEF RowSound
    <3> QED
      BY <1>0, <2>2, <2>3, <2>4, <2>5, <3>3 DEF AwaitingKept, DoneKept, Awaiting
  <2>6. CASE rows[n].state # "absent"
    BY <1>0, <2>1, <2>2, <2>3, <2>4, <2>6 DEF AwaitingKept, DoneKept, Awaiting
  <2> QED
    BY <2>5, <2>6
<1>3. CASE ~MayStartTurn(rows, x)
  BY <1>0, <1>3 DEF Dispatch, AwaitingKept, DoneKept
<1> QED
  BY <1>1, <1>2, <1>3

\* Text is taken for a row that is not on its way.
LEMMA PutAndPostSound ==
  ASSUME LedgerInv, TypeInv', NEW x \in Turns \union Notifications, NEW y \in Bodies,
         PutAndPost(x, y), rows[x].state \in {"absent", "processing"}
  PROVE  LedgerInv' /\ DoneKept /\ (x \notin crossed => x \notin unsure)
<1>0. /\ TypeOK /\ TypeOK' /\ rows \in [Keys -> Row]
      /\ flight \subseteq Keys \X Texts
      /\ FlightSound /\ LookupSound /\ DeliverSound
  BY DEF LedgerInv, TypeInv, TypeOK
<1>1. x \in Keys /\ y \in Texts /\ RowSound(x)
  BY KeysOf DEF Texts, LedgerInv
<1>2. /\ rows'[x].state = "outbox" /\ rows'[x].body = y
      /\ rows'[x].attempts = rows[x].attempts
      /\ \A k \in Keys \ {x} : rows'[k] = rows[k]
  BY <1>0, <1>1, PutRow DEF PutAndPost, States
<1>3. /\ unsure' = unsure /\ pc' = pc /\ todo' = todo /\ cur' = cur /\ crossed' = crossed
      /\ flight' = flight \union {<<x, y>>}
  BY DEF PutAndPost, poll
<1>4. x \notin crossed => x \notin unsure /\ rows[x].attempts = 0
  BY <1>1 DEF RowSound
<1>5. RowSound(x)'
  BY <1>1, <1>2, <1>3, <1>4, LimitsAssumption DEF RowSound, Awaiting
<1>6. \A k \in Keys : RowSound(k)'
  BY <1>2, <1>3, <1>5, RowKept
<1>7. ASSUME NEW w \in Deliveries, NEW s \in Awaiting, Waits(w, s)
      PROVE  Waits(w, s)' /\ w[1] # x
  <2>1. w[1] \in Keys /\ w[1] # x
    BY <1>7 DEF Deliveries, Waits, Awaiting
  <2> QED
    BY <1>2, <1>7, <2>1 DEF Waits
<1>8. \A w \in Keys \X Texts : w \in Deliveries
  BY DEF Deliveries
<1>9. FlightSound'
  <2>1. \A w \in flight : w[1] \notin crossed => Waits(w, "outbox")'
    BY <1>0, <1>7, <1>8 DEF FlightSound, Awaiting
  <2>2. Waits(<<x, y>>, "outbox")'
    BY <1>2 DEF Waits
  <2> QED
    BY <1>3, <2>1, <2>2 DEF FlightSound
<1>10. LookupSound'
  BY <1>0, <1>3, <1>7 DEF LookupSound, TypeOK, Awaiting
<1>11. DeliverSound'
  <2> SUFFICES ASSUME pc = "deliver" PROVE DeliverSound'
    BY <1>3 DEF DeliverSound
  <2>1. todo \subseteq Deliveries /\ cur \in Deliveries \union {None} /\ x # None[1]
    BY <1>0, <1>1, FlagsAssumption DEF TypeOK, None
  <2>2. \A w \in todo : w[1] \notin crossed =>
          Waits(w, "outbox")' /\ w[1] # x /\ w[1] # cur[1]
    BY <1>0, <1>7, <2>1 DEF DeliverSound, Awaiting
  <2>3. cur # None /\ cur[1] \notin crossed => Waits(cur, "outbox")' /\ cur[1] # x
    <3> SUFFICES ASSUME cur # None, cur[1] \notin crossed PROVE Waits(cur, "outbox")' /\ cur[1] # x
      OBVIOUS
    <3>1. cur[1] \in Keys /\ cur[1] # x /\ Waits(cur, "outbox")
      BY <1>0, <1>7, <2>1 DEF DeliverSound, Awaiting, Deliveries
    <3> QED
      BY <1>2, <1>3, <3>1 DEF Waits
  <2>4. \A v \in flight' : v[1] \notin crossed =>
          v[1] # cur[1] /\ \A w \in todo : v[1] # w[1]
    BY <1>0, <1>3, <2>1, <2>2, <2>3 DEF DeliverSound
  <2>5. (\A w \in todo : w[1] \notin crossed => Waits(w, "outbox") /\ w[1] # cur[1])'
    BY <1>3, <2>2
  <2>6. (cur # None /\ cur[1] \notin crossed => Waits(cur, "outbox"))'
    BY <1>3, <2>3 DEF Waits
  <2>7. (\A v \in flight :
           v[1] \notin crossed => v[1] # cur[1] /\ \A w \in todo : v[1] # w[1])'
    BY <1>3, <2>4
  <2> QED
    BY <2>5, <2>6, <2>7 DEF DeliverSound
<1> QED
  BY <1>2, <1>4, <1>6, <1>9, <1>10, <1>11 DEF LedgerInv, DoneKept

\* The invariant holds at first.
LEMMA LedgerInit == Init => LedgerInv
<1> SUFFICES ASSUME Init PROVE LedgerInv
  OBVIOUS
<1>1. \A k \in Keys : rows[k].state = "absent" /\ rows[k].attempts = 0
  BY DEF Init, EmptyTable, Absent
<1>2. \A k \in Keys : RowSound(k)
  BY <1>1 DEF Init, RowSound, Awaiting
<1> QED
  BY <1>2, TypeInit DEF Init, LedgerInv, FlightSound, LookupSound, DeliverSound

\* What each step of the code does to the ledger.
LEMMA LedgerStep ==
  ASSUME LedgerInv, [Next]_vars
  PROVE  LedgerInv' /\ DoneKept
<1>0. /\ TypeInv /\ TypeInv' /\ TypeOK /\ rows \in [Keys -> Row]
      /\ flight \subseteq Keys \X Texts
      /\ FlightSound /\ LookupSound /\ DeliverSound
  BY TypeStep DEF LedgerInv, TypeInv, TypeOK
<1>a. ASSUME UNCHANGED <<rows, unsure, crossed>>, flight' \subseteq flight,
             UNCHANGED <<pc, todo, cur>> \/ pc' \notin {"lookup", "deliver"}
      PROVE  LedgerInv' /\ DoneKept
  <2>1. \A k \in Keys : RowSound(k)'
    BY <1>a, RowKept
  <2>2. AwaitingKept /\ DoneKept
    BY <1>a DEF AwaitingKept, DoneKept
  <2> QED
    BY <1>0, <1>a, <2>1, <2>2, QuietStep
<1>1. CASE Connect \/ Stop \/ PollFindsNoPayload \/ ArrivalsDone \/ TurnWaitEnds
           \/ OwnerChanges \/ UNCHANGED vars
  BY <1>1, <1>a DEF Connect, Stop, PollFindsNoPayload, ArrivalsDone, TurnWaitEnds,
     OwnerChanges, vars, poll, history
<1>2. ASSUME NEW k \in Keys, PlatformSubmits(k) \/ PlatformReconciles(k)
      PROVE  LedgerInv' /\ DoneKept
  BY <1>2, <1>a DEF PlatformSubmits, PlatformReconciles, poll, history
<1>3. ASSUME NEW m \in Messages, MailArrives(m) PROVE LedgerInv' /\ DoneKept
  BY <1>3, <1>a DEF MailArrives, poll, history
<1>4. ASSUME NEW k \in Keys, RetryTimeReached(k) \/ TurnGoesStale(k)
      PROVE  LedgerInv' /\ DoneKept
  <2>1. rows[k] \in Row
    BY <1>0
  <2>2. \A x \in Keys : /\ rows'[x].state = rows[x].state /\ rows'[x].body = rows[x].body
                        /\ rows'[x].attempts = rows[x].attempts
    BY <1>0, <1>4, <2>1 DEF RetryTimeReached, TurnGoesStale, Row
  <2>3. UNCHANGED <<unsure, flight, pc, todo, cur, crossed>>
    BY <1>4 DEF RetryTimeReached, TurnGoesStale, poll, history
  <2>4. AwaitingKept /\ DoneKept /\ \A x \in Keys : RowSound(x)'
    BY <2>2, <2>3, RowKept DEF AwaitingKept, DoneKept
  <2> QED
    BY <1>0, <2>3, <2>4, QuietStep
<1>5. CASE PollWakes
  <2>1. \A x \in Keys : RowSound(x)'
    BY <1>5, RowKept DEF PollWakes, history
  <2>2. FlightSound' /\ DeliverSound'
    BY <1>0, <1>5 DEF PollWakes, FlightSound, Waits, DeliverSound, history
  <2>3. LookupSound'
    BY <1>5 DEF PollWakes, LookupSound, Waits, uncertain
  <2> QED
    BY <1>0, <1>5, <2>1, <2>2, <2>3 DEF LedgerInv, PollWakes, DoneKept
<1>6. CASE LookupReturns
  <2>1. PICK w \in todo :
          /\ todo' = todo \ {w}
          /\ \/ Accepted(w[1])
             \/ /\ rows' = put(rows, w[1], "outbox", w[2])
                /\ unsure' = unsure \ {w[1]}
             \/ /\ rows' = IF rows[w[1]].state = "uncertain" THEN defer_lookup(rows, w[1])
                           ELSE rows
                /\ unsure' = unsure
    BY <1>6 DEF LookupReturns
  <2> DEFINE x == w[1]
             y == w[2]
  <2>2. /\ pc = "lookup" /\ UNCHANGED <<pc, cur, flight, crossed>> /\ todo \subseteq Deliveries
        /\ cur = None
    BY <1>0, <1>6 DEF LookupReturns, TypeOK
  <2>3. x \in Keys /\ w = <<x, y>> /\ RowSound(x) /\ todo' \subseteq todo
    BY <2>1, <2>2 DEF Deliveries, LedgerInv
  <2>4. \A k \in Keys \ {x} : rows'[k] = rows[k] /\ (k \in unsure' => k \in unsure)
    <3>1. CASE Accepted(x)
      BY <2>3, <3>1, AnsweredWrites
    <3> QED
      BY <1>0, <2>1, <2>3, <3>1 DEF put, defer_lookup
  <2>5. \A k \in Keys \ {x} : RowSound(k)'
    <3> SUFFICES ASSUME NEW k \in Keys \ {x} PROVE RowSound(k)'
      OBVIOUS
    <3>1. RowSound(k)
      BY DEF LedgerInv
    <3> QED
      BY <2>2, <2>4, <3>1 DEF RowSound
  <2>6. CASE x \in crossed
    <3>1. \A k \in Keys : RowSound(k)'
      BY <2>2, <2>5, <2>6 DEF RowSound
    <3>2. LedgerInv'
      <4> HIDE DEF x, y
      <4> QED
        BY <1>0, <2>2, <2>3, <2>4, <2>6, <3>1, WriteStep
    <3> QED
      BY <2>4, <2>6, <3>2 DEF DoneKept
  <2>7. CASE x \notin crossed
    <3>1. rows[x].state = "uncertain" /\ rows[x].body = y
      BY <1>0, <2>2, <2>3, <2>7 DEF LookupSound, Waits
    <3>2. y \in Texts /\ rows[x].attempts < MaxAttempts
      BY <2>3, <2>7, <3>1 DEF RowSound, Awaiting
    <3>3. \A v \in todo' : v[1] # x
      BY <1>0, <2>1, <2>2, <2>3, <2>7, <3>1 DEF Deliveries, LookupSound, Waits
    <3>4. cur'[1] # x /\ \A v \in flight' : v[1] # x
      BY <1>0, <2>2, <2>3, <2>7, <3>1, FlagsAssumption DEF FlightSound, Waits, None
    <3>5. RowSound(x)'
      <4> HIDE DEF x, y
      <4>1. CASE Accepted(x)
        BY <2>2, <2>3, <3>1, <4>1, AnsweredSound
      <4>2. CASE rows' = put(rows, x, "outbox", y) /\ unsure' = unsure \ {x}
        <5>1. /\ rows'[x].state = "outbox" /\ rows'[x].body = y
              /\ rows'[x].attempts = rows[x].attempts
          BY <1>0, <2>3, <3>2, <4>2, PutRow DEF States
        <5> QED
          BY <3>2, <4>2, <5>1 DEF RowSound
      <4>3. CASE rows' = defer_lookup(rows, x) /\ unsure' = unsure
        <5>1. /\ rows'[x].state = rows[x].state /\ rows'[x].body = rows[x].body
              /\ rows'[x].attempts = rows[x].attempts
          BY <1>0, <2>3, <4>3, DeferRow
        <5> QED
          BY <2>2, <2>3, <4>3, <5>1, RowKept
      <4> QED
        BY <2>1, <3>1, <4>1, <4>2, <4>3 DEF x, y
    <3>6. \A k \in Keys : RowSound(k)'
      BY <2>5, <3>5
    <3>7. LedgerInv'
      <4> HIDE DEF x, y
      <4> QED
        BY <1>0, <2>2, <2>3, <2>4, <3>3, <3>4, <3>6, WriteStep
    <3> QED
      BY <2>4, <3>1, <3>7 DEF DoneKept
  <2> QED
    BY <2>6, <2>7
<1>7. CASE LookupsDone
  <2>1. /\ UNCHANGED <<rows, unsure, flight, cur>> /\ crossed \subseteq crossed'
        /\ pc' = "deliver" /\ todo' = pending(rows) /\ cur = None
        /\ \A v \in flight : v \in todo' => v[1] \in crossed'
    BY <1>0, <1>7 DEF LookupsDone, TypeOK
  <2>2. \A x \in Keys : RowSound(x)'
    BY <2>1, RowKept
  <2>3. \A w \in todo' : Waits(w, "outbox")' /\ w[1] # NoKey
    BY <2>1, FlagsAssumption DEF pending, Waits
  <2>4. FlightSound' /\ LookupSound'
    BY <1>0, <2>1 DEF FlightSound, LookupSound, Waits
  <2>5. ASSUME NEW v \in flight, v[1] \notin crossed', NEW w \in todo'
        PROVE  v[1] # w[1]
    <3>1. Waits(v, "outbox") /\ v = <<v[1], v[2]>>
      BY <1>0, <2>1, <2>5 DEF FlightSound
    <3>2. w = <<w[1], rows[w[1]].body>>
      BY <2>1 DEF pending
    <3> QED
      BY <2>1, <2>5, <3>1, <3>2 DEF Waits
  <2>6. \A v \in flight : v[1] # NoKey
    BY <1>0, FlagsAssumption
  <2>7. DeliverSound'
    BY <2>1, <2>3, <2>5, <2>6 DEF DeliverSound, None
  <2> QED
    BY <1>0, <2>1, <2>2, <2>4, <2>7 DEF LedgerInv, DoneKept
<1>8. CASE PollPosts
  <2>1. PICK w \in todo : todo' = todo \ {w} /\ cur' = w
    BY <1>8 DEF PollPosts
  <2>2. pc = "deliver" /\ pc' = "deliver" /\ UNCHANGED <<rows, flight, unsure, crossed>>
    BY <1>8 DEF PollPosts
  <2>3. \A x \in Keys : RowSound(x)'
    BY <2>2, RowKept
  <2>4. DeliverSound'
    <3>0. todo \subseteq Deliveries
      BY <1>0, <2>2 DEF TypeOK
    <3>1. \A v \in todo' : v[1] \notin crossed => Waits(v, "outbox") /\ v[1] # w[1]
      BY <1>0, <2>1, <2>2, <3>0 DEF DeliverSound, Waits, Deliveries
    <3>2. \A v \in flight :
            v[1] \notin crossed => v[1] # w[1] /\ \A u \in todo' : v[1] # u[1]
      BY <1>0, <2>1, <2>2 DEF DeliverSound
    <3>3. (\A v \in todo : v[1] \notin crossed => Waits(v, "outbox") /\ v[1] # cur[1])'
      BY <2>1, <2>2, <3>1 DEF Waits
    <3>4. (cur # None /\ cur[1] \notin crossed => Waits(cur, "outbox"))'
      BY <1>0, <2>1, <2>2 DEF Waits, DeliverSound
    <3>5. (\A v \in flight :
             v[1] \notin crossed => v[1] # cur[1] /\ \A u \in todo : v[1] # u[1])'
      BY <2>1, <2>2, <3>2
    <3> QED
      BY <3>3, <3>4, <3>5 DEF DeliverSound
  <2>5. FlightSound' /\ LookupSound'
    BY <1>0, <2>2 DEF FlightSound, LookupSound, Waits
  <2> QED
    BY <1>0, <2>2, <2>3, <2>4, <2>5 DEF LedgerInv, DoneKept
<1>b. ASSUME NEW x \in Keys, NEW y, Answered(x, y), crossed' = crossed, pc' = pc,
             todo' = todo, cur' \in {cur, None}, flight' \subseteq flight,
             x \notin crossed =>
               /\ rows[x].state = "outbox" /\ rows[x].body = y
               /\ \A v \in flight' : v[1] # x
               /\ pc \in {"lookup", "deliver"} => cur'[1] # x /\ \A w \in todo : w[1] # x
      PROVE  LedgerInv' /\ DoneKept
  <2>1. \A k \in Keys \ {x} : rows'[k] = rows[k] /\ (k \in unsure' => k \in unsure)
    BY <1>b, AnsweredWrites
  <2>2. CASE x \in crossed
    <3>1. ASSUME NEW k \in Keys PROVE RowSound(k)'
      <4>1. RowSound(k)
        BY DEF LedgerInv
      <4> QED
        BY <1>b, <2>1, <2>2, <4>1 DEF RowSound
    <3>2. LedgerInv'
      BY <1>0, <1>b, <2>1, <2>2, <3>1, WriteStep
    <3> QED
      BY <2>1, <2>2, <3>2 DEF DoneKept
  <2>3. CASE x \notin crossed
    <3>1. \A k \in Keys : RowSound(k)'
      BY <1>b, <2>3, AnsweredSound
    <3>2. LedgerInv'
      BY <1>0, <1>b, <2>1, <2>3, <3>1, WriteStep
    <3> QED
      BY <1>b, <2>1, <2>3, <3>2 DEF DoneKept
  <2> QED
    BY <2>2, <2>3
<1>9. CASE PollPostReturns
  <2>1. /\ pc = "deliver" /\ cur # None /\ Answered(cur[1], cur[2]) /\ cur' = None
        /\ UNCHANGED <<pc, todo, flight, crossed>>
    BY <1>9 DEF PollPostReturns
  <2> DEFINE x == cur[1]
             y == cur[2]
  <2>2. x \in Keys /\ cur'[1] # x
    BY <1>0, <2>1, FlagsAssumption DEF TypeOK, Deliveries, None
  <2>3. x \notin crossed =>
          /\ rows[x].state = "outbox" /\ rows[x].body = y
          /\ \A w \in todo : w[1] # x
          /\ \A v \in flight : v[1] # x
    <3>1. \A w \in todo : w[1] # x \/ x \in crossed
      BY <1>0, <2>1 DEF DeliverSound
    <3>2. \A v \in flight : v[1] # x \/ x \in crossed
      BY <1>0, <2>1 DEF DeliverSound
    <3> QED
      BY <1>0, <2>1, <3>1, <3>2 DEF DeliverSound, Waits
  <2>4. Answered(x, y)
    BY <2>1
  <2> HIDE DEF x, y
  <2> QED
    BY <1>b, <2>1, <2>2, <2>3, <2>4
<1>10. CASE SendReturns
  <2>1. PICK w \in flight : Answered(w[1], w[2]) /\ flight' = flight \ {w}
    BY <1>10 DEF SendReturns
  <2> DEFINE x == w[1]
             y == w[2]
  <2>2. UNCHANGED <<pc, todo, cur, crossed>>
    BY <1>10 DEF SendReturns, poll
  <2>3. /\ x \in Keys
        /\ x \notin crossed => /\ rows[x].state = "outbox" /\ rows[x].body = y
                              /\ \A v \in flight' : v[1] # x
    BY <1>0, <2>1 DEF FlightSound, Waits
  <2>4. x \notin crossed /\ pc \in {"lookup", "deliver"} =>
          cur'[1] # x /\ \A v \in todo : v[1] # x
    BY <1>0, <2>2, <2>3, FlagsAssumption DEF TypeOK, LookupSound, DeliverSound, Waits, None
  <2>5. Answered(x, y) /\ flight' \subseteq flight
    BY <2>1
  <2> HIDE DEF x, y
  <2> QED
    BY <1>b, <2>2, <2>3, <2>4, <2>5
<1>11. CASE DeliveriesDone
  <2>1. CASE channel.welcomed \/ Underway(Welcome)
    BY <1>11, <2>1, <1>a DEF DeliveriesDone
  <2>2. CASE ~(channel.welcomed \/ Underway(Welcome))
    <3>1. Dispatch(Welcome, "fetch") /\ UNCHANGED <<unsure, flight, todo, crossed>>
      BY <1>11, <2>2 DEF DeliveriesDone
    <3>2. AwaitingKept /\ DoneKept /\ \A k \in Keys : RowSound(k)'
      BY <3>1, DispatchSound, KeysOf
    <3>3. pc' \in {"fetch", "turn"}
      BY <3>1, KeysOf, DispatchTypes, <1>0
    <3> QED
      BY <1>0, <3>1, <3>2, <3>3, QuietStep
  <2> QED
    BY <2>1, <2>2
<1>12. CASE FetchMessages
  <2>1. mail \in SUBSET Keys
    BY <1>0 DEF TypeOK, Keys, Turns
  <2>2. \A k \in Keys : rows'[k] = IF k \in mail /\ rows[k].state = "absent"
                                   THEN [Absent EXCEPT !.state = "queued"] ELSE rows[k]
    BY <1>0, <1>12, <2>1, IngestRow DEF FetchMessages
  <2>3. unsure' = unsure /\ flight' = flight /\ pc' = "arrivals" /\ crossed' = crossed
    BY <1>12 DEF FetchMessages, history
  <2>4. ASSUME NEW k \in Keys PROVE RowSound(k)'
    <3>1. CASE k \in mail /\ rows[k].state = "absent"
      <4>1. rows'[k].state = "queued" /\ rows'[k].attempts = 0
        BY <2>2, <3>1 DEF Absent
      <4>2. k \notin crossed => k \notin unsure
        BY <3>1 DEF LedgerInv, RowSound
      <4> QED
        BY <2>3, <4>1, <4>2 DEF RowSound, Awaiting
    <3>2. CASE ~(k \in mail /\ rows[k].state = "absent")
      BY <2>2, <2>3, <3>2, RowKept
    <3> QED
      BY <3>1, <3>2
  <2>5. AwaitingKept /\ DoneKept
    BY <2>2 DEF AwaitingKept, DoneKept, Awaiting
  <2> QED
    BY <1>0, <2>3, <2>4, <2>5, QuietStep
<1>13. CASE FetchFails
  BY <1>13, <1>a DEF FetchFails, history
<1>14. CASE TakeArrival
  <2>1. PICK w \in todo :
          /\ todo' = todo \ {w}
          /\ IF w[2] = "queued" THEN _receive(w[1])
             ELSE IF w[1] = Welcome THEN Skip
             ELSE _resume(w[1])
    BY <1>14 DEF TakeArrival
  <2> DEFINE x == w[1]
  <2>2. /\ pc = "arrivals" /\ todo \subseteq Arrivals
        /\ UNCHANGED <<flight, unsure>> /\ crossed \subseteq crossed'
        /\ \A k \in Keys : rows[k].state \in {"outbox", "uncertain"} /\ rows'[k].state = "done"
                          => k \in crossed'
    BY <1>0, <1>14 DEF TakeArrival, TypeOK
  <2>3. x \in Turns /\ x \in Keys
    BY <2>2, KeysOf DEF Arrivals
  <2>4. Skip \/ Dispatch(x, "arrivals") \/ Drop(x)
    BY <2>1 DEF _receive, _resume
  <2> HIDE DEF x
  <2>5. /\ AwaitingKept /\ DoneKept /\ \A k \in Keys : RowSound(k)'
        /\ pc' \in {"arrivals", "turn"}
    <3>1. CASE Skip
      BY <2>2, <3>1, RowKept DEF Skip, AwaitingKept, DoneKept
    <3>2. CASE Drop(x)
      <4>1. /\ rows'[x].state = "done" /\ pc' = pc
            /\ \A k \in Keys \ {x} : rows'[k] = rows[k]
        BY <1>0, <2>3, <3>2, PutRow DEF Drop, States
      <4>2. rows[x].state \in Awaiting => x \in crossed'
        BY <2>2, <2>3, <4>1 DEF Awaiting
      <4>3. RowSound(x)'
        <5>1. RowSound(x)
          BY <2>3 DEF LedgerInv
        <5> QED
          BY <2>2, <4>1, <4>2, <5>1 DEF RowSound, Awaiting
      <4>4. \A k \in Keys : RowSound(k)'
        BY <2>2, <4>1, <4>3, RowKept
      <4> QED
        BY <2>2, <4>1, <4>2, <4>4 DEF AwaitingKept, DoneKept
    <3>3. CASE Dispatch(x, "arrivals")
      <4>1. AwaitingKept /\ DoneKept /\ \A k \in Keys : RowSound(k)'
        BY <2>2, <2>3, <3>3, DispatchSound
      <4> QED
        BY <1>0, <2>3, <3>3, <4>1, DispatchTypes
    <3> QED
      BY <2>4, <3>1, <3>2, <3>3
  <2> QED
    BY <1>0, <2>2, <2>5, QuietStep
<1>15. ASSUME NEW k \in Turns, NEW b \in Bodies, Send(k, b) PROVE LedgerInv' /\ DoneKept
  BY <1>0, <1>15, PutAndPostSound DEF Send
<1>16. ASSUME NEW n \in Notifications, NEW b \in Bodies, SendUnthreaded(n, b)
       PROVE  LedgerInv' /\ DoneKept
  BY <1>0, <1>16, PutAndPostSound, KeysOf DEF SendUnthreaded
<1> QED
  BY <1>1, <1>2, <1>3, <1>4, <1>5, <1>6, <1>7, <1>8, <1>9, <1>10, <1>11, <1>12, <1>13,
     <1>14, <1>15, <1>16 DEF Next, PollTask, Gateway, Environment

\* The invariant holds throughout.
LEMMA LedgerAlways == Spec => []LedgerInv
<1>1. LedgerInv /\ [Next]_vars => LedgerInv'
  BY LedgerStep
<1> QED
  BY LedgerInit, <1>1, PTL DEF Spec

\* Nothing leaves the Computer under a key whose acceptance is unknown.
LEMMA NoBlindStep ==
  ASSUME LedgerInv, [Next]_vars, NEW k \in Keys \ crossed, k \in unsure, Leaves(k)
  PROVE  FALSE
<1>0. /\ TypeOK /\ TypeInv /\ k \in Keys /\ rows[k].state = "uncertain"
      /\ DeliverSound
  BY DEF LedgerInv, TypeInv, TypeOK, RowSound
<1>1. PICK w \in Keys \X Texts :
        w[1] = k /\ (w \in (flight' \ flight) \/ (cur' = w /\ cur # w))
  BY DEF Leaves
<1>2. w # None /\ \A x : w # <<x, NoBody>>
  BY FlagsAssumption, BodiesAssumption DEF None
<1>3. CASE cur' = w /\ cur # w
  <2>1. PollPosts
    BY <1>2, <1>3 DEF Next, PollTask, Gateway, Environment, PollWakes, LookupReturns, LookupsDone,
       PollFindsNoPayload, PollPostReturns, FetchMessages, FetchFails, ArrivalsDone, TurnWaitEnds,
       DeliveriesDone, TakeArrival, Dispatch, _receive, _resume, Skip, Drop,
       Connect, Stop, RetryTimeReached, TurnGoesStale, MailArrives, OwnerChanges,
       PlatformSubmits, PlatformReconciles, Send, SendUnthreaded, PutAndPost, SendReturns,
       poll, vars
  <2>2. w \in todo /\ pc = "deliver"
    BY <1>3, <2>1 DEF PollPosts
  <2> QED
    BY <1>0, <1>1, <2>2 DEF DeliverSound, Waits
<1>4. CASE w \in flight' \ flight
  <2>1. \/ \E x \in Turns, b \in Bodies : Send(x, b)
        \/ \E n \in Notifications, b \in Bodies : SendUnthreaded(n, b)
    BY <1>4 DEF Next, PollTask, Gateway, Environment, PollWakes, LookupReturns, LookupsDone,
       PollPosts, PollFindsNoPayload, PollPostReturns, FetchMessages, FetchFails, ArrivalsDone,
       TurnWaitEnds, DeliveriesDone, TakeArrival,
       Connect, Stop, RetryTimeReached, TurnGoesStale, MailArrives, OwnerChanges,
       PlatformSubmits, PlatformReconciles, SendReturns, vars
  <2>2. \E b \in Bodies, x \in Turns \union Notifications :
          PutAndPost(x, b) /\ rows[x].state \in {"absent", "processing"}
    BY <2>1, KeysOf DEF Send, SendUnthreaded
  <2>3. PICK b \in Bodies, x \in Turns \union Notifications :
          PutAndPost(x, b) /\ rows[x].state \in {"absent", "processing"}
    BY <2>2
  <2>4. w = <<x, b>>
    BY <1>4, <2>3 DEF PutAndPost
  <2> QED
    BY <1>0, <1>1, <2>3, <2>4
<1> QED
  BY <1>1, <1>3, <1>4

\* Whatever waits in the outbox, or for a receipt, has its text and budget left:
\* no order of answers leaves a row that wedges the poll (_recover_outbox), but
\* under a key that the poll delivered beside its send(), which run email_wedged
\* shows, or that _resume dropped as a former owner's with its reply on its way.
THEOREM OutboxIsSoundHolds == Spec => []OutboxIsSound
<1>1. LedgerInv => OutboxIsSound
  BY BodiesAssumption DEF LedgerInv, RowSound, Awaiting, OutboxIsSound
<1> QED
  BY LedgerAlways, <1>1, PTL

\* But under such keys no email is sent a second time: nothing is posted under a
\* key whose acceptance is unknown, and nothing delivered is reopened.
THEOREM NothingResentHolds == Spec => NothingResent
<1> DEFINE A == \A k \in Keys \ crossed :
                  /\ k \in unsure => ~Leaves(k)
                  /\ rows[k].state = "done" => rows'[k].state = "done"
<1>1. LedgerInv /\ [Next]_vars => A
  BY NoBlindStep, LedgerStep DEF DoneKept
<1>2. LedgerInv /\ [Next]_vars => [A]_vars
  BY <1>1
<1> QED
  BY LedgerAlways, <1>2, PTL DEF Spec, NothingResent

-----------------------------------------------------------------------------
(* What becomes of a turn.                                                  *)

\* The poll task walks through arrivals with distinct keys, and a turn that it
\* has yet to take is as the query said, unless its reply was posted since.
ArrivalsSound ==
  pc \in {"arrivals", "turn"} =>
    \A w \in todo :
      /\ posted[w[1]] = {} => rows[w[1]].state = w[2]
      /\ \A v \in todo : v[1] = w[1] => v = w

\* A turn is on its way, or held, only once its reply was posted.
DutyInv ==
  /\ OneTextInv
  /\ \A k \in Turns : Touched(k) => posted[k] # {}
  /\ ArrivalsSound

\* What a step may do to a turn that has not been answered.
SettledStays(k) ==
  posted[k] = {} /\ rows[k].state \in {"done", "failed"}
    => rows'[k].state = rows[k].state
NoticedIfFailed(k) ==
  rows'[k].state = "failed"
    => rows[k].state = "failed" \/ posted'[k] # {} \/ rows'[NoticeOf(k)].state # "absent"
SameTurn(k) ==
  /\ posted'[k] = posted[k]
  /\ \/ rows'[k].state = rows[k].state
     \/ rows[k].state = "absent" /\ rows'[k].state = "queued"

\* At most the turn x is opened, answered or closed in a step.
OneTurn(x) ==
  /\ \A k \in Keys : /\ posted[k] \subseteq posted'[k]
                     /\ rows'[k].state = "absent" => rows[k].state = "absent"
  /\ \A k \in Turns : SettledStays(k) /\ NoticedIfFailed(k)
  /\ \A k \in Turns \ {x} : SameTurn(k)

\* The same, of a step that starts and closes no turn without posting for it.
QuietTurn(x) ==
  OneTurn(x) /\ \A k \in Turns : posted'[k] # {} \/ rows'[k].state = rows[k].state

\* A step that writes no state of a row, and posts nothing.
LEMMA SameRows ==
  ASSUME UNCHANGED posted, \A k \in Keys : rows'[k].state = rows[k].state
  PROVE  QuietTurn(Welcome)
BY KeysOf DEF QuietTurn, OneTurn, SettledStays, NoticedIfFailed, SameTurn

\* The answer of a delivery that is under way.
LEMMA AnsweredTurn ==
  ASSUME DutyInv, NEW x \in Keys, NEW y \in Texts \union {NoBody},
         <<x, y>> \in Carried, UNCHANGED posted,
         Answered(x, y) \/ rows' = put(rows, x, "outbox", y)
  PROVE  QuietTurn(x)
<1>0. rows \in [Keys -> Row] /\ TypeInv /\ Touched(x)
  BY DEF DutyInv, OneTextInv, TypeInv, TypeOK, Touched
<1>1. x \in Turns => posted[x] # {}
  BY <1>0 DEF DutyInv
<1>2. (\A k \in Keys \ {x} : rows'[k] = rows[k]) /\ rows'[x].state # "absent"
  <2>1. CASE Accepted(x)
    BY <1>0, <2>1, PutRow DEF Accepted, States
  <2>2. CASE AcceptanceUnknown(x, y)
    <3> DEFINE t == put(rows, x, "uncertain", y)
    <3>1. /\ t \in [Keys -> Row] /\ t[x].state = "uncertain"
          /\ \A k \in Keys \ {x} : t[k] = rows[k]
      BY <1>0, PutRow DEF States
    <3>2. rows' = defer_lookup(t, x)
      BY <2>2 DEF AcceptanceUnknown
    <3> HIDE DEF t
    <3> QED
      BY <3>1, <3>2, DeferRow
  <2>3. CASE Refused(x)
    <3>1. PICK terminal \in BOOLEAN : rows' = delivery_attempt(rows, x, terminal)
      BY <2>3 DEF Refused
    <3> QED
      BY <1>0, <3>1, AttemptRow
  <2>4. CASE rows' = put(rows, x, "outbox", y)
    BY <1>0, <2>4, PutRow DEF States
  <2> QED
    BY <2>1, <2>2, <2>3, <2>4 DEF Answered
<1> QED
  BY <1>1, <1>2, KeysOf DEF QuietTurn, OneTurn, SettledStays, NoticedIfFailed, SameTurn

\* A dispatch.
LEMMA DispatchTurn ==
  ASSUME DutyInv, NEW x \in Turns, NEW next, Dispatch(x, next), UNCHANGED posted
  PROVE  OneTurn(x)
<1>0. rows \in [Keys -> Row] /\ x \in Keys
  BY KeysOf DEF DutyInv, OneTextInv, TypeInv, TypeOK
<1>1. CASE MayStartTurn(rows, x) /\ BudgetLeft(rows, x)
  <2>1. rows'[x].state = "processing" /\ \A k \in Keys \ {x} : rows'[k] = rows[k]
    BY <1>0, <1>1, BeginRow DEF Dispatch
  <2>2. rows[x].state \notin {"done", "failed"}
    BY <1>1 DEF MayStartTurn
  <2> QED
    BY <2>1, <2>2, KeysOf DEF OneTurn, SettledStays, NoticedIfFailed, SameTurn
<1>2. CASE MayStartTurn(rows, x) /\ ~BudgetLeft(rows, x)
  <2> DEFINE n == NoticeOf(x)
  <2>1. n \in Keys \ Turns
    BY KeysOf
  <2>2. /\ rows'[x].state = "failed"
        /\ rows'[n] = IF rows[n].state = "absent"
                      THEN [Absent EXCEPT !.state = "outbox", !.body = NoticeBody]
                      ELSE rows[n]
        /\ \A k \in Keys \ {x, n} : rows'[k] = rows[k]
    BY <1>0, <1>2, QuarantineRow DEF Dispatch
  <2>3. rows'[n].state # "absent"
    BY <2>2 DEF Absent
  <2>4. NoticedIfFailed(x)
    BY <2>3 DEF NoticedIfFailed
  <2> HIDE DEF n
  <2>5. rows[x].state \notin {"done", "failed"}
    BY <1>2 DEF MayStartTurn
  <2>6. \A k \in Turns \ {x} : rows'[k] = rows[k]
    BY <2>1, <2>2, KeysOf
  <2>7. \A k \in Keys : rows'[k].state = "absent" => rows[k].state = "absent"
    BY <2>2, <2>3
  <2> QED
    BY <2>2, <2>4, <2>5, <2>6, <2>7 DEF OneTurn, SettledStays, NoticedIfFailed, SameTurn
<1>3. CASE ~MayStartTurn(rows, x)
  BY <1>3, KeysOf DEF Dispatch, OneTurn, SettledStays, NoticedIfFailed, SameTurn
<1> QED
  BY <1>1, <1>2, <1>3

\* send().
LEMMA PutAndPostTurn ==
  ASSUME DutyInv, NEW x \in Turns \union Notifications, NEW y \in Bodies,
         PutAndPost(x, y), rows[x].state \in {"absent", "processing"}
  PROVE  QuietTurn(x)
<1>0. rows \in [Keys -> Row] /\ x \in Keys /\ y \in Texts /\ posted \in [Keys -> SUBSET Texts]
  BY KeysOf DEF DutyInv, OneTextInv, TypeInv, TypeOK, Texts
<1>1. rows'[x].state = "outbox" /\ \A k \in Keys \ {x} : rows'[k] = rows[k]
  BY <1>0, PutRow DEF PutAndPost, States
<1>2. posted'[x] = posted[x] \union {y} /\ \A k \in Keys \ {x} : posted'[k] = posted[k]
  BY <1>0 DEF PutAndPost, PostLeaves
<1> QED
  BY <1>1, <1>2, KeysOf DEF QuietTurn, OneTurn, SettledStays, NoticedIfFailed, SameTurn

\* A step that starts and closes no turn keeps the arrivals as the query said.
LEMMA QuietArrivals ==
  ASSUME DutyInv, NEW x, QuietTurn(x),
         \/ pc' \notin {"arrivals", "turn"}
         \/ pc \in {"arrivals", "turn"} /\ todo' \subseteq todo
         \/ todo' = {}
  PROVE  ArrivalsSound'
<1>1. CASE pc \in {"arrivals", "turn"} /\ todo' \subseteq todo
  <2>1. todo \subseteq Arrivals
    BY <1>1 DEF DutyInv, OneTextInv, TypeInv, TypeOK
  <2>2. ASSUME NEW w \in todo', posted'[w[1]] = {} PROVE rows'[w[1]].state = w[2]
    <3>1. w \in todo /\ w[1] \in Turns /\ w[1] \in Keys
      BY <1>1, <2>1, KeysOf DEF Arrivals
    <3>2. posted[w[1]] = {} /\ rows'[w[1]].state = rows[w[1]].state
      BY <2>2, <3>1 DEF QuietTurn, OneTurn
    <3> QED
      BY <1>1, <3>1, <3>2 DEF DutyInv, ArrivalsSound
  <2>3. \A w, v \in todo' : v[1] = w[1] => v = w
    BY <1>1 DEF DutyInv, ArrivalsSound
  <2> QED
    BY <2>2, <2>3 DEF ArrivalsSound
<1> QED
  BY <1>1 DEF ArrivalsSound

\* The arrivals query returns one row per key, as the ledger has it.
LEMMA QueryIsSound ==
  ASSUME todo' = arrivals(rows')
  PROVE  ArrivalsSound'
BY DEF ArrivalsSound, arrivals

\* Taking an arrival leaves the others as they were.
LEMMA OthersAsQueried ==
  ASSUME DutyInv, NEW w \in todo, pc = "arrivals", todo' = todo \ {w}, OneTurn(w[1])
  PROVE  ArrivalsSound'
<1>1. todo \subseteq Arrivals
  BY DEF DutyInv, OneTextInv, TypeInv, TypeOK
<1>2. ASSUME NEW v \in todo', posted'[v[1]] = {} PROVE rows'[v[1]].state = v[2]
  <2>1. v \in todo /\ v[1] \in Turns /\ v[1] \in Keys /\ v[2] # "absent"
    BY <1>1, KeysOf DEF Arrivals
  <2>2. v[1] # w[1]
    BY <2>1 DEF DutyInv, ArrivalsSound
  <2>3. posted[v[1]] = {} /\ rows[v[1]].state = v[2]
    BY <1>2, <2>1 DEF OneTurn, DutyInv, ArrivalsSound
  <2>4. SameTurn(v[1])
    BY <2>1, <2>2 DEF OneTurn
  <2> QED
    BY <2>1, <2>3, <2>4 DEF SameTurn
<1>3. \A u, v \in todo' : v[1] = u[1] => v = u
  BY DEF DutyInv, ArrivalsSound
<1> QED
  BY <1>2, <1>3 DEF ArrivalsSound

\* Every step concerns at most one turn.
LEMMA DutyStep ==
  ASSUME DutyInv, [Next]_vars
  PROVE  ArrivalsSound' /\ \E x \in Keys : OneTurn(x)
<1>0. /\ OneTextInv /\ TypeInv /\ TypeOK /\ rows \in [Keys -> Row]
      /\ posted \in [Keys -> SUBSET Texts] /\ Welcome \in Keys
  BY KeysOf DEF DutyInv, OneTextInv, TypeInv, TypeOK
<1>a. ASSUME UNCHANGED <<rows, posted>>,
             \/ pc' \notin {"arrivals", "turn"}
             \/ pc \in {"arrivals", "turn"} /\ todo' \subseteq todo
             \/ UNCHANGED <<pc, todo>>
      PROVE  ArrivalsSound' /\ \E x \in Keys : OneTurn(x)
  <2>1. QuietTurn(Welcome)
    BY <1>a, SameRows
  <2> QED
    BY <1>0, <1>a, <2>1, QuietArrivals DEF QuietTurn
<1>b. ASSUME NEW x \in Keys, QuietTurn(x), UNCHANGED pc, todo' \subseteq todo
      PROVE  ArrivalsSound' /\ \E z \in Keys : OneTurn(z)
  BY <1>b, QuietArrivals DEF QuietTurn
<1>1. CASE Connect \/ Stop \/ PollWakes \/ LookupsDone \/ PollFindsNoPayload \/ ArrivalsDone
           \/ TurnWaitEnds \/ OwnerChanges \/ UNCHANGED vars
  BY <1>1, <1>a DEF Connect, Stop, PollWakes, LookupsDone, PollFindsNoPayload, ArrivalsDone,
     TurnWaitEnds, OwnerChanges, vars, poll, history
<1>2. ASSUME NEW k \in Keys, PlatformSubmits(k) \/ PlatformReconciles(k)
      PROVE  ArrivalsSound' /\ \E x \in Keys : OneTurn(x)
  BY <1>2, <1>a DEF PlatformSubmits, PlatformReconciles, poll, history
<1>3. ASSUME NEW m \in Messages, MailArrives(m)
      PROVE  ArrivalsSound' /\ \E x \in Keys : OneTurn(x)
  BY <1>3, <1>a DEF MailArrives, poll, history
<1>4. ASSUME NEW k \in Keys, RetryTimeReached(k) \/ TurnGoesStale(k)
      PROVE  ArrivalsSound' /\ \E x \in Keys : OneTurn(x)
  <2>1. rows[k] \in Row
    BY <1>0
  <2>2. \A x \in Keys : rows'[x].state = rows[x].state
    BY <1>0, <1>4, <2>1 DEF RetryTimeReached, TurnGoesStale, Row
  <2>3. UNCHANGED <<posted, pc, todo>>
    BY <1>4 DEF RetryTimeReached, TurnGoesStale, poll, history
  <2> QED
    BY <1>0, <1>b, <2>2, <2>3, SameRows
<1>5. CASE LookupReturns
  <2>1. PICK w \in todo :
          /\ todo' = todo \ {w}
          /\ \/ Accepted(w[1])
             \/ rows' = put(rows, w[1], "outbox", w[2])
             \/ rows' = IF rows[w[1]].state = "uncertain" THEN defer_lookup(rows, w[1])
                        ELSE rows
    BY <1>5 DEF LookupReturns
  <2> DEFINE x == w[1]
             y == w[2]
  <2>2. x \in Keys /\ y \in Texts \union {NoBody} /\ w = <<x, y>> /\ w \in Carried
    BY <1>0, <1>5 DEF LookupReturns, TypeOK, Deliveries, Carried
  <2>3. pc' = pc /\ posted' = posted /\ todo' \subseteq todo
    BY <1>5, <2>1 DEF LookupReturns
  <2> HIDE DEF x, y
  <2>4. CASE Accepted(x) \/ rows' = put(rows, x, "outbox", y)
    <3>1. QuietTurn(x)
      BY <2>2, <2>3, <2>4, AnsweredTurn DEF Answered
    <3> QED
      BY <1>b, <2>2, <2>3, <3>1
  <2>5. CASE rows' = IF rows[x].state = "uncertain" THEN defer_lookup(rows, x) ELSE rows
    <3>1. \A k \in Keys : rows'[k].state = rows[k].state
      <4>1. CASE rows' = rows
        BY <4>1
      <4>2. CASE rows' = defer_lookup(rows, x)
        <5>1. /\ defer_lookup(rows, x)[x].state = rows[x].state
              /\ \A k \in Keys \ {x} : defer_lookup(rows, x)[k] = rows[k]
          BY <1>0, <2>2, DeferRow
        <5> QED
          BY <4>2, <5>1
      <4> QED
        BY <2>5, <4>1, <4>2
    <3> QED
      BY <1>0, <1>b, <2>3, <3>1, SameRows
  <2> QED
    BY <2>1, <2>4, <2>5 DEF x, y
<1>6. CASE PollPosts
  <2>1. PICK w \in todo : todo' = todo \ {w} /\ PostLeaves(w[1], w[2]) /\ w[2] # NoBody
    BY <1>6 DEF PollPosts
  <2>2. w[1] \in Keys /\ w[2] \in Texts /\ pc' = pc /\ rows' = rows /\ todo' \subseteq todo
    BY <1>0, <1>6, <2>1 DEF PollPosts, TypeOK, Deliveries
  <2>3. /\ posted'[w[1]] = posted[w[1]] \union {w[2]}
        /\ \A k \in Keys \ {w[1]} : posted'[k] = posted[k]
    BY <1>0, <2>1, <2>2 DEF PostLeaves
  <2>4. QuietTurn(w[1])
    BY <2>2, <2>3, KeysOf DEF QuietTurn, OneTurn, SettledStays, NoticedIfFailed, SameTurn
  <2> QED
    BY <1>b, <2>2, <2>4
<1>7. CASE PollPostReturns
  <2>1. cur \in Carried /\ cur = <<cur[1], cur[2]>>
        /\ cur[1] \in Keys /\ cur[2] \in Texts \union {NoBody}
    BY <1>0, <1>7 DEF PollPostReturns, TypeOK, Deliveries, Carried
  <2>2. Answered(cur[1], cur[2]) /\ UNCHANGED <<posted, pc, todo>>
    BY <1>7 DEF PollPostReturns
  <2>3. QuietTurn(cur[1])
    BY <2>1, <2>2, AnsweredTurn
  <2> QED
    BY <1>b, <2>1, <2>2, <2>3
<1>8. CASE SendReturns
  <2>1. PICK w \in flight : Answered(w[1], w[2])
    BY <1>8 DEF SendReturns
  <2>2. w \in Carried /\ w = <<w[1], w[2]>> /\ w[1] \in Keys /\ w[2] \in Texts \union {NoBody}
    BY <1>0 DEF TypeOK, Carried, Deliveries
  <2>3. UNCHANGED <<posted, pc, todo>>
    BY <1>8 DEF SendReturns, poll
  <2>4. QuietTurn(w[1])
    BY <2>1, <2>2, <2>3, AnsweredTurn
  <2> QED
    BY <1>b, <2>2, <2>3, <2>4
<1>9. CASE DeliveriesDone
  <2>1. CASE channel.welcomed \/ Underway(Welcome)
    BY <1>9, <2>1, <1>a DEF DeliveriesDone
  <2>2. CASE ~(channel.welcomed \/ Underway(Welcome))
    <3>1. Dispatch(Welcome, "fetch") /\ posted' = posted /\ todo' = {}
      BY <1>9, <2>2 DEF DeliveriesDone
    <3>2. OneTurn(Welcome)
      BY <3>1, DispatchTurn, KeysOf
    <3> QED
      BY <1>0, <3>1, <3>2 DEF ArrivalsSound
  <2> QED
    BY <2>1, <2>2
<1>10. CASE FetchMessages
  <2>1. mail \in SUBSET Keys
    BY <1>0 DEF TypeOK, Keys, Turns
  <2>2. \A k \in Keys : rows'[k] = IF k \in mail /\ rows[k].state = "absent"
                                   THEN [Absent EXCEPT !.state = "queued"] ELSE rows[k]
    BY <1>0, <1>10, <2>1, IngestRow DEF FetchMessages
  <2>3. posted' = posted /\ todo' = arrivals(rows')
    BY <1>10 DEF FetchMessages, history
  <2>4. \A k \in Keys : \/ rows'[k].state = rows[k].state
                        \/ rows[k].state = "absent" /\ rows'[k].state = "queued"
    BY <2>2 DEF Absent
  <2>5. OneTurn(Welcome)
    BY <2>3, <2>4, KeysOf DEF OneTurn, SettledStays, NoticedIfFailed, SameTurn
  <2> QED
    BY <1>0, <2>3, <2>5, QueryIsSound
<1>11. CASE FetchFails
  <2>1. CASE pc' = "sleep"
    BY <1>11, <2>1, <1>a DEF FetchFails, history
  <2>2. CASE todo' = arrivals(rows)
    <3>1. rows' = rows /\ posted' = posted
      BY <1>11 DEF FetchFails, history
    <3> QED
      BY <1>0, <2>2, <3>1, SameRows, QueryIsSound DEF QuietTurn
  <2> QED
    BY <1>11, <2>1, <2>2 DEF FetchFails
<1>12. CASE TakeArrival
  <2>1. PICK w \in todo :
          /\ todo' = todo \ {w}
          /\ IF w[2] = "queued" THEN _receive(w[1])
             ELSE IF w[1] = Welcome THEN Skip
             ELSE _resume(w[1])
    BY <1>12 DEF TakeArrival
  <2> DEFINE x == w[1]
  <2>2. /\ x \in Turns /\ x \in Keys /\ w[2] \in {"queued", "processing"}
        /\ pc = "arrivals" /\ posted' = posted
    BY <1>0, <1>12, KeysOf DEF TakeArrival, TypeOK, Arrivals
  <2>3. OneTurn(x)
    <3>1. CASE Skip
      BY <2>2, <3>1, KeysOf DEF Skip, OneTurn, SettledStays, NoticedIfFailed, SameTurn
    <3>2. CASE Drop(x)
      <4>1. /\ rows'[x].state = "done"
            /\ \A k \in Keys \ {x} : rows'[k] = rows[k]
        BY <1>0, <2>2, <3>2, PutRow DEF Drop, States
      <4>2. posted[x] = {} => rows[x].state \notin {"done", "failed"}
        BY <2>2 DEF DutyInv, ArrivalsSound
      <4> HIDE DEF x
      <4> QED
        BY <2>2, <4>1, <4>2, KeysOf DEF OneTurn, SettledStays, NoticedIfFailed, SameTurn
    <3>3. CASE Dispatch(x, "arrivals")
      BY <2>2, <3>3, DispatchTurn
    <3> QED
      BY <2>1, <3>1, <3>2, <3>3 DEF _receive, _resume
  <2> QED
    BY <2>1, <2>2, <2>3, OthersAsQueried
<1>13. ASSUME NEW k \in Keys, NEW b \in Bodies, k \in Turns \union Notifications,
              PutAndPost(k, b), rows[k].state \in {"absent", "processing"}
       PROVE  ArrivalsSound' /\ \E x \in Keys : OneTurn(x)
  <2>1. QuietTurn(k)
    BY <1>13, PutAndPostTurn
  <2> QED
    BY <1>13, <1>b, <2>1 DEF PutAndPost, poll
<1>14. ASSUME NEW k \in Turns, NEW b \in Bodies, Send(k, b)
       PROVE  ArrivalsSound' /\ \E x \in Keys : OneTurn(x)
  BY <1>13, <1>14, KeysOf DEF Send
<1>15. ASSUME NEW n \in Notifications, NEW b \in Bodies, SendUnthreaded(n, b)
       PROVE  ArrivalsSound' /\ \E x \in Keys : OneTurn(x)
  BY <1>13, <1>15, KeysOf DEF SendUnthreaded
<1> QED
  BY <1>1, <1>2, <1>3, <1>4, <1>5, <1>6, <1>7, <1>8, <1>9, <1>10, <1>11, <1>12,
     <1>14, <1>15 DEF Next, PollTask, Gateway, Environment

\* The invariant of this section holds at first, and throughout.
LEMMA DutyInit == Init => DutyInv
<1> SUFFICES ASSUME Init PROVE DutyInv
  OBVIOUS
<1>1. \A k \in Keys : rows[k].state = "absent" /\ rows[k].body = NoBody /\ posted[k] = {}
  BY DEF Init, EmptyTable, Absent
<1>2. Carried = {}
  BY DEF Init, Carried
<1>3. \A k \in Keys : ~Touched(k)
  BY <1>1, <1>2, BodiesAssumption DEF Touched, Held, Awaiting
<1>4. ArrivalsSound
  BY DEF Init, ArrivalsSound
<1> QED
  BY <1>3, <1>4, OneTextInit, KeysOf DEF DutyInv

\* So every turn keeps its duty.
LEMMA DutyAlways == Spec => []DutyInv
<1>1. DutyInv /\ [Next]_vars => DutyInv'
  <2> SUFFICES ASSUME DutyInv, [Next]_vars PROVE DutyInv'
    OBVIOUS
  <2>1. OneTextInv' /\ \A k \in Keys : Moves(k)
    BY StepMoves, MovesSuffice, TypeStep DEF DutyInv, OneTextInv
  <2>2. PICK x \in Keys : OneTurn(x)
    BY DutyStep
  <2>3. ASSUME NEW k \in Turns, Touched(k)' PROVE posted'[k] # {}
    <3>1. k \in Keys /\ k \notin Notices /\ posted[k] \subseteq posted'[k]
      BY <2>2, KeysOf DEF OneTurn, Notices
    <3>2. CASE Keeps(k)
      BY <2>3, <3>1, <3>2 DEF Keeps, DutyInv
    <3>3. CASE Posts(k)
      BY <3>3 DEF Posts
    <3> QED
      BY <2>1, <3>1, <3>2, <3>3 DEF Moves, Noticed, Notices
  <2> QED
    BY <2>1, <2>3, DutyStep DEF DutyInv
<1> QED
  BY DutyInit, <1>1, PTL DEF Spec

\* A turn given up without any reply has its notice in the ledger: start_turn
\* quarantines and enqueues at once, a delivery fails only after it was posted,
\* and no step removes a row.
THEOREM SilenceIsExplainedHolds == Spec => []SilenceIsExplained
<1>1. Init => SilenceIsExplained
  <2> SUFFICES ASSUME Init PROVE SilenceIsExplained
    OBVIOUS
  <2>1. \A k \in Turns : rows[k].state = "absent"
    BY KeysOf DEF Init, EmptyTable, Absent
  <2> QED
    BY <2>1 DEF SilenceIsExplained
<1>2. SilenceIsExplained /\ DutyInv /\ [Next]_vars => SilenceIsExplained'
  <2> SUFFICES ASSUME SilenceIsExplained, DutyInv, [Next]_vars, NEW k \in Turns,
                      rows'[k].state = "failed", posted'[k] = {}
               PROVE  rows'[NoticeOf(k)].state # "absent"
    BY DEF SilenceIsExplained
  <2>1. PICK x \in Keys : OneTurn(x)
    BY DutyStep
  <2>2. /\ posted[k] = {} /\ NoticedIfFailed(k)
        /\ rows'[NoticeOf(k)].state = "absent" => rows[NoticeOf(k)].state = "absent"
    BY <2>1, KeysOf DEF OneTurn
  <2> QED
    BY <2>2 DEF NoticedIfFailed, SilenceIsExplained
<1> QED
  BY <1>1, <1>2, DutyAlways, PTL DEF Spec

\* A step closes at most one open turn, and no closed turn changes.
LEMMA OutcomeStep ==
  ASSUME DutyInv, DutyInv', [Next]_vars
  PROVE  [Duty!Next]_([k \in Turns |-> Outcome(k)])
<1> DEFINE out == [k \in Turns |-> Outcome(k)]
<1>1. PICK x \in Keys : OneTurn(x)
  BY DutyStep
<1>2. \A k \in Turns \ {x} : Outcome(k)' = Outcome(k)
  <2> SUFFICES ASSUME NEW k \in Turns \ {x} PROVE Outcome(k)' = Outcome(k)
    OBVIOUS
  <2>1. SameTurn(k)
    BY <1>1 DEF OneTurn
  <2> QED
    BY <2>1 DEF SameTurn, Outcome
<1>3. CASE x \notin Turns
  <2>1. out' = out
    BY <1>2, <1>3
  <2> QED
    BY <2>1
<1>4. CASE x \in Turns
  <2>0. x \in Keys /\ posted[x] \subseteq Texts /\ posted'[x] \subseteq Texts
    BY <1>4, KeysOf DEF DutyInv, OneTextInv, TypeInv, TypeOK
  <2>1. CASE posted[x] # {}
    <3>1. \A a, b \in posted'[x] : a = b
      <4>1. posted'[x] \subseteq Held(x)'
        BY <2>0 DEF Held
      <4> QED
        BY <2>0, <4>1 DEF DutyInv, OneTextInv
    <3>2. posted'[x] = posted[x]
      BY <1>1, <2>0, <2>1, <3>1 DEF OneTurn
    <3>3. Outcome(x)' = Outcome(x)
      BY <2>1, <3>2 DEF Outcome
    <3>4. out' = out
      BY <1>2, <3>3
    <3> QED
      BY <3>4
  <2>2. CASE posted[x] = {} /\ posted'[x] # {}
    <3>1. ~Touched(x)
      BY <1>4, <2>2 DEF DutyInv
    <3>2. ~Keeps(x)
      <4>1. Held(x) = {}
        BY <3>1 DEF Touched
      <4>2. posted'[x] \subseteq Held(x)'
        BY <2>0 DEF Held
      <4> QED
        BY <2>2, <4>1, <4>2 DEF Keeps
    <3>3. Posts(x)
      <4>1. Moves(x)
        BY <2>0, StepMoves DEF DutyInv
      <4> QED
        BY <1>4, <3>2, <4>1, KeysOf DEF Moves, Noticed
    <3>4. PICK b \in Bodies : posted'[x] = {b}
      BY <3>3 DEF Posts
    <3>5. Outcome(x)' = b
      BY <3>4 DEF Outcome
    <3>6. Outcome(x) = "open"
      BY <2>2, <3>3 DEF Posts, Final, Outcome
    <3>7. out' = [out EXCEPT ![x] = b]
      BY <1>2, <1>4, <3>5
    <3>8. Duty!Close(x)
      BY <1>4, <3>6, <3>7 DEF Duty!Close, Duty!Open
    <3> QED
      BY <1>4, <3>8 DEF Duty!Next
  <2>3. CASE posted[x] = {} /\ posted'[x] = {}
    <3>1. CASE rows[x].state \in {"done", "failed"}
      <4>1. Outcome(x)' = Outcome(x)
        BY <1>1, <1>4, <2>3, <3>1 DEF OneTurn, SettledStays, Outcome
      <4>2. out' = out
        BY <1>2, <4>1
      <4> QED
        BY <4>2
    <3>2. CASE rows[x].state \notin {"done", "failed"}
      <4>1. Outcome(x) = "open" /\ Outcome(x)' \in {"open", "noticed", "dropped"}
        BY <2>3, <3>2 DEF Outcome
      <4>2. CASE Outcome(x)' = "open"
        <5>1. out' = out
          BY <1>2, <4>1, <4>2
        <5> QED
          BY <5>1
      <4>3. CASE Outcome(x)' # "open"
        <5>1. out' = [out EXCEPT ![x] = Outcome(x)']
          BY <1>2, <1>4
        <5>2. Duty!Close(x)
          BY <1>4, <4>1, <4>3, <5>1 DEF Duty!Close, Duty!Open, Duty!Dropped, Duty!Noticed
        <5> QED
          BY <1>4, <5>2 DEF Duty!Next
      <4> QED
        BY <4>2, <4>3
    <3> QED
      BY <3>1, <3>2
  <2> QED
    BY <2>1, <2>2, <2>3
<1> QED
  BY <1>3, <1>4

\* The adapter implements EmailDuty: every turn is closed at most once, by one
\* reply, by the failure notice or by being dropped, whatever is retried.
THEOREM ImplementsDutyHolds == Spec => ImplementsDuty
<1>1. Init => Duty!Init
  <2> SUFFICES ASSUME Init PROVE Duty!Init
    OBVIOUS
  <2>1. \A k \in Turns : Outcome(k) = "open"
    BY KeysOf DEF Init, EmptyTable, Absent, Outcome
  <2> QED
    BY <2>1 DEF Duty!Init, Duty!Open
<1>2. DutyInv /\ DutyInv' /\ [Next]_vars => [Duty!Next]_([k \in Turns |-> Outcome(k)])
  BY OutcomeStep
<1> QED
  BY <1>1, <1>2, DutyAlways, PTL DEF Spec, ImplementsDuty, Duty!Spec

\* A turn is begun only for mail of the owner as last fetched, when it arrives
\* and when it is resumed after a restart or a change of owner.
THEOREM OnlyOwnerTurnsHolds == Spec => OnlyOwnerTurns
<1>1. ASSUME TypeInv, NEW x \in Turns, NEW next, Dispatch(x, next),
             NEW m \in Messages, begun'[m] # begun[m]
      PROVE  m = x
  <2>1. begun \in [Keys -> Nat] /\ m \in Keys
    BY <1>1 DEF TypeInv, TypeOK, Keys, Turns
  <2>2. begun' = [begun EXCEPT ![x] = @ + 1] \/ begun' = begun
    BY <1>1 DEF Dispatch
  <2> QED
    BY <1>1, <2>1, <2>2
<1>2. ASSUME TypeInv, [Next]_vars, NEW m \in Messages, begun'[m] # begun[m]
      PROVE  Sender[m] = channel.owner
  <2>1. DeliveriesDone \/ TakeArrival
    BY <1>2 DEF Next, PollTask, Gateway, Environment, PollWakes, LookupReturns, LookupsDone,
       PollPosts, PollFindsNoPayload, PollPostReturns, FetchMessages, FetchFails, ArrivalsDone,
       TurnWaitEnds, Connect, Stop, RetryTimeReached, TurnGoesStale, MailArrives, OwnerChanges,
       PlatformSubmits, PlatformReconciles, Send, SendUnthreaded, PutAndPost, SendReturns,
       history, vars
  <2>2. CASE DeliveriesDone
    <3>1. Dispatch(Welcome, "fetch")
      BY <1>2, <2>2 DEF DeliveriesDone
    <3> QED
      BY <1>1, <1>2, <3>1, KeysOf, KeysAssumption
  <2>3. CASE TakeArrival
    <3>1. PICK w \in todo :
            IF w[2] = "queued" THEN _receive(w[1])
            ELSE IF w[1] = Welcome THEN Skip
            ELSE _resume(w[1])
      BY <2>3 DEF TakeArrival
    <3>2. w[1] \in Turns
      BY <1>2, <2>3 DEF TakeArrival, TypeInv, TypeOK, Arrivals
    <3>3. Dispatch(w[1], "arrivals") /\ Authenticated(w[1])
      BY <1>2, <3>1 DEF _receive, _resume, Skip, Drop
    <3>4. m = w[1]
      BY <1>1, <1>2, <3>2, <3>3
    <3> QED
      BY <3>3, <3>4 DEF Authenticated
  <2> QED
    BY <2>1, <2>2, <2>3
<1>3. TypeInv /\ [Next]_vars => [\A m \in Messages : begun'[m] # begun[m] => Sender[m] = channel.owner]_vars
  BY <1>2
<1>4. Spec => []TypeInv
  BY TypeInit, TypeStep, PTL DEF Spec
<1> QED
  BY <1>3, <1>4, PTL DEF Spec, OnlyOwnerTurns
=============================================================================
