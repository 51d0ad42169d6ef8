------------------------ MODULE EmailFrameworksProofs -----------------------
(* Proofs of the safety properties of EmailFrameworks.  Every step, of     *)
(* Hermes or of the native receiver, makes one of a few moves with each    *)
(* message; the moves keep the invariant, whoever made them.               *)
EXTENDS EmailFrameworks, EmailChannelProofs

-----------------------------------------------------------------------------
(* The invariant.                                                          *)

\* Nothing of Hermes outlives its process.
DownInv == ~up => pc = "down" /\ todo = {} /\ cur = None /\ live = {} /\ flight = {}

\* What is at the platform, or on its way there, was posted.
PostedInv ==
  /\ \A w \in flight : posted[w[1]] # {}
  /\ pc = "deliver" /\ cur # None => posted[cur[1]] # {}
  /\ \A k \in Keys : plat[k] # "none" => posted[k] # {}

\* Hermes still holds something under this key: its turn, or a delivery.
Engaged(k) == k \in live \/ \E w \in Carried : w[1] = k

\* What Hermes never began is not under way there, and what is queued was
\* never begun and has handoffs left.
FreshInv ==
  \A m \in Messages :
    /\ rows[m].state \in {"absent", "queued"} => begun[m] = 0
    /\ rows[m].state = "queued" => rows[m].turns < HandoffLimit
    /\ begun[m] = 0 => /\ rows[m].state \in {"absent", "queued", "done", "failed"}
                       /\ ~Engaged(m)

\* The native walk is over rows that are as the query returned them: Hermes is
\* down, and the walk itself visits a row once.
WalkInv ==
  /\ native # "off" => ~up
  /\ native \in {"off", "idle"} => walk = {}
  /\ native \in Messages => native \in inbox /\ \A w \in walk : w[1] # native
  /\ \A w \in walk : rows[w[1]].state = w[2]
  /\ rows[Welcome].state # "queued"

FrameworksInv ==
  /\ TypeInv
  /\ FrameworksTypeOK
  /\ DownInv
  /\ PostedInv
  /\ FreshInv
  /\ WalkInv
  /\ NoSilentLoss

-----------------------------------------------------------------------------
(* The moves of a step.                                                    *)

Rests(m) ==
  /\ rows'[m].state = rows[m].state
  /\ rows'[m].turns = rows[m].turns
  /\ begun'[m] = begun[m]

Queues(m) ==
  /\ rows[m].state = "absent"
  /\ rows'[m].state = "queued"
  /\ rows'[m].turns = 0
  /\ begun'[m] = begun[m]

Begins(m) ==
  /\ rows[m].state \in {"absent", "queued", "processing"}
  /\ rows'[m].state = "processing"
  /\ begun'[m] = begun[m] + 1

GivesUp(m) ==
  /\ rows[m].state \in {"absent", "queued", "processing"}
  /\ rows'[m].state = "failed"
  /\ begun'[m] = begun[m]

Retries(m) ==
  /\ rows[m].state = "queued"
  /\ rows'[m].state = "queued"
  /\ rows'[m].turns < HandoffLimit
  /\ begun'[m] = begun[m]

Drops(m) ==
  /\ rows'[m].state = "done"
  /\ Owners # {Sender[m]}
  /\ begun'[m] = begun[m]

Delivers(m) ==
  /\ begun[m] # 0
  /\ rows'[m].state \in {"outbox", "uncertain", "done", "failed"}
  /\ rows'[m].state = "done" => posted'[m] # {}
  /\ begun'[m] = begun[m]

HandsOver(m) ==
  /\ rows'[m].state = "done"
  /\ m \in inbox'
  /\ begun'[m] = begun[m]

MailMove(m) ==
  \/ Rests(m) \/ Queues(m) \/ Begins(m) \/ GivesUp(m)
  \/ Retries(m) \/ Drops(m) \/ Delivers(m) \/ HandsOver(m)

\* Hermes comes to hold only what was begun, and the welcome is never queued.
MailMoves ==
  /\ \A m \in Messages : /\ MailMove(m)
                         /\ Engaged(m)' => Engaged(m) \/ begun'[m] # 0
  /\ rows'[Welcome].state = "queued" => rows[Welcome].state = "queued"

\* A message is a key; the welcome and the notices are no messages.
LEMMA MessageKeys ==
  /\ Messages \subseteq Keys
  /\ Messages \subseteq Turns
  /\ Welcome \in Keys \ Messages
  /\ \A k \in Turns : NoticeOf(k) \in Keys \ Messages /\ NoticeOf(k) # Welcome
<1>1. Messages \subseteq Turns /\ Welcome \notin Messages
  BY KeysAssumption DEF Turns
<1> QED
  BY <1>1, KeysOf

\* Whoever makes them, the moves keep the books and lose nothing.
LEMMA MovesKeepBooks ==
  ASSUME FrameworksInv, MailMoves, begun' \in [Keys -> Nat],
         \A m \in Messages : posted[m] # {} => posted'[m] # {},
         inbox \subseteq inbox'
  PROVE  FreshInv' /\ NoSilentLoss'
<1>1. SUFFICES ASSUME NEW m \in Messages
               PROVE  /\ rows'[m].state \in {"absent", "queued"} => begun'[m] = 0
                      /\ rows'[m].state = "queued" => rows'[m].turns < HandoffLimit
                      /\ begun'[m] = 0 =>
                           /\ rows'[m].state \in {"absent", "queued", "done", "failed"}
                           /\ ~Engaged(m)'
                      /\ rows'[m].state = "done" /\ Owners = {Sender[m]}
                           => posted'[m] # {} \/ m \in inbox'
  BY DEF FreshInv, NoSilentLoss
<1>2. /\ begun[m] \in Nat /\ begun'[m] \in Nat
      /\ rows[m].state \in {"absent", "queued"} => begun[m] = 0
      /\ rows[m].state = "queued" => rows[m].turns < HandoffLimit
      /\ begun[m] = 0 => /\ rows[m].state \in {"absent", "queued", "done", "failed"}
                         /\ ~Engaged(m)
      /\ rows[m].state = "done" /\ Owners = {Sender[m]} => posted[m] # {} \/ m \in inbox
  BY MessageKeys DEF FrameworksInv, FreshInv, NoSilentLoss, TypeInv, TypeOK
<1>3. MailMove(m) /\ (Engaged(m)' => Engaged(m) \/ begun'[m] # 0)
  BY DEF MailMoves
<1>4. posted[m] # {} => posted'[m] # {}
  OBVIOUS
<1>5. Engaged(m)' => begun'[m] # 0
  BY <1>2, <1>3 DEF MailMove, Rests, Queues, Begins, GivesUp, Retries, Drops, Delivers, HandsOver
<1>6. CASE Rests(m)
  BY <1>2, <1>4, <1>5, <1>6 DEF Rests
<1>7. CASE Queues(m) \/ Retries(m)
  BY <1>2, <1>5, <1>7, HandoffAssumption DEF Queues, Retries
<1>8. CASE Begins(m)
  BY <1>2, <1>5, <1>8 DEF Begins
<1>9. CASE GivesUp(m) \/ Drops(m) \/ Delivers(m) \/ HandsOver(m)
  BY <1>2, <1>5, <1>9 DEF GivesUp, Drops, Delivers, HandsOver
<1> QED
  BY <1>3, <1>6, <1>7, <1>8, <1>9 DEF MailMove

-----------------------------------------------------------------------------
(* Hermes.                                                                 *)

\* Steps that leave states, charges and histories alone, and take up nothing.
LEMMA QuietMoves ==
  ASSUME \A k \in Keys : rows'[k].state = rows[k].state /\ rows'[k].turns = rows[k].turns,
         UNCHANGED begun, live' \subseteq live, Carried' \subseteq Carried
  PROVE  MailMoves
<1>1. \A m \in Messages : Rests(m) /\ (Engaged(m)' => Engaged(m))
  BY MessageKeys DEF Rests, Engaged
<1> QED
  BY <1>1, MessageKeys DEF MailMoves, MailMove

\* The answer to a delivery of x.
LEMMA AnswerMoves ==
  ASSUME FrameworksInv, NEW x \in Keys, NEW y \in Texts \union {NoBody}, Answered(x, y),
         x \in Messages => begun[x] # 0, UNCHANGED <<begun, posted>>,
         live' \subseteq live, Carried' \subseteq Carried
  PROVE  MailMoves
<1> rows \in [Keys -> Row] /\ posted[x] = posted'[x]
  BY DEF FrameworksInv, TypeInv, TypeOK
<1>1. /\ rows'[x].state \in {"outbox", "uncertain", "done", "failed"}
      /\ rows'[x].state = "done" => posted[x] # {}
      /\ \A k \in Keys \ {x} : rows'[k] = rows[k]
  <2>1. CASE Accepted(x)
    BY <2>1, PutRow DEF Accepted, States, FrameworksInv, PostedInv
  <2>2. CASE AcceptanceUnknown(x, y)
    <3> DEFINE t == put(rows, x, "uncertain", y)
    <3>1. /\ t \in [Keys -> Row] /\ t[x].state = "uncertain"
          /\ \A k \in Keys \ {x} : t[k] = rows[k]
      BY PutRow DEF States
    <3>2. rows' = defer_lookup(t, x)
      BY <2>2 DEF AcceptanceUnknown
    <3> HIDE DEF t
    <3> QED
      BY <3>1, <3>2, DeferRow
  <2>3. CASE Refused(x)
    <3>1. PICK terminal \in BOOLEAN : rows' = delivery_attempt(rows, x, terminal)
      BY <2>3 DEF Refused
    <3>2. rows'[x].state \in {"outbox", "failed"} /\ \A k \in Keys \ {x} : rows'[k] = rows[k]
      BY <3>1, AttemptRow
    <3> QED
      BY <3>2
  <2> QED
    BY <2>1, <2>2, <2>3 DEF Answered
<1>2. \A m \in Messages : Delivers(m) \/ Rests(m)
  BY <1>1, MessageKeys DEF Delivers, Rests
<1>3. \A m \in Messages : Engaged(m)' => Engaged(m)
  BY DEF Engaged
<1>4. rows'[Welcome].state = "queued" => rows[Welcome].state = "queued"
  BY <1>1, MessageKeys
<1> QED
  BY <1>2, <1>3, <1>4 DEF MailMoves, MailMove

\* A turn is begun, given up, or left as it is.
LEMMA DispatchMail ==
  ASSUME FrameworksInv, NEW x \in Turns, NEW next, Dispatch(x, next), Carried' \subseteq Carried
  PROVE  MailMoves
<1> rows \in [Keys -> Row] /\ begun \in [Keys -> Nat] /\ x \in Keys
  BY KeysOf DEF FrameworksInv, TypeInv, TypeOK
<1>1. CASE MayStartTurn(rows, x) /\ BudgetLeft(rows, x)
  <2>1. /\ rows'[x].state = "processing"
        /\ \A k \in Keys \ {x} : rows'[k] = rows[k]
    BY <1>1, BeginRow DEF Dispatch
  <2>2. /\ begun'[x] = begun[x] + 1
        /\ \A k \in Keys \ {x} : begun'[k] = begun[k]
        /\ live' = live \union {x}
    BY <1>1 DEF Dispatch
  <2>3. \A m \in Messages : Begins(m) \/ Rests(m)
    BY <1>1, <2>1, <2>2, MessageKeys DEF Begins, Rests, MayStartTurn
  <2>4. \A m \in Messages : Engaged(m)' => Engaged(m) \/ begun'[m] # 0
    BY <2>2 DEF Engaged
  <2>5. rows'[Welcome].state = "queued" => rows[Welcome].state = "queued"
    BY <2>1, MessageKeys
  <2> QED
    BY <2>3, <2>4, <2>5 DEF MailMoves, MailMove
<1>2. CASE MayStartTurn(rows, x) /\ ~BudgetLeft(rows, x)
  <2> DEFINE n == NoticeOf(x)
  <2>1. n \in Keys \ Messages /\ n # Welcome
    BY MessageKeys
  <2>2. /\ rows'[x].state = "failed"
        /\ \A k \in Keys \ {x, n} : rows'[k] = rows[k]
        /\ UNCHANGED <<begun, live>>
    BY <1>2, QuarantineRow DEF Dispatch
  <2> HIDE DEF n
  <2>3. \A m \in Messages : GivesUp(m) \/ Rests(m)
    BY <1>2, <2>1, <2>2, MessageKeys DEF GivesUp, Rests, MayStartTurn
  <2>4. \A m \in Messages : Engaged(m)' => Engaged(m)
    BY <2>2 DEF Engaged
  <2>5. rows'[Welcome].state = "queued" => rows[Welcome].state = "queued"
    BY <2>1, <2>2, MessageKeys
  <2> QED
    BY <2>3, <2>4, <2>5 DEF MailMoves, MailMove
<1>3. CASE ~MayStartTurn(rows, x)
  BY <1>3, QuietMoves DEF Dispatch
<1> QED
  BY <1>1, <1>2, <1>3

\* Text is put in the outbox of something Hermes began.
LEMMA PostMail ==
  ASSUME FrameworksInv, NEW x \in Keys, NEW y \in Bodies, PutAndPost(x, y),
         x \in Messages => begun[x] # 0
  PROVE  MailMoves
<1> rows \in [Keys -> Row] /\ y \in Texts \union {NoBody}
  BY DEF FrameworksInv, TypeInv, TypeOK, Texts
<1>1. /\ rows'[x].state = "outbox"
      /\ \A k \in Keys \ {x} : rows'[k] = rows[k]
      /\ begun' = begun /\ live' = live
  BY PutRow DEF PutAndPost, States
<1>2. \A m \in Messages : Delivers(m) \/ Rests(m)
  BY <1>1, MessageKeys DEF Delivers, Rests
<1>3. \A w \in Carried' : w \in Carried \/ w[1] = x
  BY DEF PutAndPost, poll, Carried
<1>4. \A m \in Messages : Engaged(m)' => Engaged(m) \/ begun'[m] # 0
  BY <1>1, <1>3 DEF Engaged
<1>5. rows'[Welcome].state = "queued" => rows[Welcome].state = "queued"
  BY <1>1, MessageKeys
<1> QED
  BY <1>2, <1>4, <1>5 DEF MailMoves, MailMove

\* A query for deliveries carries only what was begun.
LEMMA QueryMoves ==
  ASSUME FrameworksInv, UNCHANGED <<rows, begun, live>>,
         NEW q \in {"outbox", "uncertain"},
         \A w \in Carried' : w \in Carried \/ rows[w[1]].state = q
  PROVE  MailMoves
<1>1. \A m \in Messages : rows[m].state = q => begun[m] # 0
  BY DEF FrameworksInv, FreshInv
<1>2. \A m \in Messages : Engaged(m)' => Engaged(m) \/ begun'[m] # 0
  BY <1>1 DEF Engaged
<1> QED
  BY <1>2 DEF MailMoves, MailMove, Rests

\* Every step of Hermes makes the moves.
LEMMA HermesMoves ==
  ASSUME FrameworksInv, Next
  PROVE  MailMoves
<1>0. TypeOK /\ TypeInv /\ rows \in [Keys -> Row] /\ begun \in [Keys -> Nat]
  BY DEF FrameworksInv, TypeInv, TypeOK
<1> DEFINE Still == \A k \in Keys : rows'[k].state = rows[k].state
                                    /\ rows'[k].turns = rows[k].turns
<1>1. CASE Connect \/ Stop \/ PollFindsNoPayload \/ FetchFails \/ ArrivalsDone \/ TurnWaitEnds
           \/ OwnerChanges
  <2>1. UNCHANGED <<rows, begun>>
    BY <1>1 DEF Connect, Stop, PollFindsNoPayload, FetchFails, ArrivalsDone, TurnWaitEnds,
       OwnerChanges, history
  <2>2. live' \subseteq live /\ Carried' \subseteq Carried
    BY <1>1 DEF Connect, Stop, PollFindsNoPayload, FetchFails, ArrivalsDone, TurnWaitEnds,
       OwnerChanges, Carried, poll
  <2> QED
    BY <2>1, <2>2, QuietMoves
<1>2. ASSUME NEW k \in Keys, PlatformSubmits(k) \/ PlatformReconciles(k) PROVE MailMoves
  <2>1. UNCHANGED <<rows, begun, live, Carried>>
    BY <1>2 DEF PlatformSubmits, PlatformReconciles, history, poll, Carried
  <2> QED
    BY <2>1, QuietMoves
<1>3. ASSUME NEW m \in Messages, MailArrives(m) PROVE MailMoves
  <2>1. UNCHANGED <<rows, begun, live, Carried>>
    BY <1>3 DEF MailArrives, history, poll, Carried
  <2> QED
    BY <2>1, QuietMoves
<1>4. ASSUME NEW k \in Keys, RetryTimeReached(k) \/ TurnGoesStale(k) PROVE MailMoves
  <2>1. rows[k] \in Row
    BY <1>0
  <2>2. Still
    BY <1>0, <1>4, <2>1 DEF RetryTimeReached, TurnGoesStale, Row
  <2>3. UNCHANGED <<begun, live, Carried>>
    BY <1>4 DEF RetryTimeReached, TurnGoesStale, history, poll, Carried
  <2> QED
    BY <2>2, <2>3, QuietMoves
<1>5. CASE PollWakes
  <2>1. UNCHANGED <<rows, begun, live>>
    BY <1>5 DEF PollWakes, history
  <2>2. \A w \in Carried' : w \in Carried \/ rows[w[1]].state = "uncertain"
    BY <1>5 DEF PollWakes, Carried, uncertain
  <2> QED
    BY <2>1, <2>2, QueryMoves
<1>6. CASE LookupsDone
  <2>1. UNCHANGED <<rows, begun, live>>
    BY <1>6 DEF LookupsDone, history
  <2>2. \A w \in Carried' : w \in Carried \/ rows[w[1]].state = "outbox"
    BY <1>0, <1>6, FlagsAssumption DEF LookupsDone, Carried, pending, TypeOK, Deliveries, None
  <2> QED
    BY <2>1, <2>2, QueryMoves
<1>7. CASE PollPosts
  <2>1. UNCHANGED <<rows, begun, live>>
    BY <1>7 DEF PollPosts
  <2>2. Carried' \subseteq Carried
    BY <1>7 DEF PollPosts, Carried
  <2> QED
    BY <2>1, <2>2, QuietMoves
<1>8. CASE LookupReturns
  <2>1. PICK w \in todo :
          /\ todo' = todo \ {w}
          /\ \/ Accepted(w[1])
             \/ rows' = put(rows, w[1], "outbox", w[2])
             \/ rows' = IF rows[w[1]].state = "uncertain" THEN defer_lookup(rows, w[1])
                        ELSE rows
    BY <1>8 DEF LookupReturns
  <2>2. w \in Carried /\ w[1] \in Keys /\ w[2] \in Texts \union {NoBody}
    BY <1>0, <1>8 DEF LookupReturns, TypeOK, Deliveries, Carried
  <2>3. UNCHANGED <<begun, posted, live>> /\ Carried' \subseteq Carried
    BY <1>8, <2>1 DEF LookupReturns, Carried
  <2>4. w[1] \in Messages => begun[w[1]] # 0
    BY <2>2 DEF FrameworksInv, FreshInv, Engaged
  <2>5. CASE Accepted(w[1])
    BY <2>2, <2>3, <2>4, <2>5, AnswerMoves DEF Answered
  <2>6. CASE rows' = put(rows, w[1], "outbox", w[2])
    <3>1. /\ rows'[w[1]].state = "outbox"
          /\ \A k \in Keys \ {w[1]} : rows'[k] = rows[k]
      BY <1>0, <2>2, <2>6, PutRow DEF States
    <3>2. \A m \in Messages : Delivers(m) \/ Rests(m)
      BY <2>3, <2>4, <3>1, MessageKeys DEF Delivers, Rests
    <3>3. \A m \in Messages : Engaged(m)' => Engaged(m)
      BY <2>3 DEF Engaged
    <3>4. rows'[Welcome].state = "queued" => rows[Welcome].state = "queued"
      BY <3>1, MessageKeys
    <3> QED
      BY <3>2, <3>3, <3>4 DEF MailMoves, MailMove
  <2>7. CASE rows' = IF rows[w[1]].state = "uncertain" THEN defer_lookup(rows, w[1])
                     ELSE rows
    <3>1. Still
      <4>1. CASE rows' = rows
        BY <4>1
      <4>2. CASE rows' = defer_lookup(rows, w[1])
        <5> DEFINE x == w[1]
        <5>1. x \in Keys
          BY <2>2
        <5>2. rows' = defer_lookup(rows, x)
          BY <4>2
        <5> HIDE DEF x
        <5>3. /\ rows'[x].state = rows[x].state /\ rows'[x].turns = rows[x].turns
              /\ \A k \in Keys \ {x} : rows'[k] = rows[k]
          BY <1>0, <5>1, <5>2, DeferRow
        <5> QED
          BY <5>3
      <4> QED
        BY <2>7, <4>1, <4>2
    <3> QED
      BY <2>3, <3>1, QuietMoves
  <2> QED
    BY <2>1, <2>5, <2>6, <2>7
<1>9. CASE PollPostReturns
  <2>1. cur[1] \in Keys /\ cur[2] \in Texts \union {NoBody} /\ cur \in Carried
    BY <1>0, <1>9 DEF PollPostReturns, TypeOK, Deliveries, Carried
  <2>2. UNCHANGED <<begun, posted, live>> /\ Answered(cur[1], cur[2])
    BY <1>9 DEF PollPostReturns
  <2>3. Carried' \subseteq Carried
    <3>1. cur' \notin Deliveries
      BY <1>9, FlagsAssumption DEF PollPostReturns, None, Deliveries
    <3> QED
      BY <1>9, <3>1 DEF PollPostReturns, Carried
  <2>4. cur[1] \in Messages => begun[cur[1]] # 0
    BY <2>1 DEF FrameworksInv, FreshInv, Engaged
  <2> QED
    BY <2>1, <2>2, <2>3, <2>4, AnswerMoves
<1>10. CASE SendReturns
  <2>1. PICK w \in flight : Answered(w[1], w[2]) /\ flight' = flight \ {w}
    BY <1>10 DEF SendReturns
  <2>2. w[1] \in Keys /\ w[2] \in Texts \union {NoBody} /\ w \in Carried
    BY <1>0 DEF TypeOK, Deliveries, Carried
  <2>3. UNCHANGED <<begun, posted, live>> /\ Carried' \subseteq Carried
    BY <1>10, <2>1 DEF SendReturns, Carried, poll
  <2>4. w[1] \in Messages => begun[w[1]] # 0
    BY <2>2 DEF FrameworksInv, FreshInv, Engaged
  <2> QED
    BY <2>1, <2>2, <2>3, <2>4, AnswerMoves
<1>11. CASE DeliveriesDone
  <2>1. CASE channel.welcomed \/ Underway(Welcome)
    <3>1. UNCHANGED <<rows, begun, live>> /\ Carried' \subseteq Carried
      BY <1>11, <2>1 DEF DeliveriesDone, Carried
    <3> QED
      BY <3>1, QuietMoves
  <2>2. CASE ~(channel.welcomed \/ Underway(Welcome))
    <3>1. Dispatch(Welcome, "fetch")
      BY <1>11, <2>2 DEF DeliveriesDone
    <3>2. pc' \in {"turn", "fetch"} /\ flight' = flight
      BY <1>11, <3>1 DEF DeliveriesDone, Dispatch
    <3>3. Carried' \subseteq Carried
      BY <3>2 DEF Carried
    <3> QED
      BY <3>1, <3>3, DispatchMail, KeysOf
  <2> QED
    BY <2>1, <2>2
<1>12. CASE FetchMessages
  <2>1. mail \in SUBSET Keys /\ mail \subseteq Messages
    BY <1>0 DEF TypeOK, Keys, Turns
  <2>2. \A k \in Keys : rows'[k] = IF k \in mail /\ rows[k].state = "absent"
                                   THEN [Absent EXCEPT !.state = "queued"] ELSE rows[k]
    BY <1>0, <1>12, <2>1, IngestRow DEF FetchMessages
  <2>3. UNCHANGED <<begun, live>> /\ Carried' \subseteq Carried
    BY <1>12 DEF FetchMessages, history, Carried
  <2>4. \A m \in Messages : Queues(m) \/ Rests(m)
    BY <2>2, <2>3, MessageKeys DEF Queues, Rests, Absent
  <2>5. \A m \in Messages : Engaged(m)' => Engaged(m)
    BY <2>3 DEF Engaged
  <2>6. rows'[Welcome].state = "queued" => rows[Welcome].state = "queued"
    BY <2>1, <2>2, MessageKeys
  <2> QED
    BY <2>4, <2>5, <2>6 DEF MailMoves, MailMove
<1>13. CASE TakeArrival
  <2>1. PICK w \in todo :
          IF w[2] = "queued" THEN _receive(w[1])
          ELSE IF w[1] = Welcome THEN Skip
          ELSE _resume(w[1])
    BY <1>13 DEF TakeArrival
  <2>2. w[1] \in Turns /\ w[1] \in Keys
    BY <1>0, <1>13, KeysOf DEF TakeArrival, TypeOK, Arrivals
  <2>3. pc' \in {"turn", "arrivals"} /\ flight' = flight
    BY <1>13, <2>1 DEF TakeArrival, _receive, _resume, Skip, Drop, Dispatch
  <2>4. Carried' \subseteq Carried
    BY <2>3 DEF Carried
  <2>5. CASE Skip
    BY <2>4, <2>5, QuietMoves DEF Skip
  <2>6. CASE Drop(w[1]) /\ (Sender[w[1]] = Automatic \/ ~Authenticated(w[1]))
    <3>1. /\ rows'[w[1]].state = "done"
          /\ \A k \in Keys \ {w[1]} : rows'[k] = rows[k]
          /\ UNCHANGED <<begun, live>>
      BY <1>0, <2>2, <2>6, PutRow DEF Drop, States
    <3>2. Owners # {Sender[w[1]]}
      BY <1>0, <2>6, SenderAssumption DEF Authenticated, TypeOK
    <3>3. \A m \in Messages : Drops(m) \/ Rests(m)
      BY <3>1, <3>2, MessageKeys DEF Drops, Rests
    <3>4. \A m \in Messages : Engaged(m)' => Engaged(m)
      BY <2>4, <3>1 DEF Engaged
    <3>5. rows'[Welcome].state = "queued" => rows[Welcome].state = "queued"
      BY <3>1, MessageKeys
    <3> QED
      BY <3>3, <3>4, <3>5 DEF MailMoves, MailMove
  <2>7. CASE Dispatch(w[1], "arrivals")
    BY <2>2, <2>4, <2>7, DispatchMail
  <2> QED
    BY <2>1, <2>5, <2>6, <2>7 DEF _receive, _resume
<1>14. ASSUME NEW k \in Turns, NEW b \in Bodies, Send(k, b) PROVE MailMoves
  <2>1. k \in Messages => begun[k] # 0
    BY <1>14 DEF Send, FrameworksInv, FreshInv
  <2> QED
    BY <1>14, <2>1, PostMail, KeysOf DEF Send
<1>15. ASSUME NEW n \in Notifications, NEW b \in Bodies, SendUnthreaded(n, b) PROVE MailMoves
  <2>1. n \in Keys \ Messages
    BY KeysOf, MessageKeys
  <2> QED
    BY <1>15, <2>1, PostMail, MessageKeys DEF SendUnthreaded
<1> QED
  BY <1>1, <1>2, <1>3, <1>4, <1>5, <1>6, <1>7, <1>8, <1>9, <1>10, <1>11, <1>12, <1>13,
     <1>14, <1>15 DEF Next, PollTask, Gateway, Environment

\* While its process is down Hermes only sees time pass.
LEMMA DownStep ==
  ASSUME FrameworksInv, Next
  PROVE  /\ DownInv'
         /\ ~up /\ ~up' => \A k \in Keys : rows'[k].state = rows[k].state
<1>0. TypeOK /\ DownInv /\ rows \in [Keys -> Row]
  BY DEF FrameworksInv, TypeInv, TypeOK
<1>1. CASE Connect
  BY <1>1 DEF Connect, DownInv
<1>2. CASE Stop
  BY <1>2 DEF Stop, DownInv
<1>3. CASE PollTask
  <2>1. pc # "down"
    BY <1>3 DEF PollTask, PollWakes, LookupReturns, LookupsDone, PollPosts, PollFindsNoPayload,
       PollPostReturns, DeliveriesDone, FetchMessages, FetchFails, TakeArrival, ArrivalsDone,
       TurnWaitEnds
  <2>2. up /\ up' = up
    BY <1>0, <1>3, <2>1 DEF DownInv, PollTask, PollWakes, LookupReturns, LookupsDone, PollPosts,
       PollFindsNoPayload, PollPostReturns, DeliveriesDone, FetchMessages, FetchFails,
       TakeArrival, ArrivalsDone, TurnWaitEnds, process
  <2> QED
    BY <2>2 DEF DownInv
<1>4. CASE Gateway
  <2>1. up
    BY <1>0, <1>4 DEF Gateway, Send, SendUnthreaded, SendReturns, DownInv
  <2>2. up' = up
    BY <1>4 DEF Gateway, Send, SendUnthreaded, SendReturns, PutAndPost, process
  <2> QED
    BY <2>1, <2>2 DEF DownInv
<1>5. ASSUME NEW k \in Keys, RetryTimeReached(k) \/ TurnGoesStale(k)
      PROVE  /\ DownInv'
             /\ \A x \in Keys : rows'[x].state = rows[x].state
  <2>1. rows[k] \in Row
    BY <1>0
  <2>2. \A x \in Keys : rows'[x].state = rows[x].state
    BY <1>0, <1>5, <2>1 DEF RetryTimeReached, TurnGoesStale, Row
  <2> QED
    BY <1>0, <1>5, <2>2 DEF RetryTimeReached, TurnGoesStale, DownInv, process, poll
<1>6. CASE OwnerChanges \/ \E m \in Messages : MailArrives(m)
  BY <1>0, <1>6 DEF OwnerChanges, MailArrives, DownInv, process, poll
<1>7. ASSUME NEW k \in Keys, PlatformSubmits(k) \/ PlatformReconciles(k)
      PROVE  DownInv' /\ rows' = rows
  BY <1>0, <1>7 DEF PlatformSubmits, PlatformReconciles, DownInv, process, poll
<1> QED
  BY <1>1, <1>2, <1>3, <1>4, <1>5, <1>6, <1>7 DEF Next, Environment

\* A text is posted before it can be anywhere else, and a post is not undone.
LEMMA PostedStep ==
  ASSUME FrameworksInv, Next
  PROVE  PostedInv' /\ \A k \in Keys : posted[k] \subseteq posted'[k]
<1>0. TypeOK /\ PostedInv
  BY DEF FrameworksInv, TypeInv
<1>1. CASE Connect \/ Stop \/ PollWakes \/ PollFindsNoPayload \/ LookupReturns \/ ArrivalsDone
           \/ TurnWaitEnds \/ FetchMessages \/ FetchFails \/ DeliveriesDone \/ TakeArrival
           \/ OwnerChanges \/ \E m \in Messages : MailArrives(m)
  <2>1. posted' = posted /\ plat' = plat /\ flight' \subseteq flight
    BY <1>1 DEF Connect, Stop, PollWakes, PollFindsNoPayload, LookupReturns, ArrivalsDone,
       TurnWaitEnds, FetchMessages, FetchFails, DeliveriesDone, TakeArrival, OwnerChanges,
       MailArrives, external, history
  <2>2. pc' = "deliver" => pc = "deliver" /\ cur' = cur
    BY <1>1 DEF Connect, Stop, PollWakes, PollFindsNoPayload, LookupReturns, ArrivalsDone,
       TurnWaitEnds, FetchMessages, FetchFails, DeliveriesDone, TakeArrival, OwnerChanges,
       MailArrives, Dispatch, _receive, _resume, Drop, Skip, poll
  <2> QED
    BY <1>0, <2>1, <2>2 DEF PostedInv
<1>2. CASE LookupsDone
  BY <1>0, <1>2 DEF LookupsDone, PostedInv, TypeOK, external, history
<1>3. CASE PollPosts
  <2>1. PICK w \in todo : cur' = w /\ PostLeaves(w[1], w[2])
    BY <1>3 DEF PollPosts
  <2>2. w[1] \in Keys
    BY <1>0, <1>3 DEF PollPosts, TypeOK, Deliveries
  <2>3. posted'[w[1]] # {} /\ \A k \in Keys : posted[k] \subseteq posted'[k]
    BY <1>0, <2>1, <2>2 DEF PostLeaves, TypeOK
  <2>4. UNCHANGED <<flight, plat>>
    BY <1>3 DEF PollPosts, external
  <2>5. \A v \in flight : v[1] \in Keys
    BY <1>0 DEF TypeOK
  <2> QED
    BY <1>0, <2>1, <2>3, <2>4, <2>5 DEF PostedInv
<1>4. CASE PollPostReturns
  BY <1>0, <1>4 DEF PollPostReturns, PostedInv, external
<1>5. CASE SendReturns
  BY <1>0, <1>5 DEF SendReturns, PostedInv, external, poll
<1>6. ASSUME NEW x \in Keys, NEW y \in Bodies, PutAndPost(x, y)
      PROVE  PostedInv' /\ \A k \in Keys : posted[k] \subseteq posted'[k]
  <2>1. posted'[x] # {} /\ \A k \in Keys : posted[k] \subseteq posted'[k]
    BY <1>0, <1>6 DEF PutAndPost, PostLeaves, TypeOK
  <2>2. flight' = flight \union {<<x, y>>} /\ UNCHANGED <<plat, pc, cur>>
    BY <1>6 DEF PutAndPost, external, poll
  <2>3. /\ \A v \in flight : v[1] \in Keys
        /\ pc = "deliver" /\ cur # None => cur[1] \in Keys
    BY <1>0 DEF TypeOK, Deliveries
  <2> QED
    BY <1>0, <2>1, <2>2, <2>3 DEF PostedInv
<1>7. ASSUME NEW k \in Turns, NEW b \in Bodies, Send(k, b)
      PROVE  PostedInv' /\ \A x \in Keys : posted[x] \subseteq posted'[x]
  BY <1>6, <1>7, KeysOf DEF Send
<1>8. ASSUME NEW n \in Notifications, NEW b \in Bodies, SendUnthreaded(n, b)
      PROVE  PostedInv' /\ \A x \in Keys : posted[x] \subseteq posted'[x]
  BY <1>6, <1>8, KeysOf DEF SendUnthreaded
<1>9. ASSUME NEW k \in Keys, RetryTimeReached(k) \/ TurnGoesStale(k)
      PROVE  PostedInv' /\ UNCHANGED posted
  BY <1>0, <1>9 DEF RetryTimeReached, TurnGoesStale, PostedInv, external, history, poll
<1>10. ASSUME NEW k \in Keys, PlatformSubmits(k) PROVE PostedInv' /\ UNCHANGED posted
  <2>1. PICK w \in flight \union {cur} : w[1] = k /\ w[2] # NoBody
    BY <1>10 DEF PlatformSubmits
  <2>2. posted[k] # {}
    BY <1>0, <2>1 DEF PostedInv, TypeOK, None
  <2>3. \A x \in Keys \ {k} : plat'[x] = plat[x]
    BY <1>0, <1>10 DEF PlatformSubmits, TypeOK
  <2> QED
    BY <1>0, <1>10, <2>2, <2>3 DEF PlatformSubmits, PostedInv, history, poll
<1>11. ASSUME NEW k \in Keys, PlatformReconciles(k) PROVE PostedInv' /\ UNCHANGED posted
  <2>1. plat[k] # "none" /\ \A x \in Keys \ {k} : plat'[x] = plat[x]
    BY <1>0, <1>11 DEF PlatformReconciles, TypeOK
  <2> QED
    BY <1>0, <1>11, <2>1 DEF PlatformReconciles, PostedInv, history, poll
<1> QED
  BY <1>1, <1>2, <1>3, <1>4, <1>5, <1>7, <1>8, <1>9, <1>10, <1>11
     DEF Next, PollTask, Gateway, Environment

\* A step of Hermes, in the composition.
LEMMA HermesStep == FrameworksInv /\ Hermes => FrameworksInv' /\ MailMoves
<1> SUFFICES ASSUME FrameworksInv, Hermes PROVE FrameworksInv' /\ MailMoves
  OBVIOUS
<1>1. Next /\ UNCHANGED nativeVars /\ (up' => native = "off")
  BY DEF Hermes
<1>2. MailMoves
  BY <1>1, HermesMoves
<1>3. TypeInv'
  BY <1>1, TypeStep DEF FrameworksInv
<1>4. DownInv' /\ (~up /\ ~up' => \A k \in Keys : rows'[k].state = rows[k].state)
  BY <1>1, DownStep
<1>5. PostedInv' /\ \A k \in Keys : posted[k] \subseteq posted'[k]
  BY <1>1, PostedStep
<1>6. FreshInv' /\ NoSilentLoss'
  BY <1>1, <1>2, <1>3, <1>5, MovesKeepBooks, MessageKeys DEF TypeInv, TypeOK, nativeVars
<1>7. FrameworksTypeOK'
  BY <1>1, <1>3 DEF FrameworksInv, FrameworksTypeOK, TypeInv, nativeVars
<1>8. WalkInv'
  <2>1. UNCHANGED <<native, walk, inbox>> /\ WalkInv /\ walk \subseteq Arrivals
    BY <1>1 DEF FrameworksInv, FrameworksTypeOK, nativeVars
  <2>2. native # "off" => ~up'
    BY <1>1
  <2>3. rows'[Welcome].state # "queued"
    BY <1>2, <2>1 DEF MailMoves, WalkInv
  <2>4. \A w \in walk : rows'[w[1]].state = w[2]
    <3>1. walk # {} => ~up /\ ~up'
      BY <2>1, <2>2 DEF WalkInv
    <3>2. \A w \in walk : w[1] \in Keys
      BY <2>1, KeysOf DEF Arrivals
    <3> QED
      BY <1>4, <2>1, <3>1, <3>2 DEF WalkInv
  <2> QED
    BY <2>1, <2>2, <2>3, <2>4 DEF WalkInv
<1> QED
  BY <1>2, <1>3, <1>4, <1>5, <1>6, <1>7, <1>8 DEF FrameworksInv

-----------------------------------------------------------------------------
(* The native receiver.                                                    *)

\* A failed handoff counts, and keeps the row queued while there is budget.
LEMMA HandoffRow ==
  ASSUME NEW t \in [Keys -> Row], NEW k \in Keys, NEW limit \in Nat
  PROVE  LET u == native_handoff_failed(t, k, limit) IN
         /\ u \in [Keys -> Row]
         /\ u[k].state \in {"queued", "failed"}
         /\ u[k].state = "queued" => u[k].turns < limit
         /\ \A x \in Keys \ {k} : u[x] = t[x]
<1> DEFINE n == t[k].turns + 1
           s == IF n >= limit THEN "failed" ELSE "queued"
           u == native_handoff_failed(t, k, limit)
<1>1. t[k] \in Row
  OBVIOUS
<1>2. n \in Nat /\ s \in {"queued", "failed"} /\ (s = "queued" => n < limit)
  BY <1>1 DEF Row
<1>3. u = [t EXCEPT ![k] = [t[k] EXCEPT !.turns = n, !.error = "handoff", !.stale = FALSE,
                                        !.state = s, !.ready = FALSE]]
  BY DEF native_handoff_failed
<1> HIDE DEF n, s, u
<1>4. /\ [t[k] EXCEPT !.turns = n, !.error = "handoff", !.stale = FALSE,
                      !.state = s, !.ready = FALSE] \in Row
      /\ [t[k] EXCEPT !.turns = n, !.error = "handoff", !.stale = FALSE,
                      !.state = s, !.ready = FALSE].state = s
      /\ [t[k] EXCEPT !.turns = n, !.error = "handoff", !.stale = FALSE,
                      !.state = s, !.ready = FALSE].turns = n
  BY <1>1, <1>2 DEF Row, States, Errors
<1>5. u \in [Keys -> Row] /\ u[k].state = s /\ u[k].turns = n
  BY <1>3, <1>4
<1>6. \A x \in Keys \ {k} : u[x] = t[x]
  BY <1>3
<1> QED
  BY <1>2, <1>5, <1>6 DEF u

\* With no budget at all the row is given up.
LEMMA NoHandoffRow ==
  ASSUME NEW t \in [Keys -> Row], NEW k \in Keys
  PROVE  native_handoff_failed(t, k, 0)[k].state = "failed"
<1>1. t[k].turns + 1 >= 0
  BY DEF Row
<1> QED
  BY <1>1 DEF native_handoff_failed

\* Backpressure costs nothing.
LEMMA BackpressureRow ==
  ASSUME NEW t \in [Keys -> Row], NEW k \in Keys
  PROVE  LET u == defer_native_handoff(t, k) IN
         /\ u \in [Keys -> Row]
         /\ \A x \in Keys : u[x].state = t[x].state /\ u[x].turns = t[x].turns
BY DEF defer_native_handoff, Row

\* The walk holds one entry for each row.
LEMMA WalkApart ==
  ASSUME FrameworksInv, NEW v \in walk, NEW w \in walk, v[1] = w[1]
  PROVE  v = w
<1>1. v \in Arrivals /\ w \in Arrivals /\ v[2] = w[2]
  BY DEF FrameworksInv, FrameworksTypeOK, WalkInv
<1> QED
  BY <1>1 DEF Arrivals

\* What an entry of the walk is about.
LEMMA WalkEntry ==
  ASSUME FrameworksInv, NEW w \in walk
  PROVE  /\ w[1] \in Turns /\ w[1] \in Keys
         /\ rows[w[1]].state = w[2] /\ w[2] \in {"queued", "processing"}
         /\ w[2] = "queued" => w[1] \in Messages /\ begun[w[1]] = 0
<1>1. w[1] \in Turns /\ w[1] \in Keys /\ w[2] \in {"queued", "processing"}
  BY KeysOf DEF FrameworksInv, FrameworksTypeOK, Arrivals
<1>2. rows[w[1]].state = w[2] /\ rows[Welcome].state # "queued"
  BY DEF FrameworksInv, WalkInv
<1>3. w[2] = "queued" => w[1] \in Messages
  BY <1>1, <1>2 DEF Turns
<1> QED
  BY <1>1, <1>2, <1>3 DEF FrameworksInv, FreshInv

\* A native step that leaves the process of Hermes alone keeps its part of the
\* invariant, when what it does to the ledger is one of the moves.
LEMMA NativeKeeps ==
  ASSUME FrameworksInv, MailMoves, HermesIdle, rows' \in [Keys -> Row],
         \A k \in Keys : rows'[k].state \in {"queued", "processing"} => k \in Turns,
         channel' \in [owner : Owners, welcomed : BOOLEAN],
         native' \in {"off", "idle", "walking"} \union Messages,
         walk' \subseteq Arrivals, inbox' \subseteq Messages, inbox \subseteq inbox',
         WalkInv'
  PROVE  FrameworksInv'
<1>1. UNCHANGED <<up, stops, pc, todo, cur, live, flight, plat, mail, owner, posted, unsure,
                  begun, crossed>>
  BY DEF HermesIdle, process, poll, external, history
<1>2. TypeInv'
  BY <1>1 DEF FrameworksInv, TypeInv, TypeOK, OnlyTurnsRun
<1>3. DownInv' /\ PostedInv'
  BY <1>1 DEF FrameworksInv, DownInv, PostedInv
<1>4. FreshInv' /\ NoSilentLoss'
  BY <1>1, <1>2, MovesKeepBooks DEF TypeInv, TypeOK
<1>5. FrameworksTypeOK'
  BY <1>2 DEF FrameworksTypeOK, TypeInv
<1> QED
  BY <1>2, <1>3, <1>4, <1>5 DEF FrameworksInv

\* A native step that writes one row.
LEMMA OneRowMoves ==
  ASSUME FrameworksInv, HermesIdle, NEW k \in Keys,
         \A x \in Keys \ {k} : rows'[x] = rows[x],
         k \in Messages => MailMove(k),
         k = Welcome => rows'[k].state # "queued"
  PROVE  MailMoves
<1>1. UNCHANGED <<live, begun, Carried>>
  BY DEF HermesIdle, poll, history, Carried
<1>2. \A m \in Messages : Engaged(m)' => Engaged(m)
  BY <1>1 DEF Engaged
<1>3. \A m \in Messages \ {k} : Rests(m)
  BY <1>1, MessageKeys DEF Rests
<1>4. rows'[Welcome].state = "queued" => rows[Welcome].state = "queued"
  BY MessageKeys
<1> QED
  BY <1>2, <1>3, <1>4 DEF MailMoves, MailMove

\* The walk goes on: the row of an entry is settled, or its entry is done with.
LEMMA WalkGoesOn ==
  ASSUME FrameworksInv, NEW w \in walk, native = "walking", HermesIdle,
         walk' = walk \ {w}, rows' \in [Keys -> Row],
         \A x \in Keys \ {w[1]} : rows'[x] = rows[x],
         w[1] \in Messages => MailMove(w[1]),
         w[1] = Welcome => rows'[w[1]].state \notin {"queued", "processing"}
                           \/ rows'[w[1]] = rows[w[1]],
         \/ native' = native /\ inbox \subseteq inbox' /\ inbox' \subseteq Messages
         \/ native' = w[1] /\ w[1] \in Messages /\ inbox' = inbox \union {w[1]},
         channel' = channel
  PROVE  FrameworksInv' /\ MailMoves
<1>0. /\ FrameworksTypeOK /\ WalkInv /\ TypeInv
      /\ w[1] \in Turns /\ w[1] \in Keys /\ rows[Welcome].state # "queued"
  BY WalkEntry DEF FrameworksInv, WalkInv
<1>1. MailMoves
  BY <1>0, OneRowMoves
<1>2. \A v \in walk' : v \in walk /\ v[1] \in Keys /\ v[1] # w[1]
  BY <1>0, WalkApart, WalkEntry
<1>3. native \notin Messages /\ up' = up
  BY HandoffAssumption DEF HermesIdle, process
<1>4. rows'[Welcome].state # "queued"
  BY <1>0, MessageKeys
<1>5. WalkInv'
  <2>1. \A v \in walk' : rows'[v[1]].state = v[2]
    BY <1>0, <1>2 DEF WalkInv
  <2>2. ~up'
    BY <1>0, <1>3 DEF WalkInv
  <2>3. native' \notin {"off", "idle"}
    BY HandoffAssumption
  <2>4. native' \in Messages => native' \in inbox' /\ \A v \in walk' : v[1] # native'
    BY <1>2, <1>3
  <2> QED
    BY <1>4, <2>1, <2>2, <2>3, <2>4 DEF WalkInv
<1>6. \A k \in Keys : rows'[k].state \in {"queued", "processing"} => k \in Turns
  BY <1>0 DEF TypeInv, OnlyTurnsRun
<1>7. /\ native' \in {"off", "idle", "walking"} \union Messages
      /\ walk' \subseteq Arrivals /\ inbox' \subseteq Messages /\ inbox \subseteq inbox'
      /\ channel' \in [owner : Owners, welcomed : BOOLEAN]
  BY <1>0 DEF FrameworksTypeOK, TypeOK
<1> QED
  BY <1>1, <1>5, <1>6, <1>7, NativeKeeps

\* A native step, in the composition.
LEMMA NativeInvStep ==
  ASSUME FrameworksInv, NativeStarts \/ NativeStops \/ NativeStep
  PROVE  FrameworksInv' /\ MailMoves
<1>0. /\ FrameworksTypeOK /\ WalkInv /\ TypeInv /\ TypeOK /\ OnlyTurnsRun
      /\ rows \in [Keys -> Row] /\ begun \in [Keys -> Nat]
      /\ \A k \in Keys : rows[k].state \in {"queued", "processing"} => k \in Turns
      /\ channel \in [owner : Owners, welcomed : BOOLEAN]
      /\ inbox \subseteq Messages /\ walk \subseteq Arrivals
  BY DEF FrameworksInv, FrameworksTypeOK, TypeInv, TypeOK, OnlyTurnsRun
<1>1. CASE NativeStarts
  <2>1. UNCHANGED <<rows, walk, inbox>> /\ HermesIdle /\ native' = "idle" /\ ~up
        /\ channel' = Status /\ native = "off"
    BY <1>1 DEF NativeStarts
  <2>2. MailMoves
    BY <2>1, QuietMoves DEF HermesIdle, poll, history, Carried
  <2>3. WalkInv'
    BY <1>0, <2>1, HandoffAssumption DEF WalkInv, HermesIdle, process
  <2> QED
    BY <1>0, <2>1, <2>2, <2>3, StatusType, NativeKeeps
<1>2. CASE NativeStops
  <2>1. /\ UNCHANGED <<rows, inbox, channel, up, pc, todo, cur, live, flight, plat, mail, owner,
                       posted, unsure, begun, crossed>>
        /\ stops' = stops + 1 /\ stops < MaxStops /\ native' = "off" /\ walk' = {}
    BY <1>2 DEF NativeStops, poll, external, history
  <2>2. MailMoves
    BY <2>1, QuietMoves DEF Carried
  <2>3. TypeInv'
    <3>1. stops' \in 0..MaxStops
      BY <1>0, <2>1, FlagsAssumption DEF TypeOK
    <3> QED
      BY <1>0, <2>1, <3>1 DEF TypeInv, TypeOK, OnlyTurnsRun
  <2>4. DownInv' /\ PostedInv'
    BY <2>1 DEF FrameworksInv, DownInv, PostedInv
  <2>5. FreshInv' /\ NoSilentLoss'
    BY <1>0, <2>1, <2>2, MovesKeepBooks
  <2>6. WalkInv' /\ FrameworksTypeOK'
    BY <1>0, <2>1, <2>3, HandoffAssumption DEF WalkInv, FrameworksTypeOK, TypeInv
  <2> QED
    BY <2>2, <2>3, <2>4, <2>5, <2>6 DEF FrameworksInv
<1>3. CASE NativePolls
  <2>1. /\ native = "idle" /\ native' = "walking" /\ channel' = Status
        /\ rows' = ingest(rows, mail) /\ walk' = arrivals(rows') /\ inbox' = inbox /\ HermesIdle
    BY <1>3 DEF NativePolls
  <2>2. mail \in SUBSET Keys /\ mail \subseteq Messages
    BY <1>0 DEF TypeOK, Keys, Turns
  <2>3. /\ rows' \in [Keys -> Row]
        /\ \A k \in Keys : rows'[k] = IF k \in mail /\ rows[k].state = "absent"
                                      THEN [Absent EXCEPT !.state = "queued"] ELSE rows[k]
    BY <1>0, <2>1, <2>2, IngestRow
  <2>4. UNCHANGED <<begun, live, Carried, up>>
    BY <2>1 DEF HermesIdle, poll, process, history, Carried
  <2>5. \A m \in Messages : Queues(m) \/ Rests(m)
    BY <2>3, <2>4, MessageKeys DEF Queues, Rests, Absent
  <2>6. \A m \in Messages : Engaged(m)' => Engaged(m)
    BY <2>4 DEF Engaged
  <2>7. rows'[Welcome].state = rows[Welcome].state
    BY <2>2, <2>3, MessageKeys
  <2>8. MailMoves
    BY <2>5, <2>6, <2>7 DEF MailMoves, MailMove
  <2>9. \A k \in Keys : rows'[k].state \in {"queued", "processing"} => k \in Turns
    BY <1>0, <2>2, <2>3, MessageKeys
  <2>10. walk' \subseteq Arrivals
    BY <2>1, <2>3, <2>9, QueryTypes
  <2>11. WalkInv'
    <3>1. \A w \in walk' : rows'[w[1]].state = w[2]
      BY <2>1 DEF arrivals
    <3> QED
      BY <1>0, <2>1, <2>4, <2>7, <3>1, HandoffAssumption DEF WalkInv
  <2> QED
    BY <1>0, <2>1, <2>3, <2>8, <2>9, <2>10, <2>11, StatusType, NativeKeeps
<1>4. CASE NativeDone
  <2>1. UNCHANGED <<rows, walk, inbox, channel>> /\ HermesIdle /\ native' = "idle" /\ walk = {}
        /\ native = "walking"
    BY <1>4 DEF NativeDone
  <2>2. MailMoves
    BY <2>1, QuietMoves DEF HermesIdle, poll, history, Carried
  <2>3. WalkInv'
    BY <1>0, <2>1, HandoffAssumption DEF WalkInv, HermesIdle, process
  <2> QED
    BY <1>0, <2>1, <2>2, <2>3, NativeKeeps
<1>5. CASE NativeSkips
  <2>1. PICK w \in walk :
          /\ w[1] = Welcome \/ w[2] = "processing"
          /\ walk' = walk \ {w}
          /\ rows' = IF w[1] = Welcome THEN rows ELSE native_handoff_failed(rows, w[1], 0)
    BY <1>5 DEF NativeSkips
  <2>2. native = "walking" /\ UNCHANGED <<native, inbox, channel>> /\ HermesIdle
    BY <1>5 DEF NativeSkips
  <2>3. w[1] \in Keys /\ rows[w[1]].state = w[2]
    BY WalkEntry
  <2>4. UNCHANGED begun
    BY <2>2 DEF HermesIdle, history
  <2>5. CASE w[1] = Welcome
    BY <1>0, <2>1, <2>2, <2>5, WalkGoesOn, MessageKeys
  <2>6. CASE w[1] # Welcome
    <3> DEFINE k == w[1]
    <3>1. k \in Keys /\ rows' = native_handoff_failed(rows, k, 0)
      BY <2>1, <2>3, <2>6
    <3> HIDE DEF k
    <3>2. /\ rows' \in [Keys -> Row] /\ rows'[k].state = "failed"
          /\ \A x \in Keys \ {k} : rows'[x] = rows[x]
      BY <1>0, <3>1, HandoffRow, NoHandoffRow
    <3>3. GivesUp(k)
      BY <2>1, <2>3, <2>4, <2>6, <3>2 DEF GivesUp, k
    <3> QED
      BY <1>0, <2>1, <2>2, <2>6, <3>2, <3>3, WalkGoesOn DEF MailMove, k
  <2> QED
    BY <2>5, <2>6
<1>6. CASE NativeDrops
  <2>1. PICK w \in walk :
          /\ Sender[w[1]] # channel.owner
          /\ walk' = walk \ {w}
          /\ rows' = put(rows, w[1], "done", NoBody)
    BY <1>6 DEF NativeDrops
  <2>2. native = "walking" /\ UNCHANGED <<native, inbox, channel>> /\ HermesIdle
    BY <1>6 DEF NativeDrops
  <2>3. w[1] \in Keys
    BY WalkEntry
  <2>4. /\ rows' \in [Keys -> Row] /\ rows'[w[1]].state = "done"
        /\ \A x \in Keys \ {w[1]} : rows'[x] = rows[x]
    BY <1>0, <2>1, <2>3, PutRow DEF States
  <2>5. Drops(w[1])
    <3>1. Owners # {Sender[w[1]]}
      BY <1>0, <2>1
    <3> QED
      BY <2>2, <2>4, <3>1 DEF Drops, HermesIdle, history
  <2> QED
    BY <1>0, <2>1, <2>2, <2>4, <2>5, WalkGoesOn DEF MailMove
<1>7. CASE NativeCommits
  <2>1. PICK w \in walk :
          /\ Offered(w)
          /\ walk' = walk \ {w}
          /\ inbox' = inbox \union {w[1]}
          /\ native' = w[1]
    BY <1>7 DEF NativeCommits
  <2>2. native = "walking" /\ UNCHANGED <<rows, channel>> /\ HermesIdle
    BY <1>7 DEF NativeCommits
  <2>3. w[1] \in Messages
    BY <2>1, WalkEntry DEF Offered
  <2>4. Rests(w[1])
    BY <2>2 DEF Rests, HermesIdle, history
  <2> QED
    BY <1>0, <2>1, <2>2, <2>3, <2>4, WalkGoesOn, MessageKeys DEF MailMove
<1>8. CASE NativeMarksDone
  <2>1. /\ native \in Messages /\ rows' = put(rows, native, "done", NoBody)
        /\ native' = "walking" /\ UNCHANGED <<walk, inbox, channel>> /\ HermesIdle
    BY <1>8 DEF NativeMarksDone
  <2>2. native \in Keys /\ native # Welcome /\ native \in Turns
    BY <2>1, MessageKeys
  <2>3. /\ rows' \in [Keys -> Row] /\ rows'[native].state = "done"
        /\ \A x \in Keys \ {native} : rows'[x] = rows[x]
    BY <1>0, <2>1, <2>2, PutRow DEF States
  <2>4. native \in inbox /\ \A w \in walk : w[1] # native
    BY <1>0, <2>1 DEF WalkInv
  <2>5. HandsOver(native)
    BY <2>1, <2>3, <2>4 DEF HandsOver, HermesIdle, history
  <2>6. MailMoves
    BY <2>1, <2>2, <2>3, <2>5, OneRowMoves DEF MailMove
  <2>7. WalkInv'
    <3>1. \A w \in walk : rows'[w[1]].state = w[2]
      BY <1>0, <2>3, <2>4, WalkEntry DEF WalkInv
    <3>2. ~up' /\ rows'[Welcome].state # "queued"
      BY <1>0, <2>1, <2>2, <2>3, MessageKeys, HandoffAssumption DEF WalkInv, HermesIdle, process
    <3> QED
      BY <2>1, <3>1, <3>2, HandoffAssumption DEF WalkInv
  <2>8. \A k \in Keys : rows'[k].state \in {"queued", "processing"} => k \in Turns
    BY <1>0, <2>2, <2>3
  <2> QED
    BY <1>0, <2>1, <2>3, <2>6, <2>7, <2>8, NativeKeeps
<1>9. CASE NativeDefers
  <2>1. PICK w \in walk :
          /\ Offered(w)
          /\ walk' = walk \ {w}
          /\ rows' = defer_native_handoff(rows, w[1])
    BY <1>9 DEF NativeDefers
  <2>2. native = "walking" /\ UNCHANGED <<native, inbox, channel>> /\ HermesIdle
    BY <1>9 DEF NativeDefers
  <2>3. w[1] \in Messages /\ w[1] \in Keys /\ w[1] # Welcome
    BY <2>1, WalkEntry, MessageKeys DEF Offered
  <2>4. /\ rows' \in [Keys -> Row]
        /\ \A x \in Keys : rows'[x].state = rows[x].state /\ rows'[x].turns = rows[x].turns
    BY <1>0, <2>1, <2>3, BackpressureRow
  <2>5. \A x \in Keys \ {w[1]} : rows'[x] = rows[x]
    BY <1>0, <2>1 DEF defer_native_handoff
  <2>6. Rests(w[1])
    BY <2>2, <2>3, <2>4 DEF Rests, HermesIdle, history
  <2> QED
    BY <1>0, <2>1, <2>2, <2>3, <2>4, <2>5, <2>6, WalkGoesOn DEF MailMove
<1>10. CASE NativeFails
  <2>1. PICK w \in walk :
          /\ Offered(w)
          /\ walk' = walk \ {w}
          /\ inbox' \in {inbox, inbox \union {w[1]}}
          /\ rows' = native_handoff_failed(rows, w[1], HandoffLimit)
    BY <1>10 DEF NativeFails
  <2>2. native = "walking" /\ UNCHANGED <<native, channel>> /\ HermesIdle
    BY <1>10 DEF NativeFails
  <2>3. w[1] \in Messages /\ w[1] \in Keys /\ w[1] # Welcome /\ rows[w[1]].state = "queued"
    BY <2>1, WalkEntry, MessageKeys DEF Offered
  <2>4. /\ rows' \in [Keys -> Row]
        /\ rows'[w[1]].state \in {"queued", "failed"}
        /\ rows'[w[1]].state = "queued" => rows'[w[1]].turns < HandoffLimit
        /\ \A x \in Keys \ {w[1]} : rows'[x] = rows[x]
    BY <1>0, <2>1, <2>3, HandoffRow, HandoffAssumption
  <2>5. GivesUp(w[1]) \/ Retries(w[1])
    BY <2>2, <2>3, <2>4 DEF GivesUp, Retries, HermesIdle, history
  <2> QED
    BY <1>0, <2>1, <2>2, <2>3, <2>4, <2>5, WalkGoesOn DEF MailMove
<1> QED
  BY <1>1, <1>2, <1>3, <1>4, <1>5, <1>6, <1>7, <1>8, <1>9, <1>10 DEF NativeStep

-----------------------------------------------------------------------------
(* The theorems.                                                           *)

\* Nothing has happened yet.
LEMMA FrameworksInvInit == FrameworksInit => FrameworksInv
<1> SUFFICES ASSUME FrameworksInit PROVE FrameworksInv
  OBVIOUS
<1>0. Init /\ native = "off" /\ walk = {} /\ inbox = {}
  BY DEF FrameworksInit
<1>1. TypeInv
  BY <1>0, TypeInit
<1>2. /\ \A k \in Keys : rows[k].state = "absent"
      /\ up = FALSE /\ pc = "down" /\ todo = {} /\ cur = None /\ live = {} /\ flight = {}
      /\ \A k \in Keys : plat[k] = "none" /\ begun[k] = 0
  BY <1>0 DEF Init, EmptyTable, Absent
<1>3. DownInv /\ PostedInv
  BY <1>2 DEF DownInv, PostedInv
<1>4. FreshInv /\ NoSilentLoss
  <2>1. \A k \in Keys : ~Engaged(k)
    BY <1>2 DEF Engaged, Carried
  <2> QED
    BY <1>2, <2>1, MessageKeys DEF FreshInv, NoSilentLoss
<1>5. WalkInv
  BY <1>0, <1>2, MessageKeys, HandoffAssumption DEF WalkInv
<1>6. FrameworksTypeOK
  BY <1>0, <1>1 DEF FrameworksTypeOK, TypeInv
<1> QED
  BY <1>1, <1>3, <1>4, <1>5, <1>6 DEF FrameworksInv

\* Every step of either receiver keeps the invariant.
LEMMA FrameworksInvStep == FrameworksInv /\ [FrameworksNext]_allVars => FrameworksInv'
<1> SUFFICES ASSUME FrameworksInv, [FrameworksNext]_allVars PROVE FrameworksInv'
  OBVIOUS
<1>1. CASE FrameworksNext
  BY <1>1, HermesStep, NativeInvStep DEF FrameworksNext
<1>2. CASE UNCHANGED allVars
  BY <1>2 DEF allVars, vars, nativeVars, FrameworksInv, FrameworksTypeOK, TypeInv, TypeOK,
     OnlyTurnsRun, DownInv, PostedInv, FreshInv, WalkInv, NoSilentLoss, Engaged, Carried
<1> QED
  BY <1>1, <1>2

\* So it always holds.
LEMMA FrameworksInvAlways == FrameworksSpec => []FrameworksInv
BY FrameworksInvInit, FrameworksInvStep, PTL DEF FrameworksSpec

\* The shared ledger is typed, and what is still queued may still be handed over
\* (OwnerInbox.receive, native_handoff_failed).
THEOREM FrameworksSoundHolds == FrameworksSpec => []FrameworksSound
<1>1. FrameworksInv => FrameworksSound
  BY DEF FrameworksInv, FreshInv, FrameworksSound, HandoffBudget
<1> QED
  BY FrameworksInvAlways, <1>1, PTL

\* Mail of the only owner is marked done only when it was answered or when the
\* native inbox has committed it (OwnerInbox.poll, _deliver).
THEOREM NoSilentLossHolds == FrameworksSpec => []NoSilentLoss
<1>1. FrameworksInv => NoSilentLoss
  BY DEF FrameworksInv
<1> QED
  BY FrameworksInvAlways, <1>1, PTL

\* A turn that Hermes began is never handed to a native session (OwnerInbox.poll).
THEOREM InterruptedTurnNotReplayedHolds == FrameworksSpec => InterruptedTurnNotReplayed
<1>1. FrameworksInv /\ [FrameworksNext]_allVars
        => [\A m \in Messages : m \in inbox' \ inbox => begun[m] = 0]_allVars
  <2> SUFFICES ASSUME FrameworksInv, FrameworksNext, NEW m \in Messages, m \in inbox' \ inbox
               PROVE  begun[m] = 0
    OBVIOUS
  <2>1. NativeCommits \/ NativeFails
    BY DEF FrameworksNext, Hermes, nativeVars, NativeStarts, NativeStops, NativeStep, NativePolls,
       NativeDone, NativeSkips, NativeDrops, NativeMarksDone, NativeDefers
  <2>2. PICK w \in walk : Offered(w) /\ m = w[1]
    BY <2>1 DEF NativeCommits, NativeFails
  <2> QED
    BY <2>2, WalkEntry DEF Offered
<1> QED
  BY FrameworksInvAlways, <1>1, PTL DEF FrameworksSpec, InterruptedTurnNotReplayed

\* What was handed over completely is not opened again by either receiver.
THEOREM HandedOverIsClosedHolds == FrameworksSpec => HandedOverIsClosed
<1>1. FrameworksInv /\ [FrameworksNext]_allVars
        => [\A m \in inbox : rows[m].state = "done" /\ begun[m] = 0
                               => rows'[m].state = "done"]_allVars
  <2> SUFFICES ASSUME FrameworksInv, FrameworksNext, NEW m \in inbox,
                      rows[m].state = "done", begun[m] = 0
               PROVE  rows'[m].state = "done"
    OBVIOUS
  <2>1. m \in Messages
    BY DEF FrameworksInv, FrameworksTypeOK
  <2>2. MailMove(m)
    BY <2>1, HermesStep, NativeInvStep DEF FrameworksNext, MailMoves
  <2> QED
    BY <2>2 DEF MailMove, Rests, Queues, Begins, GivesUp, Retries, Drops, Delivers, HandsOver
<1> QED
  BY FrameworksInvAlways, <1>1, PTL DEF FrameworksSpec, HandedOverIsClosed
=============================================================================
