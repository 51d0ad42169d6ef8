----------------------------- MODULE MailCursor -----------------------------
(***************************************************************************)
(* How arrivals get from the JMAP mailbox into the ledger: _messages of    *)
(* capabilities/mail/channel.py and the same query in ingress.py.  While   *)
(* the cursor is incomplete, each poll reads one page of Email/query at    *)
(* `position`; once it is complete, Email/queryChanges asks for what was   *)
(* added since the query state the scan began with.                        *)
(*                                                                         *)
(* Emails are numbered in the order of receivedAt, which is the sort of    *)
(* the query; they may enter the Inbox in any order (one that was filed in *)
(* Junk and moved to the Inbox is older than what is there already).       *)
(* Every change of the Inbox takes the server to a new query state.        *)
(***************************************************************************)
EXTENDS Naturals, FiniteSets

CONSTANTS
  Emails,      \* a set of numbers, ordered as receivedAt
  PageSize,    \* PAGE_SIZE
  Removable,   \* emails that may leave the Inbox: deleted, archived, moved
  MaxChanges   \* bound: changes of the Inbox

ASSUME MailCursorAssumption ==
  /\ Emails \subseteq Nat
  /\ PageSize \in Nat \ {0}
  /\ Removable \subseteq Emails
  /\ MaxChanges \in Nat

VARIABLES
  box,     \* what the Inbox holds
  state,   \* the server's query state
  added,   \* added[e]: the state at which e last entered the Inbox
  oldest,  \* the server cannot calculate changes since an older state
  cursor,  \* the durable cursor
  known,   \* ids in the ledger
  page,    \* the query result between the query and the ingest; volatile
  shifted  \* history: emails that slipped below a position the scan goes on from,
           \* as an older one left the Inbox

vars   == <<box, state, added, oldest, cursor, known, page, shifted>>
server == <<box, state, added, oldest, shifted>>

\* The states count the changes from 1; a cursor starts without one.
Unset == 0
QueryStates == 1..(MaxChanges + 1)

Fresh   == [complete |-> FALSE, position |-> 0, state |-> Unset]
Cursors == [complete : BOOLEAN, position : Nat, state : QueryStates \union {Unset}]

\* No result waits to be ingested; a result never has a fresh cursor.
NoPage == [ids |-> {}, next |-> Fresh]

TypeOK ==
  /\ box \subseteq Emails
  /\ state \in QueryStates
  /\ added \in [Emails -> QueryStates]
  /\ oldest \in 1..state
  /\ cursor \in Cursors
  /\ known \subseteq Emails
  /\ page \in [ids : SUBSET Emails, next : Cursors]
  /\ shifted \subseteq Emails

Init ==
  /\ box \in SUBSET Emails
  /\ state = 1
  /\ added = [e \in Emails |-> 1]
  /\ oldest = 1
  /\ cursor = Fresh
  /\ known = {}
  /\ page = NoPage
  /\ shifted = {}

Rank(e) == Cardinality({f \in box : f < e})

\* Where the scan may go on: from the durable cursor, or from the one that waits
\* with a page.
ScanPositions == {c.position : c \in {d \in {cursor, page.next} : ~d.complete}}

-----------------------------------------------------------------------------
(* The mailbox server.                                                     *)

EmailEnters(e) ==
  /\ e \notin box
  /\ state \in 1..MaxChanges
  /\ state' = state + 1
  /\ box' = box \union {e}
  /\ added' = [added EXCEPT ![e] = state']
  /\ shifted' = shifted \ {e}
  /\ UNCHANGED <<oldest, cursor, known, page>>

EmailLeaves(e) ==
  /\ e \in Removable \intersect box
  /\ state \in 1..MaxChanges
  /\ state' = state + 1
  /\ box' = box \ {e}
  /\ shifted' = shifted \union {f \in box : e < f /\ Rank(f) \in ScanPositions}
  /\ UNCHANGED <<added, oldest, cursor, known, page>>

\* The server drops its history of changes.
HistoryIsTruncated ==
  /\ oldest < state
  /\ oldest' = state
  /\ UNCHANGED <<box, state, added, cursor, known, page, shifted>>

-----------------------------------------------------------------------------
(* The adapter.                                                            *)

PageAt(pos) == {e \in box : pos <= Rank(e) /\ Rank(e) < pos + PageSize}

\* Mutant: the cursor takes the state of the latest page.
QueryPageLatestState ==
  /\ page = NoPage
  /\ ~cursor.complete
  /\ LET ids == PageAt(cursor.position) IN
       page' = [ids  |-> ids,
                next |-> [complete |-> Cardinality(ids) < PageSize,
                          position |-> cursor.position + Cardinality(ids),
                          state    |-> state]]
  /\ UNCHANGED <<server, cursor, known>>

QueryPage ==
  /\ page = NoPage
  /\ ~cursor.complete
  /\ LET ids == PageAt(cursor.position) IN
       page' = [ids  |-> ids,
                next |-> [complete |-> Cardinality(ids) < PageSize,
                          position |-> cursor.position + Cardinality(ids),
                          state    |-> IF cursor.state = Unset THEN state
                                       ELSE cursor.state]]
  /\ UNCHANGED <<server, cursor, known>>

CannotCalculate == cursor.state < oldest \/ state - cursor.state > PageSize

QueryChanges ==
  /\ page = NoPage
  /\ cursor.complete
  /\ ~CannotCalculate
  /\ page' = [ids  |-> {e \in box : added[e] > cursor.state},
              next |-> [complete |-> TRUE, position |-> 0, state |-> state]]
  /\ UNCHANGED <<server, cursor, known>>

\* Mutant: the cursor is only moved up.
StartOverWithoutScan ==
  /\ page = NoPage
  /\ cursor.complete
  /\ CannotCalculate
  /\ cursor' = [complete |-> TRUE, position |-> 0, state |-> state]
  /\ UNCHANGED <<server, known, page>>

\* cannotCalculateChanges or tooManyChanges: start over with an empty cursor.
StartOver ==
  /\ page = NoPage
  /\ cursor.complete
  /\ CannotCalculate
  /\ cursor' = Fresh
  /\ shifted' = {}
  /\ UNCHANGED <<box, state, added, oldest, known, page>>

\* The bodies are fetched and committed together with the cursor.
Ingest ==
  /\ page # NoPage
  /\ known' = known \union page.ids
  /\ cursor' = page.next
  /\ page' = NoPage
  /\ UNCHANGED server

\* The process stops, or Email/get fails, before the transaction.
PageIsLost ==
  /\ page # NoPage
  /\ page' = NoPage
  /\ UNCHANGED <<server, cursor, known>>

Adapter == QueryPage \/ QueryChanges \/ StartOver \/ Ingest

Next ==
  \/ \E e \in Emails : EmailEnters(e) \/ EmailLeaves(e)
  \/ HistoryIsTruncated
  \/ Adapter
  \/ PageIsLost

\* Polling goes on, and not every page can be lost.
Fairness == WF_vars(Adapter) /\ SF_vars(Ingest)

Spec     == Init /\ [][Next]_vars
FairSpec == Spec /\ Fairness

-----------------------------------------------------------------------------
\* A complete cursor has passed over nothing: whatever the Inbox holds is in
\* the ledger, or entered after the cursor's state and will be in its changes.
\* The one exception is an email that lay where the scan was to go on when an older
\* one left: positions count from the oldest.
NothingSkipped ==
  cursor.complete =>
    \A e \in box : e \in known \/ added[e] > cursor.state \/ e \in shifted

\* During a scan the part of the Inbox below the position is in the ledger,
\* entered after the scan began, or slipped there as an older email left.
PrefixIngested ==
  ~cursor.complete /\ cursor.state # Unset =>
    \A e \in box : Rank(e) < cursor.position =>
      e \in known \/ added[e] > cursor.state \/ e \in shifted

\* What stays in the Inbox, and did not slip past the scan, reaches the ledger, over
\* lost pages and restarts.
EverythingArrives == ~(box \subseteq known \union shifted) ~> (box \subseteq known \union shifted)
=============================================================================
