------------------------ MODULE GoogleWorkspaceProofs -----------------------
(***************************************************************************)
(* Proofs of the safety properties of GoogleHandoff, alone and composed    *)
(* with GoogleDisconnect and GoogleRefresh in GoogleWorkspace.             *)
(*                                                                         *)
(* First the sign-ins alone: types and the lock, then what follows one     *)
(* from its start to its notice.  Then the composition: the other halves   *)
(* are guests that keep what the sign-ins rest on, a revocation's own      *)
(* invariants follow it from its offer to its deletion, and the last ones  *)
(* follow what a deletion leaves behind.                                   *)
(***************************************************************************)
EXTENDS GoogleWorkspaceProps, TLAPS

-----------------------------------------------------------------------------
(* The platform's records.                                                 *)

\* A change of status is a change of nothing else.
LEMMA StatusUpdate ==
  ASSUME NEW f \in [Handoffs -> SignIns], NEW h \in Handoffs, NEW s \in Statuses,
         NEW t, t = [f EXCEPT ![h].status = s]
  PROVE  /\ t \in [Handoffs -> SignIns]
         /\ t[h].status = s
         /\ \A g \in Handoffs :
              /\ g # h => t[g] = f[g]
              /\ t[g].target = f[g].target
              /\ t[g].binding = f[g].binding
              /\ t[g].subject = f[g].subject
BY DEF SignIns

\* A refusal ends a sign-in that was open, if it arrives.
LEMMA ClaimFalseUpdate ==
  ASSUME handoff \in [Handoffs -> SignIns], NEW h \in Handoffs, ClaimFalse(h)
  PROVE  /\ handoff' \in [Handoffs -> SignIns]
         /\ \A g \in Handoffs :
              /\ \/ handoff'[g].status = handoff[g].status
                 \/ /\ g = h
                    /\ handoff[g].status \in {"pending", "ready"}
                    /\ handoff'[g].status = "ended"
              /\ handoff'[g].target = handoff[g].target
              /\ handoff'[g].binding = handoff[g].binding
              /\ handoff'[g].subject = handoff[g].subject
<1> DEFINE s == IF handoff[h].status \in {"pending", "ready"} THEN "ended"
                ELSE handoff[h].status
<1>1. s \in Statuses
  BY DEF SignIns, Statuses
<1>2. Refused(h) = [handoff EXCEPT ![h].status = s]
  BY Zenon DEF Refused
<1>6. IF handoff[h].status \in {"pending", "ready"} THEN s = "ended"
      ELSE s = handoff[h].status
  OBVIOUS
<1> HIDE DEF s
<1>3. handoff' = handoff \/ handoff' = [handoff EXCEPT ![h].status = s]
  BY <1>2 DEF ClaimFalse
<1>4. CASE handoff' = handoff
  BY <1>4
<1>5. CASE handoff' = [handoff EXCEPT ![h].status = s]
  BY <1>1, <1>5, <1>6, StatusUpdate
<1> QED
  BY <1>3, <1>4, <1>5

-----------------------------------------------------------------------------
(* Types, and who is inside the lock.                                      *)

\* A tool call that has begun works on a sign-in.
ToolInv == pc[Tool] # "idle" => task \in [on : Handoffs, target : Handoffs]

\* What is ready to install has a Google account.
SubjectInv ==
  /\ \A h \in Handoffs :
       handoff[h].status \in {"ready", "claimed"} => handoff[h].subject \in Subjects
  /\ \A w \in Workers :
       pc[w] \in {"install", "receipt", "save"} => handoff[w[1]].subject \in Subjects

TypeInv == HandoffTypeOK /\ ToolInv /\ SubjectInv

\* A worker is a sign-in and one of its two starts.
LEMMA Pairs ==
  /\ \A w \in Workers : w[1] \in Handoffs /\ w[2] \in Starts /\ w = <<w[1], w[2]>>
  /\ \A h \in Handoffs, n \in Starts :
       <<h, n>> \in Workers /\ <<h, n>>[1] = h /\ <<h, n>>[2] = n
  /\ 1 \in Starts /\ 2 \in Starts /\ NoReceipt \notin Starts
BY DEF Workers, Starts, NoReceipt

\* The kinds of processes are different, and no process is no holder.
LEMMA ProcsDiffer ==
  /\ Tool \in Procs /\ Hook \in Procs /\ Workers \subseteq Procs
  /\ Procs = Workers \union {Tool, Hook}
  /\ Tool # Hook /\ None \notin Procs
  /\ Tool \notin Workers /\ Hook \notin Workers
  /\ \A w \in Workers : w[1] \in Handoffs /\ w[2] \in Starts /\ w = <<w[1], w[2]>>
  /\ \A h \in Handoffs :
       /\ <<h, 1>> \in Workers /\ <<h, 2>> \in Workers /\ <<h, 1>> # <<h, 2>>
       /\ \A n \in Starts : <<h, n>> \in Workers /\ <<h, n>>[1] = h /\ <<h, n>>[2] = n
  /\ NoReceipt \notin Starts
<1>1. Tool # Hook /\ None \notin Procs /\ Tool \notin Workers /\ Hook \notin Workers
  BY HandoffAssumption DEF Procs, Workers
<1>2. \A h \in Handoffs : <<h, 1>> # <<h, 2>>
  OBVIOUS
<1> QED
  BY <1>1, <1>2, Pairs DEF Procs

\* The process that holds the lock, and no other, stands inside it.
LockInv == \A p \in Procs : Inside(p) <=> lock = p

\* A Computer on which nothing was connected has typed variables.
LEMMA TypeInit == HandoffInit => TypeInv
<1> SUFFICES ASSUME HandoffInit PROVE TypeInv
  OBVIOUS
<1>1. 1 \in Bindings
  BY AccountsAssumption DEF Bindings
<1>2. /\ store = {} /\ active = None /\ scratch = {} /\ lock = None /\ binding = 1
      /\ receipt = [h \in Handoffs |-> NoReceipt]
      /\ seen = 1 /\ crashes = 0
      /\ told = [h \in Handoffs |-> [ready |-> 0, failed |-> FALSE]]
      /\ botched = [h \in Handoffs |-> {}]
      /\ task = [on |-> None, target |-> None]
      /\ pc = [p \in Procs |-> IF p \in Workers THEN "off" ELSE "idle"]
  BY DEF HandoffInit, InitWith, SharedInit
<1>3. handoff = [h \in Handoffs |->
        [status |-> "unused", target |-> h, binding |-> 1, subject |-> None]]
  BY DEF HandoffInit, InitWith
<1>4. handoff \in [Handoffs -> SignIns]
  BY <1>1, <1>3 DEF SignIns, Statuses
<1>5. SharedTypeOK
  BY <1>1, <1>2 DEF SharedTypeOK
<1>6. pc \in [Procs -> PcStates] /\ \A p \in Procs : ~Inside(p) /\ lock # p
  BY <1>2, ProcsDiffer DEF PcStates, Inside
<1>7. /\ told \in [Handoffs -> [ready : Nat, failed : BOOLEAN]]
      /\ botched \in [Handoffs -> SUBSET {"save", "promote"}]
  BY <1>2
<1>8. SubjectInv
  BY <1>2, <1>3, ProcsDiffer DEF SubjectInv
<1> QED
  BY <1>1, <1>2, <1>4, <1>5, <1>6, <1>7, <1>8, ProcsDiffer, HandoffAssumption
     DEF TypeInv, HandoffTypeOK, ToolInv

\* A process moves within the lock, or without it.
LEMMA Moves ==
  ASSUME TypeInv, NEW p \in Procs, NEW where \in PcStates, Goto(p, where),
         \/ lock' = lock /\ (Inside(p) <=> Inside(p)')
         \/ lock = None /\ lock' = p /\ Inside(p)'
         \/ Inside(p) /\ lock' = None /\ ~Inside(p)'
  PROVE  /\ pc' \in [Procs -> PcStates]
         /\ pc'[p] = where
         /\ \A q \in Procs : q # p => pc'[q] = pc[q]
         /\ \A q \in Procs : Inside(q)' <=> lock' = q
<1>1. pc' \in [Procs -> PcStates] /\ pc'[p] = where /\ \A q \in Procs : q # p => pc'[q] = pc[q]
  BY DEF Goto, TypeInv, HandoffTypeOK
<1>2. \A q \in Procs : q # p => (Inside(q)' <=> Inside(q))
  BY <1>1 DEF Inside
<1>3. \A q \in Procs : Inside(q) <=> lock = q
  BY DEF TypeInv, HandoffTypeOK
<1> QED
  BY <1>1, <1>2, <1>3, ProcsDiffer

\* How a step may change the platform's record of a sign-in: it goes forward,
\* it names its account when it becomes ready, and the rest is fixed by the
\* request that opened it.
Opens(h) ==
  /\ pc[Tool] = "posting" /\ pc'[Tool] # "posting"
  /\ h = task.on
  /\ handoff'[h].status = "pending"

RecordMoves(h) ==
  /\ \/ handoff'[h].status = handoff[h].status
     \/ /\ handoff[h].status = "pending" /\ handoff'[h].status = "ready"
        /\ handoff'[h].subject \in Subjects
     \/ handoff[h].status \in {"pending", "ready"} /\ handoff'[h].status = "ended"
     \/ handoff[h].status = "ready" /\ handoff'[h].status = "claimed"
     \/ Opens(h)
  /\ \/ handoff'[h].subject = handoff[h].subject
     \/ handoff[h].status = "pending" /\ handoff'[h].status = "ready"
  /\ \/ handoff'[h].target = handoff[h].target /\ handoff'[h].binding = handoff[h].binding
     \/ Opens(h)

Records == handoff' \in [Handoffs -> SignIns] /\ \A h \in Handoffs : RecordMoves(h)

\* A step that leaves the platform's records alone moves them as allowed.
LEMMA RecordsKept == TypeInv /\ handoff' = handoff => Records
BY DEF Records, RecordMoves, TypeInv, HandoffTypeOK

\* So does a refusal, whether or not it arrives.
LEMMA RecordsRefused ==
  ASSUME TypeInv, NEW h \in Handoffs, handoff' = handoff \/ ClaimFalse(h)
  PROVE  Records
BY ClaimFalseUpdate, RecordsKept DEF Records, RecordMoves, TypeInv, HandoffTypeOK

\* So does the end or the acceptance of an open sign-in.
LEMMA RecordsForward ==
  ASSUME TypeInv, NEW h \in Handoffs, NEW s \in Statuses,
         handoff' = handoff \/ handoff' = [handoff EXCEPT ![h].status = s],
         \/ s = "ended" /\ handoff[h].status \in {"pending", "ready"}
         \/ s = "claimed" /\ handoff[h].status \in {"ready", "claimed"}
  PROVE  Records
<1>1. CASE handoff' = handoff
  BY <1>1, RecordsKept
<1>2. CASE handoff' = [handoff EXCEPT ![h].status = s]
  <2>1. handoff \in [Handoffs -> SignIns]
    BY DEF TypeInv, HandoffTypeOK
  <2>2. /\ handoff' \in [Handoffs -> SignIns]
        /\ handoff'[h].status = s
        /\ \A g \in Handoffs :
             /\ g # h => handoff'[g] = handoff[g]
             /\ handoff'[g].target = handoff[g].target
             /\ handoff'[g].binding = handoff[g].binding
             /\ handoff'[g].subject = handoff[g].subject
    BY <1>2, <2>1 DEF SignIns
  <2>3. ASSUME NEW g \in Handoffs PROVE RecordMoves(g)
    <3>1. CASE g # h
      BY <2>2, <3>1 DEF RecordMoves
    <3>2. CASE g = h
      BY <2>2, <3>2 DEF RecordMoves
    <3> QED
      BY <3>1, <3>2
  <2> QED
    BY <2>2, <2>3 DEF Records
<1> QED
  BY <1>1, <1>2

\* Every step moves the platform's records as allowed.
LEMMA RecordStep == TypeInv /\ [HandoffNext]_allVars => Records
<1> SUFFICES ASSUME TypeInv, [HandoffNext]_allVars PROVE Records
  OBVIOUS
<1>0. "ended" \in Statuses /\ "claimed" \in Statuses
  BY DEF Statuses
<1>1. ASSUME UNCHANGED allVars PROVE Records
  BY <1>1, RecordsKept DEF allVars, hvars
<1>2. ASSUME NEW h \in Handoffs, NEW s \in Subjects, SignIn(h, s) PROVE Records
  <2>1. /\ handoff[h].status = "pending"
        /\ handoff' = [handoff EXCEPT ![h] = [handoff[h] EXCEPT !.status = "ready", !.subject = s]]
    BY <1>2 DEF SignIn
  <2>2. /\ handoff'[h] = [handoff[h] EXCEPT !.status = "ready", !.subject = s]
        /\ \A g \in Handoffs \ {h} : handoff'[g] = handoff[g]
    BY <2>1 DEF TypeInv, HandoffTypeOK
  <2>3. handoff[h] \in SignIns
    BY DEF TypeInv, HandoffTypeOK
  <2>4. /\ handoff'[h] \in SignIns
        /\ handoff'[h].status = "ready" /\ handoff'[h].subject = s
        /\ handoff'[h].target = handoff[h].target
        /\ handoff'[h].binding = handoff[h].binding
    BY <2>2, <2>3 DEF SignIns, Statuses
  <2>5. handoff' \in [Handoffs -> SignIns]
    BY <2>1, <2>2, <2>4 DEF TypeInv, HandoffTypeOK
  <2> QED
    BY <2>1, <2>2, <2>4, <2>5 DEF Records, RecordMoves
<1>3. ASSUME NEW h \in Handoffs, PlatformEnds(h) PROVE Records
  <2> DEFINE s == "ended"
  <2>1. h \in Handoffs
    BY <1>3, ProcsDiffer DEF PlatformEnds, TypeInv, ToolInv, On
  <2>2. /\ s \in Statuses /\ s = "ended"
        /\ handoff' = handoff \/ handoff' = [handoff EXCEPT ![h].status = s]
    BY <1>0, <1>3 DEF PlatformEnds
  <2>3. handoff' # handoff => handoff[h].status \in {"pending", "ready"}
    BY <1>3 DEF PlatformEnds
  <2> HIDE DEF s
  <2> QED
    BY <2>1, <2>2, <2>3, RecordsForward, RecordsKept
<1>4. ASSUME Reassign PROVE Records
  BY <1>4, RecordsKept DEF Reassign, hvars
<1>5. ASSUME NEW h \in Handoffs, NEW target \in Handoffs, ConnectBegin(h, target) PROVE Records
  BY <1>5, RecordsKept DEF ConnectBegin
<1>6. ASSUME NEW target \in Handoffs \union {None}, ConnectFindsStale(target) PROVE Records
  BY <1>6, RecordsKept DEF ConnectFindsStale, hvars
<1>7. ASSUME ConnectPosts PROVE Records
  <2> DEFINE h == task.on
  <2>1. h \in Handoffs /\ task.target \in Handoffs /\ binding \in Bindings
    BY <1>7, ProcsDiffer DEF ConnectPosts, TypeInv, ToolInv, HandoffTypeOK, SharedTypeOK
  <2>2. handoff' = [handoff EXCEPT ![h] =
          [handoff[h] EXCEPT !.status = "pending", !.target = task.target, !.binding = binding]]
    BY <1>7 DEF ConnectPosts
  <2>3. pc[Tool] = "posting" /\ pc'[Tool] # "posting"
    BY <1>7, ProcsDiffer DEF ConnectPosts, Goto, Leave, TypeInv, HandoffTypeOK
  <2>4. /\ handoff'[h] = [handoff[h] EXCEPT !.status = "pending", !.target = task.target,
                                            !.binding = binding]
        /\ \A g \in Handoffs \ {h} : handoff'[g] = handoff[g]
    BY <2>1, <2>2 DEF TypeInv, HandoffTypeOK
  <2>5. handoff[h] \in SignIns
    BY <2>1 DEF TypeInv, HandoffTypeOK
  <2>6. /\ handoff'[h] \in SignIns
        /\ handoff'[h].status = "pending" /\ handoff'[h].subject = handoff[h].subject
    BY <2>1, <2>4, <2>5 DEF SignIns, Statuses
  <2>7. handoff' \in [Handoffs -> SignIns]
    BY <2>1, <2>2, <2>4, <2>6 DEF TypeInv, HandoffTypeOK
  <2> QED
    BY <2>1, <2>3, <2>4, <2>6, <2>7 DEF Records, RecordMoves, Opens
<1>8. ASSUME ConnectStarts PROVE Records
  BY <1>8, RecordsKept DEF ConnectStarts
<1>9. ASSUME ConnectCannotSpawn PROVE Records
  <2>1. task.on \in Handoffs
    BY <1>9, ProcsDiffer DEF ConnectCannotSpawn, TypeInv, ToolInv, On
  <2> QED
    BY <1>9, <2>1, RecordsRefused DEF ConnectCannotSpawn
<1>10. ASSUME ConnectEnds PROVE Records
  <2>1. task.on \in Handoffs
    BY <1>10, ProcsDiffer DEF ConnectEnds, TypeInv, ToolInv, On
  <2> QED
    BY <1>10, <2>1, RecordsRefused DEF ConnectEnds
<1>11. ASSUME NEW w \in Workers, WorkerReadsKey(w) PROVE Records
  BY <1>11, RecordsKept DEF WorkerReadsKey
<1>12. ASSUME NEW w \in Workers, WorkerChecksMarker(w) PROVE Records
  BY <1>12, RecordsKept DEF WorkerChecksMarker
<1>13. ASSUME NEW w \in Workers, WorkerPolls(w) PROVE Records
  BY <1>13, RecordsKept DEF WorkerPolls
<1>14. ASSUME NEW w \in Workers, WorkerClears(w) PROVE Records
  BY <1>14, RecordsKept DEF WorkerClears
<1>15. ASSUME NEW w \in Workers, WorkerDenies(w) PROVE Records
  <2>1. w[1] \in Handoffs
    BY ProcsDiffer
  <2> QED
    BY <1>15, <2>1, RecordsRefused DEF WorkerDenies
<1>16. ASSUME NEW w \in Workers, WorkerCloses(w) PROVE Records
  BY <1>16, RecordsKept DEF WorkerCloses
<1>17. ASSUME NEW w \in Workers, InstallSuperseded(w) PROVE Records
  BY <1>17, RecordsKept DEF InstallSuperseded
<1>18. ASSUME NEW w \in Workers, InstallUnassigned(w) PROVE Records
  BY <1>18, RecordsKept DEF InstallUnassigned
<1>19. ASSUME NEW w \in Workers, InstallRejected(w) PROVE Records
  BY <1>19, RecordsKept DEF InstallRejected
<1>20. ASSUME NEW w \in Workers, InstallBegins(w) PROVE Records
  BY <1>20, RecordsKept DEF InstallBegins
<1>21. ASSUME NEW w \in Workers, WriteReceipt(w) PROVE Records
  BY <1>21, RecordsKept DEF WriteReceipt
<1>22. ASSUME NEW w \in Workers, SaveCredential(w) PROVE Records
  BY <1>22, RecordsKept DEF SaveCredential
<1>23. ASSUME NEW w \in Workers, PromoteReceipt(w) PROVE Records
  BY <1>23, RecordsKept DEF PromoteReceipt
<1>24. ASSUME NEW h \in Handoffs, RecoverBegins(h) PROVE Records
  BY <1>24, RecordsKept DEF RecoverBegins
<1>25. ASSUME NEW p \in Workers \union {Tool}, AckGivesUp(p) PROVE Records
  BY <1>25, RecordsKept DEF AckGivesUp
<1>26. ASSUME NEW p \in Workers \union {Tool}, AckOrphaned(p) PROVE Records
  <2>1. On(p) \in Handoffs
    BY <1>26, ProcsDiffer DEF AckOrphaned, Acknowledging, AfterAck, On, TypeInv, ToolInv, On
  <2> QED
    BY <1>26, <2>1, RecordsRefused DEF AckOrphaned
<1>27. ASSUME NEW p \in Workers \union {Tool}, AckUnassigned(p) PROVE Records
  <2>1. On(p) \in Handoffs
    BY <1>27, ProcsDiffer
    DEF AckUnassigned, Acknowledging, AfterAck, On, WipeForAssignment, CancelHandoffs,
        TypeInv, ToolInv, On
  <2> QED
    BY <1>27, <2>1, RecordsRefused DEF AckUnassigned
<1>28. ASSUME NEW p \in Workers \union {Tool}, AckBegins(p) PROVE Records
  BY <1>28, RecordsKept DEF AckBegins
<1>29. ASSUME NEW p \in Workers \union {Tool}, ClaimAccepted(p) PROVE Records
  <2> DEFINE s == "claimed"
  <2>1. On(p) \in Handoffs
    BY <1>29, ProcsDiffer DEF ClaimAccepted, TypeInv, ToolInv, On
  <2>2. /\ s \in Statuses /\ s = "claimed"
        /\ handoff' = handoff \/ handoff' = [handoff EXCEPT ![On(p)].status = s]
    BY <1>0, <1>29 DEF ClaimAccepted
  <2>3. handoff' # handoff => handoff[On(p)].status \in {"ready", "claimed"}
    BY <1>29 DEF ClaimAccepted
  <2> HIDE DEF s
  <2> QED
    BY <2>1, <2>2, <2>3, RecordsForward, RecordsKept
<1>30. ASSUME NEW p \in Workers \union {Tool}, ClaimUnanswered(p) PROVE Records
  <2> DEFINE s == "claimed"
  <2>1. On(p) \in Handoffs
    BY <1>30, ProcsDiffer DEF ClaimUnanswered, TypeInv, ToolInv, On
  <2>2. /\ s \in Statuses /\ s = "claimed"
        /\ handoff' = handoff \/ handoff' = [handoff EXCEPT ![On(p)].status = s]
    BY <1>0, <1>30 DEF ClaimUnanswered
  <2>3. handoff' # handoff => handoff[On(p)].status \in {"ready", "claimed"}
    BY <1>30 DEF ClaimUnanswered
  <2> HIDE DEF s
  <2> QED
    BY <2>1, <2>2, <2>3, RecordsForward, RecordsKept
<1>31. ASSUME NEW p \in Workers \union {Tool}, RetireReceipt(p) PROVE Records
  BY <1>31, RecordsKept DEF RetireReceipt
<1>32. ASSUME NEW p \in Workers \union {Tool}, ReadyNotice(p) PROVE Records
  BY <1>32, RecordsKept DEF ReadyNotice
<1>33. ASSUME HookReads PROVE Records
  BY <1>33, RecordsKept DEF HookReads
<1>34. ASSUME HookWipes PROVE Records
  BY <1>34, RecordsKept DEF HookWipes
<1>35. ASSUME NEW p \in Procs, Crash(p) PROVE Records
  BY <1>35, RecordsKept DEF Crash
<1>36. ASSUME NEW p \in Procs, WipeCutShort(p) PROVE Records
  BY <1>36, RecordsKept DEF WipeCutShort
<1>37. ASSUME StartCutShort PROVE Records
  BY <1>37, RecordsKept DEF StartCutShort
<1> QED
  BY <1>1, <1>2, <1>3, <1>4, <1>5, <1>6, <1>7, <1>8, <1>9, <1>10, <1>11, <1>12, <1>13, <1>14,
     <1>15, <1>16, <1>17, <1>18, <1>19, <1>20, <1>21, <1>22, <1>23, <1>24, <1>25, <1>26,
     <1>27, <1>28, <1>29, <1>30, <1>31, <1>32, <1>33, <1>34, <1>35, <1>36, <1>37
  DEF HandoffNext, Connects, Polls, Installs, Acknowledges, Environment

\* Every step keeps the types.
LEMMA TypeStep == TypeInv /\ [HandoffNext]_allVars => TypeInv'
<1> SUFFICES ASSUME TypeInv, [HandoffNext]_allVars PROVE TypeInv'
  OBVIOUS
<1>0. /\ handoff' \in [Handoffs -> SignIns]
      /\ \A g \in Handoffs :
           \/ handoff'[g].subject \in Subjects
           \/ /\ handoff'[g].subject = handoff[g].subject
              /\ handoff'[g].status \in {"ready", "claimed"}
                   => handoff[g].status \in {"ready", "claimed"}
  BY RecordStep DEF Records, RecordMoves, Opens
<1>1. ASSUME UNCHANGED allVars PROVE TypeInv'
  BY <1>0, <1>1, ProcsDiffer, HandoffAssumption, AccountsAssumption
  DEF allVars, hvars, TypeInv, SubjectInv, HandoffTypeOK, SharedTypeOK, ToolInv, shared, Goto,
      Leave, Inside, PcStates
<1>2. ASSUME NEW h \in Handoffs, NEW s \in Subjects, SignIn(h, s) PROVE TypeInv'
  BY <1>0, <1>2, ProcsDiffer, HandoffAssumption, AccountsAssumption
  DEF SignIn, TypeInv, SubjectInv, HandoffTypeOK, SharedTypeOK, ToolInv, shared, Goto, Leave,
      Inside, PcStates
<1>3. ASSUME NEW h \in Handoffs, PlatformEnds(h) PROVE TypeInv'
  BY <1>0, <1>3, ProcsDiffer, HandoffAssumption, AccountsAssumption
  DEF PlatformEnds, TypeInv, SubjectInv, HandoffTypeOK, SharedTypeOK, ToolInv, shared, Goto,
      Leave, Inside, PcStates
<1>4. ASSUME Reassign PROVE TypeInv'
  BY <1>0, <1>4, ProcsDiffer, HandoffAssumption, AccountsAssumption
  DEF Reassign, hvars, Bindings, TypeInv, SubjectInv, HandoffTypeOK, SharedTypeOK, ToolInv,
      shared, Goto, Leave, Inside, PcStates
<1>5. ASSUME NEW h \in Handoffs, NEW target \in Handoffs, ConnectBegin(h, target) PROVE TypeInv'
  BY <1>0, <1>5, ProcsDiffer, HandoffAssumption, AccountsAssumption
  DEF ConnectBegin, TypeInv, SubjectInv, HandoffTypeOK, SharedTypeOK, ToolInv, shared, Goto,
      Leave, Inside, PcStates
<1>6. ASSUME NEW target \in Handoffs \union {None}, ConnectFindsStale(target) PROVE TypeInv'
  BY <1>0, <1>6, ProcsDiffer, HandoffAssumption, AccountsAssumption
  DEF ConnectFindsStale, WipeForAssignment, CancelHandoffs, hvars, TypeInv, SubjectInv,
      HandoffTypeOK, SharedTypeOK, ToolInv, shared, Goto, Leave, Inside, PcStates
<1>7. ASSUME ConnectPosts PROVE TypeInv'
  BY <1>0, <1>7, ProcsDiffer, HandoffAssumption, AccountsAssumption
  DEF ConnectPosts, TypeInv, SubjectInv, HandoffTypeOK, SharedTypeOK, ToolInv, shared, Goto,
      Leave, Inside, PcStates
<1>8. ASSUME ConnectStarts PROVE TypeInv'
  <2>1. task.on \in Handoffs /\ task.on # None /\ pc \in [Procs -> PcStates] /\ lock = Tool
    BY <1>8, ProcsDiffer, AccountsAssumption
    DEF ConnectStarts, TypeInv, ToolInv, HandoffTypeOK, Inside
  <2>2. /\ pc'[Tool] = "button" /\ lock' = lock
        /\ \A p \in Procs \ {Tool} : pc'[p] = pc[p] \/ pc'[p] = "starting"
        /\ pc' \in [Procs -> PcStates]
    BY <1>8, <2>1, ProcsDiffer DEF ConnectStarts, PcStates
  <2>3. \A p \in Procs : Inside(p) <=> lock = p
    BY DEF TypeInv, HandoffTypeOK
  <2>4. \A p \in Procs : Inside(p)' <=> lock' = p
    BY <2>1, <2>2, <2>3, ProcsDiffer DEF Inside
  <2>5. /\ UNCHANGED <<store, receipt, binding, handoff, task, seen, told, botched, crashes>>
        /\ active' \in Handoffs /\ scratch' \subseteq Handoffs
    BY <1>8, <2>1 DEF ConnectStarts, TypeInv, HandoffTypeOK, SharedTypeOK
  <2>6. HandoffTypeOK'
    BY <1>0, <2>2, <2>4, <2>5 DEF TypeInv, HandoffTypeOK, SharedTypeOK
  <2>7. SubjectInv'
    BY <2>2, <2>5, ProcsDiffer DEF TypeInv, SubjectInv
  <2> QED
    BY <1>8, <2>1, <2>5, <2>6, <2>7 DEF TypeInv, ToolInv, ConnectStarts
<1>9. ASSUME ConnectCannotSpawn PROVE TypeInv'
  <2>1. task.on \in Handoffs /\ task.on # None /\ pc \in [Procs -> PcStates] /\ lock = Tool
    BY <1>9, ProcsDiffer, AccountsAssumption
    DEF ConnectCannotSpawn, TypeInv, ToolInv, HandoffTypeOK, Inside
  <2>2. /\ pc'[Tool] = "idle" /\ lock' = None
        /\ \A p \in Procs \ {Tool} : pc'[p] = pc[p] \/ pc'[p] \in {"starting", "loop"}
        /\ pc' \in [Procs -> PcStates]
    <3> DEFINE w == <<task.on, 1>>
    <3>1. PICK first : /\ first \in {pc[w], "starting", "loop"}
                       /\ pc' = [pc EXCEPT ![Tool] = "idle", ![w] = first]
      BY <1>9 DEF ConnectCannotSpawn
    <3>2. w \in Procs /\ w # Tool /\ Tool \in Procs
      BY <2>1, ProcsDiffer
    <3> HIDE DEF w
    <3>3. first \in PcStates /\ "idle" \in PcStates
      BY <2>1, <3>1, <3>2 DEF PcStates
    <3>4. lock' = None
      BY <1>9 DEF ConnectCannotSpawn
    <3> QED
      BY <2>1, <3>1, <3>2, <3>3, <3>4
  <2>3. \A p \in Procs : Inside(p) <=> lock = p
    BY DEF TypeInv, HandoffTypeOK
  <2>4. \A p \in Procs : Inside(p)' <=> lock' = p
    BY <2>1, <2>2, <2>3, ProcsDiffer DEF Inside
  <2>5. /\ UNCHANGED <<store, receipt, binding, task, seen, told, botched, crashes>>
        /\ active' = None /\ scratch' \subseteq Handoffs
    BY <1>9, <2>1 DEF ConnectCannotSpawn, TypeInv, HandoffTypeOK, SharedTypeOK
  <2>6. HandoffTypeOK'
    BY <1>0, <2>2, <2>4, <2>5 DEF TypeInv, HandoffTypeOK, SharedTypeOK
  <2>7. SubjectInv'
    BY <1>0, <2>2, <2>5, ProcsDiffer DEF TypeInv, SubjectInv
  <2> QED
    BY <2>2, <2>6, <2>7 DEF TypeInv, ToolInv
<1>10. ASSUME ConnectEnds PROVE TypeInv'
  BY <1>0, <1>10, ProcsDiffer, HandoffAssumption, AccountsAssumption
  DEF ConnectEnds, TypeInv, SubjectInv, HandoffTypeOK, SharedTypeOK, ToolInv, shared, Goto,
      Leave, Inside, PcStates
<1>11. ASSUME NEW w \in Workers, WorkerReadsKey(w) PROVE TypeInv'
  BY <1>0, <1>11, ProcsDiffer, HandoffAssumption, AccountsAssumption
  DEF WorkerReadsKey, TypeInv, SubjectInv, HandoffTypeOK, SharedTypeOK, ToolInv, shared, Goto,
      Leave, Inside, PcStates
<1>12. ASSUME NEW w \in Workers, WorkerChecksMarker(w) PROVE TypeInv'
  BY <1>0, <1>12, ProcsDiffer, HandoffAssumption, AccountsAssumption
  DEF WorkerChecksMarker, TypeInv, SubjectInv, HandoffTypeOK, SharedTypeOK, ToolInv, shared,
      Goto, Leave, Inside, PcStates
<1>13. ASSUME NEW w \in Workers, WorkerPolls(w) PROVE TypeInv'
  BY <1>0, <1>13, ProcsDiffer, HandoffAssumption, AccountsAssumption
  DEF WorkerPolls, TypeInv, SubjectInv, HandoffTypeOK, SharedTypeOK, ToolInv, shared, Goto,
      Leave, Inside, PcStates
<1>14. ASSUME NEW w \in Workers, WorkerClears(w) PROVE TypeInv'
  BY <1>0, <1>14, ProcsDiffer, HandoffAssumption, AccountsAssumption
  DEF WorkerClears, ClearMarker, TypeInv, SubjectInv, HandoffTypeOK, SharedTypeOK, ToolInv,
      shared, Goto, Leave, Inside, PcStates
<1>15. ASSUME NEW w \in Workers, WorkerDenies(w) PROVE TypeInv'
  <2>1. told' \in [Handoffs -> [ready : Nat, failed : BOOLEAN]]
    BY <1>15 DEF WorkerDenies, TypeInv, HandoffTypeOK
  <2>2. /\ w \in Procs /\ w # Tool /\ pc[w] = "deny"
        /\ pc' = [pc EXCEPT ![w] = "closing"]
        /\ UNCHANGED <<shared, binding, task, seen, botched, crashes>>
    BY <1>15, ProcsDiffer DEF WorkerDenies, Goto
  <2>3. HandoffTypeOK'
    <3>1. "closing" \in PcStates /\ lock' = lock /\ (Inside(w) <=> Inside(w)')
      BY <2>2, ProcsDiffer DEF PcStates, Inside, TypeInv, HandoffTypeOK, shared
    <3>2. pc' \in [Procs -> PcStates] /\ \A q \in Procs : Inside(q)' <=> lock' = q
      BY <2>2, <3>1, Moves DEF Goto
    <3> QED
      BY <1>0, <2>1, <2>2, <3>2 DEF TypeInv, HandoffTypeOK, SharedTypeOK, shared
  <2>4. SubjectInv'
    BY <1>0, <2>2, ProcsDiffer DEF TypeInv, SubjectInv, HandoffTypeOK
  <2>5. ToolInv'
    BY <2>2, ProcsDiffer DEF TypeInv, ToolInv, HandoffTypeOK
  <2> QED
    BY <2>3, <2>4, <2>5 DEF TypeInv
<1>16. ASSUME NEW w \in Workers, WorkerCloses(w) PROVE TypeInv'
  BY <1>0, <1>16, ProcsDiffer, HandoffAssumption, AccountsAssumption
  DEF WorkerCloses, ClearMarker, TypeInv, SubjectInv, HandoffTypeOK, SharedTypeOK, ToolInv,
      shared, Goto, Leave, Inside, PcStates
<1>17. ASSUME NEW w \in Workers, InstallSuperseded(w) PROVE TypeInv'
  BY <1>0, <1>17, ProcsDiffer, HandoffAssumption, AccountsAssumption
  DEF InstallSuperseded, TypeInv, SubjectInv, HandoffTypeOK, SharedTypeOK, ToolInv, shared,
      Goto, Leave, Inside, PcStates
<1>18. ASSUME NEW w \in Workers, InstallUnassigned(w) PROVE TypeInv'
  BY <1>0, <1>18, ProcsDiffer, HandoffAssumption, AccountsAssumption
  DEF InstallUnassigned, CancelHandoffs, TypeInv, SubjectInv, HandoffTypeOK, SharedTypeOK,
      ToolInv, shared, Goto, Leave, Inside, PcStates
<1>19. ASSUME NEW w \in Workers, InstallRejected(w) PROVE TypeInv'
  BY <1>0, <1>19, ProcsDiffer, HandoffAssumption, AccountsAssumption
  DEF InstallRejected, TypeInv, SubjectInv, HandoffTypeOK, SharedTypeOK, ToolInv, shared,
      Goto, Leave, Inside, PcStates
<1>20. ASSUME NEW w \in Workers, InstallBegins(w) PROVE TypeInv'
  BY <1>0, <1>20, ProcsDiffer, HandoffAssumption, AccountsAssumption
  DEF InstallBegins, TypeInv, SubjectInv, HandoffTypeOK, SharedTypeOK, ToolInv, shared, Goto,
      Leave, Inside, PcStates
<1>21. ASSUME NEW w \in Workers, WriteReceipt(w) PROVE TypeInv'
  <2>1. /\ pc[w] = "receipt" /\ w \in Procs /\ w # Tool
        /\ UNCHANGED <<store, active, scratch, binding, handoff, task, seen, told, botched, crashes>>
        /\ \/ Goto(w, "save") /\ lock' = lock
           \/ Leave(w, "clear")
    BY <1>21, ProcsDiffer DEF WriteReceipt
  <2>2. receipt' \in [Handoffs -> Starts \union {NoReceipt}]
    BY <1>21, ProcsDiffer DEF WriteReceipt, TypeInv, HandoffTypeOK, SharedTypeOK
  <2>3. HandoffTypeOK'
    BY <1>0, <2>1, <2>2, ProcsDiffer, HandoffAssumption, AccountsAssumption
    DEF TypeInv, HandoffTypeOK, SharedTypeOK, shared, Goto, Leave, Inside, PcStates
  <2>4. SubjectInv'
    BY <1>0, <2>1, ProcsDiffer DEF TypeInv, SubjectInv, HandoffTypeOK, Goto, Leave
  <2>5. ToolInv'
    BY <2>1, ProcsDiffer DEF TypeInv, ToolInv, HandoffTypeOK, Goto, Leave
  <2> QED
    BY <2>3, <2>4, <2>5 DEF TypeInv
<1>22. ASSUME NEW w \in Workers, SaveCredential(w) PROVE TypeInv'
  <2>1. /\ pc[w] = "save" /\ w \in Procs /\ w[1] \in Handoffs /\ w[2] \in Starts
        /\ UNCHANGED <<active, scratch, leaving, binding, handoff, task, seen, told, crashes>>
        /\ store' = store \/ store' = Upsert(store, Envelope(w))
        /\ \/ Goto(w, "promote") /\ lock' = lock /\ receipt' = receipt
           \/ Leave(w, "clear") /\ receipt' = [receipt EXCEPT ![w[1]] = NoReceipt]
        /\ \/ botched' = botched
           \/ botched' = [botched EXCEPT ![w[1]] = @ \union {"save"}]
    BY <1>22, ProcsDiffer DEF SaveCredential
  <2>2. Envelope(w) \in Account
    <3>1. handoff[w[1]] \in SignIns /\ handoff[w[1]].subject \in Subjects
      BY <2>1 DEF TypeInv, HandoffTypeOK, SubjectInv
    <3> QED
      BY <2>1, <3>1, AccountsAssumption DEF Envelope, Account, SignIns
  <2>3. store' \subseteq Account
    BY <2>1, <2>2 DEF Upsert, TypeInv, HandoffTypeOK, SharedTypeOK
  <2>4. botched' \in [Handoffs -> SUBSET {"save", "promote"}]
    BY <2>1 DEF TypeInv, HandoffTypeOK
  <2> QED
    BY <1>0, <2>1, <2>3, <2>4, ProcsDiffer
    DEF TypeInv, SubjectInv, HandoffTypeOK, SharedTypeOK, ToolInv, shared, Goto, Leave,
        Inside, PcStates
<1>23. ASSUME NEW w \in Workers, PromoteReceipt(w) PROVE TypeInv'
  <2>1. /\ pc[w] = "promote" /\ w \in Procs /\ w # Tool
        /\ UNCHANGED <<store, active, scratch, receipt, binding, handoff, task, seen, told, crashes>>
        /\ Leave(w, "ack") \/ Leave(w, "clear")
    BY <1>23, ProcsDiffer DEF PromoteReceipt
  <2>2. botched' \in [Handoffs -> SUBSET {"save", "promote"}]
    BY <1>23 DEF PromoteReceipt, TypeInv, HandoffTypeOK
  <2>3. HandoffTypeOK'
    <3>1. PICK where \in {"ack", "clear"} : Leave(w, where)
      BY <2>1
    <3>2. /\ where \in PcStates /\ Goto(w, where) /\ lock' = None
          /\ Inside(w) /\ ~Inside(w)'
      BY <2>1, <3>1, ProcsDiffer DEF PcStates, Inside, Leave, Goto, TypeInv, HandoffTypeOK
    <3>3. pc' \in [Procs -> PcStates] /\ \A q \in Procs : Inside(q)' <=> lock' = q
      BY <2>1, <3>2, Moves
    <3> QED
      BY <1>0, <2>1, <2>2, <3>3 DEF TypeInv, HandoffTypeOK, SharedTypeOK
  <2>4. SubjectInv'
    BY <1>0, <2>1, ProcsDiffer DEF TypeInv, SubjectInv, HandoffTypeOK, Goto, Leave
  <2>5. ToolInv'
    BY <2>1, ProcsDiffer DEF TypeInv, ToolInv, HandoffTypeOK, Goto, Leave
  <2> QED
    BY <2>3, <2>4, <2>5 DEF TypeInv
<1>24. ASSUME NEW h \in Handoffs, RecoverBegins(h) PROVE TypeInv'
  BY <1>0, <1>24, ProcsDiffer, HandoffAssumption, AccountsAssumption
  DEF RecoverBegins, TypeInv, SubjectInv, HandoffTypeOK, SharedTypeOK, ToolInv, shared, Goto,
      Leave, Inside, PcStates
<1>25. ASSUME NEW p \in Workers \union {Tool}, AckGivesUp(p) PROVE TypeInv'
  BY <1>0, <1>25, ProcsDiffer, HandoffAssumption, AccountsAssumption
  DEF AckGivesUp, Acknowledging, AfterAck, TypeInv, SubjectInv, HandoffTypeOK, SharedTypeOK,
      ToolInv, shared, Goto, Leave, Inside, PcStates
<1>26. ASSUME NEW p \in Workers \union {Tool}, AckOrphaned(p) PROVE TypeInv'
  <2>1. /\ pc[p] = "ack" /\ lock = None /\ p \in Procs /\ Goto(p, AfterAck(p))
        /\ AfterAck(p) \in {"idle", "closing"} /\ (p = Tool <=> AfterAck(p) = "idle")
        /\ UNCHANGED <<lock, binding, task, seen, told, botched, crashes>>
    BY <1>26, ProcsDiffer DEF AckOrphaned, Acknowledging, AfterAck
  <2>2. /\ receipt' \in [Handoffs -> Starts \union {NoReceipt}]
        /\ store' \subseteq store /\ active' \in {active, None} /\ scratch' \subseteq scratch
    BY <1>26 DEF AckOrphaned, WipeForAssignment, CancelHandoffs, TypeInv, HandoffTypeOK, SharedTypeOK
  <2>3. HandoffTypeOK'
    BY <1>0, <2>1, <2>2, ProcsDiffer, HandoffAssumption, AccountsAssumption
    DEF TypeInv, HandoffTypeOK, SharedTypeOK, shared, Goto, Leave, Inside, PcStates
  <2>4. SubjectInv'
    BY <1>0, <2>1, ProcsDiffer DEF TypeInv, SubjectInv, HandoffTypeOK, Goto, Leave
  <2>5. ToolInv'
    BY <2>1, ProcsDiffer DEF TypeInv, ToolInv, HandoffTypeOK, Goto, Leave
  <2> QED
    BY <2>3, <2>4, <2>5 DEF TypeInv
<1>27. ASSUME NEW p \in Workers \union {Tool}, AckUnassigned(p) PROVE TypeInv'
  <2>1. /\ pc[p] = "ack" /\ lock = None /\ p \in Procs /\ Goto(p, AfterAck(p))
        /\ AfterAck(p) \in {"idle", "closing"} /\ (p = Tool <=> AfterAck(p) = "idle")
        /\ UNCHANGED <<lock, binding, task, seen, told, botched, crashes>>
    BY <1>27, ProcsDiffer DEF AckUnassigned, Acknowledging, AfterAck
  <2>2. /\ receipt' \in [Handoffs -> Starts \union {NoReceipt}]
        /\ store' \subseteq store /\ active' \in {active, None} /\ scratch' \subseteq scratch
    BY <1>27 DEF AckUnassigned, WipeForAssignment, CancelHandoffs, TypeInv, HandoffTypeOK, SharedTypeOK
  <2>3. HandoffTypeOK'
    BY <1>0, <2>1, <2>2, ProcsDiffer, HandoffAssumption, AccountsAssumption
    DEF TypeInv, HandoffTypeOK, SharedTypeOK, shared, Goto, Leave, Inside, PcStates
  <2>4. SubjectInv'
    BY <1>0, <2>1, ProcsDiffer DEF TypeInv, SubjectInv, HandoffTypeOK, Goto, Leave
  <2>5. ToolInv'
    BY <2>1, ProcsDiffer DEF TypeInv, ToolInv, HandoffTypeOK, Goto, Leave
  <2> QED
    BY <2>3, <2>4, <2>5 DEF TypeInv
<1>28. ASSUME NEW p \in Workers \union {Tool}, AckBegins(p) PROVE TypeInv'
  BY <1>0, <1>28, ProcsDiffer, HandoffAssumption, AccountsAssumption
  DEF AckBegins, Acknowledging, TypeInv, SubjectInv, HandoffTypeOK, SharedTypeOK, ToolInv,
      shared, Goto, Leave, Inside, PcStates
<1>29. ASSUME NEW p \in Workers \union {Tool}, ClaimAccepted(p) PROVE TypeInv'
  BY <1>0, <1>29, ProcsDiffer, HandoffAssumption, AccountsAssumption
  DEF ClaimAccepted, On, TypeInv, SubjectInv, HandoffTypeOK, SharedTypeOK, ToolInv, shared,
      Goto, Leave, Inside, PcStates
<1>30. ASSUME NEW p \in Workers \union {Tool}, ClaimUnanswered(p) PROVE TypeInv'
  BY <1>0, <1>30, ProcsDiffer, HandoffAssumption, AccountsAssumption
  DEF ClaimUnanswered, AfterAck, On, TypeInv, SubjectInv, HandoffTypeOK, SharedTypeOK,
      ToolInv, shared, Goto, Leave, Inside, PcStates
<1>31. ASSUME NEW p \in Workers \union {Tool}, RetireReceipt(p) PROVE TypeInv'
  BY <1>0, <1>31, ProcsDiffer, HandoffAssumption, AccountsAssumption
  DEF RetireReceipt, On, ClearMarker, TypeInv, SubjectInv, HandoffTypeOK, SharedTypeOK,
      ToolInv, shared, Goto, Leave, Inside, PcStates
<1>32. ASSUME NEW p \in Workers \union {Tool}, ReadyNotice(p) PROVE TypeInv'
  BY <1>0, <1>32, ProcsDiffer, HandoffAssumption, AccountsAssumption
  DEF ReadyNotice, AfterAck, On, TypeInv, SubjectInv, HandoffTypeOK, SharedTypeOK, ToolInv,
      shared, Goto, Leave, Inside, PcStates
<1>33. ASSUME HookReads PROVE TypeInv'
  BY <1>0, <1>33, ProcsDiffer, HandoffAssumption, AccountsAssumption
  DEF HookReads, TypeInv, SubjectInv, HandoffTypeOK, SharedTypeOK, ToolInv, shared, Goto,
      Leave, Inside, PcStates
<1>34. ASSUME HookWipes PROVE TypeInv'
  BY <1>0, <1>34, ProcsDiffer, HandoffAssumption, AccountsAssumption
  DEF HookWipes, WipeForAssignment, CancelHandoffs, TypeInv, SubjectInv, HandoffTypeOK,
      SharedTypeOK, ToolInv, shared, Goto, Leave, Inside, PcStates
<1>35. ASSUME NEW p \in Procs, Crash(p) PROVE TypeInv'
  BY <1>0, <1>35, ProcsDiffer, HandoffAssumption, AccountsAssumption
  DEF Crash, TypeInv, SubjectInv, HandoffTypeOK, SharedTypeOK, ToolInv, shared, Goto, Leave,
      Inside, PcStates
<1>36. ASSUME NEW p \in Procs, WipeCutShort(p) PROVE TypeInv'
  BY <1>0, <1>36, ProcsDiffer, HandoffAssumption, AccountsAssumption
  DEF WipeCutShort, TypeInv, SubjectInv, HandoffTypeOK, SharedTypeOK, ToolInv, shared, Goto,
      Leave, Inside, PcStates
<1>37. ASSUME StartCutShort PROVE TypeInv'
  BY <1>0, <1>37, ProcsDiffer, HandoffAssumption, AccountsAssumption
  DEF StartCutShort, TypeInv, SubjectInv, HandoffTypeOK, SharedTypeOK, ToolInv, shared, Goto,
      Leave, Inside, PcStates
<1> QED
  BY <1>1, <1>2, <1>3, <1>4, <1>5, <1>6, <1>7, <1>8, <1>9, <1>10, <1>11, <1>12, <1>13, <1>14,
     <1>15, <1>16, <1>17, <1>18, <1>19, <1>20, <1>21, <1>22, <1>23, <1>24, <1>25, <1>26,
     <1>27, <1>28, <1>29, <1>30, <1>31, <1>32, <1>33, <1>34, <1>35, <1>36, <1>37
  DEF HandoffNext, Connects, Polls, Installs, Acknowledges, Environment

\* The processes that acknowledge, and that the lock excludes from each other.
Acks == Workers \union {Tool}

\* Where a worker stands that has not saved its credential.
Unwritten == {"off", "starting", "loop", "asking", "install", "receipt"}
Unsaved == Unwritten \union {"save"}

Opened(h) == handoff[h].status \notin {"unused", "pending"}

\* A sign-in begins with no worker and with no install to acknowledge.
StartInv ==
  /\ \A w \in Workers : handoff[w[1]].status = "unused" => pc[w] = "off"
  /\ pc[Tool] = "posting" => handoff[task.on].status = "unused"
  /\ pc[Tool] = "starting" => handoff[task.on].status # "unused"
  /\ pc[Tool] \in {"posting", "starting"} =>
       /\ \A w \in Workers : w[1] = task.on => pc[w] = "off"
       /\ \A h \in Handoffs : receipt[h] = NoReceipt

\* A worker that installs has the marker, nobody writes before the receipt, and a
\* receipt is of a worker that wrote one.
InstallInv ==
  /\ \A w \in Workers : pc[w] \in {"receipt", "save", "promote"} => active = w[1]
  /\ \A w \in Workers : pc[w] \in {"save", "promote"} => receipt[w[1]] = w[2]
  /\ \A w \in Workers : pc[w] \in {"install", "receipt", "save"} => Opened(w[1])
  /\ \A w \in Workers : receipt[w[1]] = w[2] => pc[w] \notin Unwritten
  /\ NoSignInDuringSync

\* An account is what its sign-in's envelope held, under the id it was meant
\* for, and the platform knows it or is owed it.
FromEnvelope(a) ==
  /\ Opened(a.from)
  /\ a.id = handoff[a.from].target
  /\ a.subject = handoff[a.from].subject
  /\ a.binding = handoff[a.from].binding

StoreInv ==
  /\ \A a \in store : FromEnvelope(a) /\ pc[<<a.from, a.by>>] \notin Unsaved
  /\ SavedIsOwed

\* What is being claimed is saved, and what is being retired was claimed.
AckInv ==
  \A p \in Acks :
    /\ pc[p] = "claim" => \E a \in store : a.from = On(p)
    /\ pc[p] = "retire" => handoff[On(p)].status = "claimed"
    /\ pc[p] \in {"claim", "retire"} => receipt[On(p)] # NoReceipt

SafeInv == TypeInv /\ StartInv /\ InstallInv /\ StoreInv /\ AckInv

\* The invariant holds initially.
LEMMA SafeInit == HandoffInit => SafeInv
<1> SUFFICES ASSUME HandoffInit PROVE SafeInv
  OBVIOUS
<1>1. /\ store = {} /\ receipt = [h \in Handoffs |-> NoReceipt]
      /\ pc = [p \in Procs |-> IF p \in Workers THEN "off" ELSE "idle"]
  BY DEF HandoffInit, InitWith, SharedInit
<1>2. (\A w \in Workers : pc[w] = "off") /\ \A h \in Handoffs : receipt[h] = NoReceipt
  BY <1>1, ProcsDiffer
<1>3. pc[Tool] = "idle"
  BY <1>1, ProcsDiffer
<1> QED
  BY <1>1, <1>2, <1>3, TypeInit, ProcsDiffer
     DEF SafeInv, StartInv, InstallInv, StoreInv, AckInv, NoSignInDuringSync, SavedIsOwed,
         Acks

\* The tool call or a worker that acknowledges works on a sign-in.
LEMMA OnHandoff ==
  ASSUME TypeInv, NEW p \in Acks, pc[p] # "idle"
  PROVE  On(p) \in Handoffs /\ p \in Procs
BY ProcsDiffer DEF TypeInv, ToolInv, On, Acks

\* The accounts that match a receipt are those its worker installed.
LEMMA MatchingFrom ==
  ASSUME TypeInv, StoreInv, NEW h \in Handoffs
  PROVE  Matching(h) = {a \in store : a.from = h /\ a.by = receipt[h]}
<1> DEFINE e == Envelope(<<h, receipt[h]>>)
<1>0. e = [id |-> handoff[h].target, subject |-> handoff[h].subject, from |-> h,
           by |-> receipt[h], binding |-> handoff[h].binding, token |-> 0]
  BY DEF Envelope
<1>1. ASSUME NEW a \in store, a \in Matching(h) PROVE a.from = h /\ a.by = receipt[h]
  <2>1. [a EXCEPT !.token = 0] = [e EXCEPT !.token = 0]
    BY <1>1 DEF Matching, InstallGeneration
  <2>2. a \in Account
    BY DEF TypeInv, HandoffTypeOK, SharedTypeOK
  <2>3. [a EXCEPT !.token = 0].from = a.from /\ [a EXCEPT !.token = 0].by = a.by
    BY <2>2 DEF Account
  <2>4. [e EXCEPT !.token = 0].from = h /\ [e EXCEPT !.token = 0].by = receipt[h]
    BY <1>0
  <2> QED
    BY <2>1, <2>3, <2>4
<1>2. ASSUME NEW a \in store, a.from = h, a.by = receipt[h] PROVE a \in Matching(h)
  <2>1. a \in Account
    BY DEF TypeInv, HandoffTypeOK, SharedTypeOK
  <2>2. /\ a.id = handoff[h].target /\ a.subject = handoff[h].subject
        /\ a.binding = handoff[h].binding
    BY <1>2 DEF StoreInv, FromEnvelope
  <2>3. [a EXCEPT !.token = 0] = [id |-> a.id, subject |-> a.subject, from |-> h,
                                  by |-> receipt[h], binding |-> a.binding, token |-> 0]
    BY <1>2, <2>1 DEF Account
  <2>4. [e EXCEPT !.token = 0] = [id |-> handoff[h].target,
          subject |-> handoff[h].subject, from |-> h, by |-> receipt[h],
          binding |-> handoff[h].binding, token |-> 0]
    BY <1>0
  <2> QED
    BY <1>2, <2>2, <2>3, <2>4 DEF Matching, InstallGeneration
<1> QED
  BY <1>1, <1>2 DEF Matching

\* The request leaves a pending record.
LEMMA PostsPending ==
  ASSUME TypeInv, ConnectPosts
  PROVE  handoff'[task.on].status = "pending"
<1>1. task.on \in Handoffs
  BY ProcsDiffer DEF ConnectPosts, TypeInv, ToolInv
<1>2. handoff[task.on] \in SignIns /\ handoff \in [Handoffs -> SignIns]
  BY <1>1 DEF TypeInv, HandoffTypeOK
<1>3. handoff'[task.on] = [handoff[task.on] EXCEPT !.status = "pending", !.target = task.target,
                                                   !.binding = binding]
  BY <1>1, <1>2 DEF ConnectPosts
<1> QED
  BY <1>2, <1>3 DEF SignIns

\* An accepted claim leaves a claimed record.
LEMMA ClaimsAccepted ==
  ASSUME TypeInv, NEW p \in Acks, ClaimAccepted(p), On(p) \in Handoffs
  PROVE  handoff'[On(p)].status = "claimed"
<1>1. handoff[On(p)] \in SignIns /\ handoff \in [Handoffs -> SignIns]
  BY DEF TypeInv, HandoffTypeOK
<1>2. handoff'[On(p)] = [handoff[On(p)] EXCEPT !.status = "claimed"]
  BY <1>1 DEF ClaimAccepted
<1> QED
  BY <1>1, <1>2 DEF SignIns

\* What a step keeps of the records: an opened sign-in stays as it is but for
\* its end, and only the tool's request opens an unused one.
LEMMA OpenedStays ==
  ASSUME TypeInv, StartInv, [HandoffNext]_allVars
  PROVE  \A h \in Handoffs :
           /\ Opened(h) =>
                /\ Opened(h)'
                /\ handoff'[h].target = handoff[h].target
                /\ handoff'[h].binding = handoff[h].binding
                /\ handoff'[h].subject = handoff[h].subject
           /\ handoff[h].status = "claimed" => handoff'[h].status = "claimed"
           /\ handoff'[h].status = "unused" => handoff[h].status = "unused"
           /\ handoff[h].status = "unused" => handoff'[h].status = "unused" \/ Opens(h)
BY RecordStep DEF Records, RecordMoves, Opens, Opened, StartInv

\* StartInv is kept.
LEMMA StartStep == SafeInv /\ [HandoffNext]_allVars => StartInv'
<1> SUFFICES ASSUME SafeInv, [HandoffNext]_allVars PROVE StartInv'
  OBVIOUS
<1>0. /\ pc \in [Procs -> PcStates] /\ \A p \in Procs : Inside(p) <=> lock = p
      /\ receipt \in [Handoffs -> Starts \union {NoReceipt}]
      /\ TypeInv /\ TypeInv'
  BY TypeStep DEF SafeInv, TypeInv, HandoffTypeOK, SharedTypeOK
<1>1. CASE Connects
  <2>1. ASSUME NEW h \in Handoffs, NEW target \in Handoffs, ConnectBegin(h, target) PROVE StartInv'
    BY <1>0, <2>1, ProcsDiffer, OpenedStays
    DEF ConnectBegin, SafeInv, StartInv, Opens, Goto, Leave, shared, Inside,
        Acks
  <2>2. ASSUME NEW target \in Handoffs \union {None}, ConnectFindsStale(target) PROVE StartInv'
    BY <1>0, <2>2, ProcsDiffer, OpenedStays
    DEF ConnectFindsStale, WipeForAssignment, CancelHandoffs, hvars, SafeInv, StartInv,
        Opens, Goto, Leave, shared, Inside, Acks
  <2>3. CASE ConnectPosts
    <3>1. /\ pc[Tool] = "posting" /\ task' = task /\ receipt' = receipt
          /\ \E w \in {"starting", "idle"} : pc' = [pc EXCEPT ![Tool] = w]
      BY <2>3 DEF ConnectPosts, Goto, Leave
    <3>2. handoff'[task.on].status = "pending"
      BY <1>0, <2>3, PostsPending DEF ConnectPosts
    <3> QED
      BY <1>0, <3>1, <3>2, OpenedStays, ProcsDiffer DEF SafeInv, StartInv, Opens
  <2>4. CASE ConnectStarts
    BY <1>0, <2>4, ProcsDiffer, OpenedStays
    DEF ConnectStarts, SafeInv, StartInv, Opens, Goto, Leave, shared, Inside,
        Acks
  <2>5. CASE ConnectCannotSpawn
    BY <1>0, <2>5, ProcsDiffer, OpenedStays
    DEF ConnectCannotSpawn, SafeInv, StartInv, Opens, Goto, Leave, shared, Inside, Acks
  <2>6. CASE ConnectEnds
    BY <1>0, <2>6, ProcsDiffer, OpenedStays
    DEF ConnectEnds, SafeInv, StartInv, Opens, Goto, Leave, shared, Inside,
        Acks
  <2> QED
    BY <1>1, <2>1, <2>2, <2>3, <2>4, <2>5, <2>6 DEF Connects
<1>2. ASSUME NEW w \in Workers, Polls(w) PROVE StartInv'
  <2>1. CASE WorkerReadsKey(w)
    BY <1>0, <2>1, ProcsDiffer, OpenedStays
    DEF WorkerReadsKey, SafeInv, StartInv, Opens, Goto, Leave, shared, Inside,
        Acks
  <2>2. CASE WorkerChecksMarker(w)
    BY <1>0, <2>2, ProcsDiffer, OpenedStays
    DEF WorkerChecksMarker, SafeInv, StartInv, Opens, Goto, Leave, shared, Inside, Acks
  <2>3. CASE WorkerPolls(w)
    <3>1. PICK where \in PcStates : pc[w] = "asking" /\ pc' = [pc EXCEPT ![w] = where]
      BY <2>3 DEF WorkerPolls, Goto, PcStates
    <3>2. task' = task /\ receipt' = receipt /\ handoff' = handoff
      BY <2>3 DEF WorkerPolls, shared
    <3> QED
      BY <1>0, <3>1, <3>2, ProcsDiffer DEF SafeInv, StartInv
  <2>4. CASE WorkerClears(w)
    BY <1>0, <2>4, ProcsDiffer, OpenedStays
    DEF WorkerClears, ClearMarker, SafeInv, StartInv, Opens, Goto, Leave, shared,
        Inside, Acks
  <2>5. CASE WorkerDenies(w)
    <3>1. /\ pc[w] = "deny" /\ pc' = [pc EXCEPT ![w] = "closing"]
          /\ task' = task /\ receipt' = receipt
      BY <2>5 DEF WorkerDenies, Goto, shared
    <3> QED
      BY <1>0, <3>1, OpenedStays, ProcsDiffer DEF SafeInv, StartInv, Opens, TypeInv, ToolInv
  <2>6. CASE WorkerCloses(w)
    BY <1>0, <2>6, ProcsDiffer, OpenedStays
    DEF WorkerCloses, ClearMarker, SafeInv, StartInv, Opens, Goto, Leave, shared,
        Inside, Acks
  <2> QED
    BY <1>2, <2>1, <2>2, <2>3, <2>4, <2>5, <2>6 DEF Polls
<1>3. ASSUME NEW w \in Workers, Installs(w) PROVE StartInv'
  BY <1>0, <1>3, ProcsDiffer, OpenedStays
  DEF Installs, InstallSuperseded, InstallUnassigned, CancelHandoffs, InstallRejected,
      InstallBegins, WriteReceipt, SaveCredential, PromoteReceipt, SafeInv, StartInv,
      Opens, Goto, Leave, shared, Inside, Acks
<1>4. ASSUME NEW h \in Handoffs, RecoverBegins(h) PROVE StartInv'
  BY <1>0, <1>4, ProcsDiffer, OpenedStays
  DEF RecoverBegins, SafeInv, StartInv, Opens, Goto, Leave, shared, Inside,
      Acks
<1>5. ASSUME NEW p \in Acks, Acknowledges(p) PROVE StartInv'
  <2>1. CASE AckGivesUp(p)
    BY <1>0, <2>1, ProcsDiffer, OpenedStays
    DEF AckGivesUp, Acknowledging, AfterAck, SafeInv, StartInv, Opens, Goto, Leave,
        shared, Inside, Acks
  <2>2. CASE AckOrphaned(p)
    BY <1>0, <2>2, ProcsDiffer, OpenedStays
    DEF AckOrphaned, Acknowledging, AfterAck, SafeInv, StartInv, Opens, Goto, Leave,
        shared, Inside, Acks
  <2>3. CASE AckUnassigned(p)
    BY <1>0, <2>3, ProcsDiffer, OpenedStays
    DEF AckUnassigned, Acknowledging, AfterAck, WipeForAssignment, CancelHandoffs,
        SafeInv, StartInv, Opens, Goto, Leave, shared, Inside, Acks
  <2>4. CASE AckBegins(p)
    BY <1>0, <2>4, ProcsDiffer, OpenedStays
    DEF AckBegins, Acknowledging, SafeInv, StartInv, Opens, Goto, Leave, shared, Inside, Acks
  <2>5. CASE ClaimAccepted(p)
    BY <1>0, <2>5, ProcsDiffer, OpenedStays
    DEF ClaimAccepted, SafeInv, StartInv, Opens, Goto, Leave, shared, Inside,
        Acks
  <2>6. CASE ClaimUnanswered(p)
    BY <1>0, <2>6, ProcsDiffer, OpenedStays
    DEF ClaimUnanswered, AfterAck, SafeInv, StartInv, Opens, Goto, Leave, shared,
        Inside, Acks
  <2>7. CASE RetireReceipt(p)
    BY <1>0, <2>7, ProcsDiffer, OpenedStays
    DEF RetireReceipt, ClearMarker, SafeInv, StartInv, Opens, Goto, Leave, shared,
        Inside, Acks
  <2>8. CASE ReadyNotice(p)
    BY <1>0, <2>8, ProcsDiffer, OpenedStays
    DEF ReadyNotice, AfterAck, SafeInv, StartInv, Opens, Goto, Leave, shared, Inside, Acks
  <2> QED
    BY <1>5, <2>1, <2>2, <2>3, <2>4, <2>5, <2>6, <2>7, <2>8 DEF Acknowledges
<1>6. CASE HookReads \/ HookWipes
  <2>1. CASE HookReads
    BY <1>0, <2>1, ProcsDiffer, OpenedStays
    DEF HookReads, SafeInv, StartInv, Opens, Goto, Leave, shared, Inside, Acks
  <2>2. CASE HookWipes
    BY <1>0, <2>2, ProcsDiffer, OpenedStays
    DEF HookWipes, WipeForAssignment, CancelHandoffs, SafeInv, StartInv, Opens, Goto,
        Leave, shared, Inside, Acks
  <2> QED
    BY <1>6, <2>1, <2>2
<1>7. CASE Environment \/ UNCHANGED allVars
  <2>0. ASSUME pc' = pc, task' = task, receipt' = receipt PROVE StartInv'
    <3>1. \A h \in Handoffs : handoff'[h].status = "unused" <=> handoff[h].status = "unused"
      BY <2>0, OpenedStays DEF Opens, SafeInv
    <3>2. pc[Tool] \in {"posting", "starting"} => task.on \in Handoffs
      BY <1>0 DEF TypeInv, ToolInv
    <3> QED
      BY <2>0, <3>1, <3>2, ProcsDiffer DEF SafeInv, StartInv
  <2>1. ASSUME NEW h \in Handoffs, NEW s \in Subjects, SignIn(h, s) PROVE StartInv'
    BY <2>0, <2>1 DEF SignIn, shared
  <2>2. ASSUME NEW h \in Handoffs, PlatformEnds(h) PROVE StartInv'
    BY <2>0, <2>2 DEF PlatformEnds, shared
  <2>3. CASE Reassign
    BY <1>0, <2>3, ProcsDiffer, OpenedStays
    DEF Reassign, hvars, SafeInv, StartInv, Opens, Goto, Leave, shared, Inside,
        Acks
  <2>4. ASSUME NEW p \in Procs, Crash(p) PROVE StartInv'
    BY <1>0, <2>4, ProcsDiffer, OpenedStays
    DEF Crash, SafeInv, StartInv, Opens, Goto, Leave, shared, Inside, Acks
  <2>5. ASSUME NEW p \in Procs, WipeCutShort(p) PROVE StartInv'
    BY <1>0, <2>5, ProcsDiffer, OpenedStays
    DEF WipeCutShort, SafeInv, StartInv, Opens, Goto, Leave, shared, Inside,
        Acks
  <2>6. CASE StartCutShort
    BY <1>0, <2>6, ProcsDiffer, OpenedStays
    DEF StartCutShort, SafeInv, StartInv, Opens, Goto, Leave, shared, Inside,
        Acks
  <2>7. CASE UNCHANGED allVars
    BY <1>0, <2>7, ProcsDiffer, OpenedStays
    DEF allVars, hvars, SafeInv, StartInv, Opens, Goto, Leave, shared, Inside,
        Acks
  <2> QED
    BY <1>7, <2>1, <2>2, <2>3, <2>4, <2>5, <2>6, <2>7 DEF Environment
<1> QED
  BY <1>1, <1>2, <1>3, <1>4, <1>5, <1>6, <1>7 DEF HandoffNext, Acks

\* InstallInv is kept.
LEMMA InstallStep == SafeInv /\ [HandoffNext]_allVars => InstallInv'
<1> SUFFICES ASSUME SafeInv, [HandoffNext]_allVars PROVE InstallInv'
  OBVIOUS
<1>0. /\ pc \in [Procs -> PcStates] /\ \A p \in Procs : Inside(p) <=> lock = p
      /\ receipt \in [Handoffs -> Starts \union {NoReceipt}]
      /\ TypeInv /\ TypeInv'
  BY TypeStep DEF SafeInv, TypeInv, HandoffTypeOK, SharedTypeOK
<1>1. CASE Connects
  <2>1. ASSUME NEW h \in Handoffs, NEW target \in Handoffs, ConnectBegin(h, target)
        PROVE  InstallInv'
    BY <1>0, <2>1, ProcsDiffer, OpenedStays
    DEF ConnectBegin, SafeInv, StartInv, InstallInv, NoSignInDuringSync, Unwritten,
        Goto, Leave, shared, Inside, Acks
  <2>2. ASSUME NEW target \in Handoffs \union {None}, ConnectFindsStale(target) PROVE InstallInv'
    BY <1>0, <2>2, ProcsDiffer, OpenedStays
    DEF ConnectFindsStale, WipeForAssignment, CancelHandoffs, hvars, SafeInv, StartInv,
        InstallInv, NoSignInDuringSync, Unwritten, Goto, Leave, shared, Inside,
        Acks
  <2>3. CASE ConnectPosts
    BY <1>0, <2>3, ProcsDiffer, OpenedStays
    DEF ConnectPosts, SafeInv, StartInv, InstallInv, NoSignInDuringSync, Unwritten,
        Goto, Leave, shared, Inside, Acks
  <2>4. CASE ConnectStarts
    BY <1>0, <2>4, ProcsDiffer, OpenedStays
    DEF ConnectStarts, SafeInv, StartInv, InstallInv, NoSignInDuringSync, Unwritten,
        Goto, Leave, shared, Inside, Acks
  <2>5. CASE ConnectCannotSpawn
    BY <1>0, <2>5, ProcsDiffer, OpenedStays
    DEF ConnectCannotSpawn, SafeInv, StartInv, InstallInv, NoSignInDuringSync,
        Unwritten, Goto, Leave, shared, Inside, Acks
  <2>6. CASE ConnectEnds
    BY <1>0, <2>6, ProcsDiffer, OpenedStays
    DEF ConnectEnds, SafeInv, StartInv, InstallInv, NoSignInDuringSync, Unwritten, Goto,
        Leave, shared, Inside, Acks
  <2> QED
    BY <1>1, <2>1, <2>2, <2>3, <2>4, <2>5, <2>6 DEF Connects
<1>2. ASSUME NEW w \in Workers, Polls(w) PROVE InstallInv'
  <2>1. CASE WorkerReadsKey(w)
    BY <1>0, <2>1, ProcsDiffer, OpenedStays
    DEF WorkerReadsKey, SafeInv, StartInv, InstallInv, NoSignInDuringSync, Unwritten,
        Goto, Leave, shared, Inside, Acks
  <2>2. CASE WorkerChecksMarker(w)
    BY <1>0, <2>2, ProcsDiffer, OpenedStays
    DEF WorkerChecksMarker, SafeInv, StartInv, InstallInv, NoSignInDuringSync,
        Unwritten, Goto, Leave, shared, Inside, Acks
  <2>3. CASE WorkerPolls(w)
    <3>1. PICK where \in {"install", "loop", "closing", "clear"} :
             /\ pc[w] = "asking" /\ pc' = [pc EXCEPT ![w] = where]
             /\ where = "install" => handoff[w[1]].status = "ready"
      BY <2>3 DEF WorkerPolls, Goto
    <3>2. receipt' = receipt /\ handoff' = handoff /\ active' = active
      BY <2>3 DEF WorkerPolls, shared
    <3>3. receipt[w[1]] # w[2] /\ w \in Procs
      BY <1>0, <3>1, ProcsDiffer DEF SafeInv, InstallInv, Unwritten
    <3>4. /\ pc'[w] = where /\ \A v \in Workers : v # w => pc'[v] = pc[v]
      BY <1>0, <3>1, <3>3, ProcsDiffer
    <3>5. NoSignInDuringSync'
      BY <3>2 DEF SafeInv, InstallInv, NoSignInDuringSync
    <3>6. \A g \in Handoffs : Opened(g)' <=> Opened(g)
      BY <3>2 DEF Opened
    <3>7. pc'[w] = "install" => Opened(w[1])
      BY <3>1, <3>4 DEF Opened
    <3> QED
      BY <3>1, <3>2, <3>3, <3>4, <3>5, <3>6, <3>7, ProcsDiffer DEF SafeInv, InstallInv, Unwritten
  <2>4. CASE WorkerClears(w)
    BY <1>0, <2>4, ProcsDiffer, OpenedStays
    DEF WorkerClears, ClearMarker, SafeInv, StartInv, InstallInv, NoSignInDuringSync,
        Unwritten, Goto, Leave, shared, Inside, Acks
  <2>5. CASE WorkerDenies(w)
    BY <1>0, <2>5, ProcsDiffer, OpenedStays
    DEF WorkerDenies, SafeInv, StartInv, InstallInv, NoSignInDuringSync, Unwritten,
        Goto, Leave, shared, Inside, Acks
  <2>6. CASE WorkerCloses(w)
    BY <1>0, <2>6, ProcsDiffer, OpenedStays
    DEF WorkerCloses, ClearMarker, SafeInv, StartInv, InstallInv, NoSignInDuringSync,
        Unwritten, Goto, Leave, shared, Inside, Acks
  <2> QED
    BY <1>2, <2>1, <2>2, <2>3, <2>4, <2>5, <2>6 DEF Polls
<1>3. ASSUME NEW w \in Workers, Installs(w) PROVE InstallInv'
  <2>1. CASE InstallSuperseded(w)
    BY <1>0, <2>1, ProcsDiffer, OpenedStays
    DEF InstallSuperseded, SafeInv, StartInv, InstallInv, NoSignInDuringSync, Unwritten,
        Goto, Leave, shared, Inside, Acks
  <2>2. CASE InstallUnassigned(w)
    BY <1>0, <2>2, ProcsDiffer, OpenedStays
    DEF InstallUnassigned, CancelHandoffs, SafeInv, StartInv, InstallInv,
        NoSignInDuringSync, Unwritten, Goto, Leave, shared, Inside, Acks
  <2>3. CASE InstallRejected(w)
    BY <1>0, <2>3, ProcsDiffer, OpenedStays
    DEF InstallRejected, SafeInv, StartInv, InstallInv, NoSignInDuringSync, Unwritten,
        Goto, Leave, shared, Inside, Acks
  <2>4. CASE InstallBegins(w)
    BY <1>0, <2>4, ProcsDiffer, OpenedStays
    DEF InstallBegins, SafeInv, StartInv, InstallInv, NoSignInDuringSync, Unwritten,
        Goto, Leave, shared, Inside, Acks
  <2>5. CASE WriteReceipt(w)
    BY <1>0, <2>5, ProcsDiffer, OpenedStays
    DEF WriteReceipt, SafeInv, StartInv, InstallInv, NoSignInDuringSync, Unwritten,
        Goto, Leave, shared, Inside, Acks
  <2>6. CASE SaveCredential(w)
    BY <1>0, <2>6, ProcsDiffer, OpenedStays
    DEF SaveCredential, SafeInv, StartInv, InstallInv, NoSignInDuringSync, Unwritten,
        Goto, Leave, shared, Inside, Acks
  <2>7. CASE PromoteReceipt(w)
    BY <1>0, <2>7, ProcsDiffer, OpenedStays
    DEF PromoteReceipt, SafeInv, StartInv, InstallInv, NoSignInDuringSync, Unwritten,
        Goto, Leave, shared, Inside, Acks
  <2> QED
    BY <1>3, <2>1, <2>2, <2>3, <2>4, <2>5, <2>6, <2>7 DEF Installs
<1>4. ASSUME NEW h \in Handoffs, RecoverBegins(h) PROVE InstallInv'
  BY <1>0, <1>4, ProcsDiffer, OpenedStays
  DEF RecoverBegins, SafeInv, StartInv, InstallInv, NoSignInDuringSync, Unwritten, Goto,
      Leave, shared, Inside, Acks
<1>5. ASSUME NEW p \in Acks, Acknowledges(p) PROVE InstallInv'
  <2>1. CASE AckGivesUp(p)
    BY <1>0, <2>1, ProcsDiffer, OpenedStays
    DEF AckGivesUp, Acknowledging, AfterAck, SafeInv, StartInv, InstallInv,
        NoSignInDuringSync, Unwritten, Goto, Leave, shared, Inside, Acks
  <2>2. CASE AckOrphaned(p)
    BY <1>0, <2>2, ProcsDiffer, OpenedStays
    DEF AckOrphaned, Acknowledging, AfterAck, SafeInv, StartInv, InstallInv,
        NoSignInDuringSync, Unwritten, Goto, Leave, shared, Inside, Acks
  <2>3. CASE AckUnassigned(p)
    BY <1>0, <2>3, ProcsDiffer, OpenedStays
    DEF AckUnassigned, Acknowledging, AfterAck, WipeForAssignment, CancelHandoffs,
        SafeInv, StartInv, InstallInv, NoSignInDuringSync, Unwritten, Goto, Leave,
        shared, Inside, Acks
  <2>4. CASE AckBegins(p)
    BY <1>0, <2>4, ProcsDiffer, OpenedStays
    DEF AckBegins, Acknowledging, SafeInv, StartInv, InstallInv, NoSignInDuringSync,
        Unwritten, Goto, Leave, shared, Inside, Acks
  <2>5. CASE ClaimAccepted(p)
    BY <1>0, <2>5, ProcsDiffer, OpenedStays
    DEF ClaimAccepted, SafeInv, StartInv, InstallInv, NoSignInDuringSync, Unwritten,
        Goto, Leave, shared, Inside, Acks
  <2>6. CASE ClaimUnanswered(p)
    BY <1>0, <2>6, ProcsDiffer, OpenedStays
    DEF ClaimUnanswered, AfterAck, SafeInv, StartInv, InstallInv, NoSignInDuringSync,
        Unwritten, Goto, Leave, shared, Inside, Acks
  <2>7. CASE RetireReceipt(p)
    BY <1>0, <2>7, ProcsDiffer, OpenedStays
    DEF RetireReceipt, ClearMarker, SafeInv, StartInv, InstallInv, NoSignInDuringSync,
        Unwritten, Goto, Leave, shared, Inside, Acks
  <2>8. CASE ReadyNotice(p)
    BY <1>0, <2>8, ProcsDiffer, OpenedStays
    DEF ReadyNotice, AfterAck, SafeInv, StartInv, InstallInv, NoSignInDuringSync,
        Unwritten, Goto, Leave, shared, Inside, Acks
  <2> QED
    BY <1>5, <2>1, <2>2, <2>3, <2>4, <2>5, <2>6, <2>7, <2>8 DEF Acknowledges
<1>6. CASE HookReads \/ HookWipes
  BY <1>0, <1>6, ProcsDiffer, OpenedStays
  DEF HookReads, HookWipes, WipeForAssignment, CancelHandoffs, SafeInv, StartInv,
      InstallInv, NoSignInDuringSync, Unwritten, Goto, Leave, shared, Inside,
      Acks
<1>7. CASE Environment \/ UNCHANGED allVars
  <2>1. ASSUME NEW h \in Handoffs, NEW s \in Subjects, SignIn(h, s) PROVE InstallInv'
    BY <1>0, <2>1, ProcsDiffer, OpenedStays
    DEF SignIn, SafeInv, StartInv, InstallInv, NoSignInDuringSync, Unwritten, Goto,
        Leave, shared, Inside, Acks
  <2>2. ASSUME NEW h \in Handoffs, PlatformEnds(h) PROVE InstallInv'
    BY <1>0, <2>2, ProcsDiffer, OpenedStays
    DEF PlatformEnds, SafeInv, StartInv, InstallInv, NoSignInDuringSync, Unwritten,
        Goto, Leave, shared, Inside, Acks
  <2>3. CASE Reassign
    BY <1>0, <2>3, ProcsDiffer, OpenedStays
    DEF Reassign, hvars, SafeInv, StartInv, InstallInv, NoSignInDuringSync, Unwritten,
        Goto, Leave, shared, Inside, Acks
  <2>4. ASSUME NEW p \in Procs, Crash(p) PROVE InstallInv'
    BY <1>0, <2>4, ProcsDiffer, OpenedStays
    DEF Crash, SafeInv, StartInv, InstallInv, NoSignInDuringSync, Unwritten, Goto,
        Leave, shared, Inside, Acks
  <2>5. ASSUME NEW p \in Procs, WipeCutShort(p) PROVE InstallInv'
    BY <1>0, <2>5, ProcsDiffer, OpenedStays
    DEF WipeCutShort, SafeInv, StartInv, InstallInv, NoSignInDuringSync, Unwritten,
        Goto, Leave, shared, Inside, Acks
  <2>6. CASE StartCutShort
    BY <1>0, <2>6, ProcsDiffer, OpenedStays
    DEF StartCutShort, SafeInv, StartInv, InstallInv, NoSignInDuringSync, Unwritten,
        Goto, Leave, shared, Inside, Acks
  <2>7. CASE UNCHANGED allVars
    BY <1>0, <2>7, ProcsDiffer, OpenedStays
    DEF allVars, hvars, SafeInv, StartInv, InstallInv, NoSignInDuringSync, Unwritten,
        Goto, Leave, shared, Inside, Acks
  <2> QED
    BY <1>7, <2>1, <2>2, <2>3, <2>4, <2>5, <2>6, <2>7 DEF Environment
<1> QED
  BY <1>1, <1>2, <1>3, <1>4, <1>5, <1>6, <1>7 DEF HandoffNext, Acks

\* The world around a sign-in leaves the directory to it, and can only end what
\* a process is at.
LEMMA EnvironmentMoves ==
  ASSUME pc \in [Procs -> PcStates], Environment \/ UNCHANGED allVars
  PROVE  /\ UNCHANGED <<store, receipt, told, botched, task>>
         /\ \A w \in Workers :
              \/ pc'[w] = pc[w]
              \/ pc[w] \notin {"off", "gone"} /\ pc'[w] \in {"closing", "gone"}
         /\ pc'[Tool] = pc[Tool] \/ pc'[Tool] = "idle"
<1>1. ASSUME NEW h \in Handoffs, PlatformEnds(h) \/ \E s \in Subjects : SignIn(h, s)
      PROVE  UNCHANGED <<store, receipt, told, botched, task, pc>>
  BY <1>1 DEF PlatformEnds, SignIn, shared
<1>2. ASSUME Reassign \/ UNCHANGED allVars
      PROVE  UNCHANGED <<store, receipt, told, botched, task, pc>>
  BY <1>2 DEF Reassign, allVars, hvars, shared
<1>3. ASSUME NEW p \in Procs, Crash(p)
      PROVE  /\ UNCHANGED <<store, receipt, told, botched, task>>
             /\ pc[p] \notin {"off", "gone"}
             /\ pc' = [pc EXCEPT ![p] = IF p = Tool THEN "idle" ELSE "gone"]
  BY <1>3 DEF Crash, Goto
<1>4. ASSUME NEW p \in Procs, WipeCutShort(p)
      PROVE  /\ UNCHANGED <<store, receipt, told, botched, task>>
             /\ pc[p] \notin {"off", "gone"}
             /\ pc' = [pc EXCEPT ![p] = IF p \in Workers THEN "closing" ELSE "idle"]
  BY <1>4 DEF WipeCutShort, Goto
<1>5. ASSUME StartCutShort
      PROVE  /\ UNCHANGED <<store, receipt, told, botched, task>>
             /\ pc' = [pc EXCEPT ![Tool] = "idle"]
  BY <1>5 DEF StartCutShort, Leave, Goto
<1> DEFINE Goal == /\ UNCHANGED <<store, receipt, told, botched, task>>
                   /\ \A w \in Workers :
                        \/ pc'[w] = pc[w]
                        \/ pc[w] \notin {"off", "gone"} /\ pc'[w] \in {"closing", "gone"}
                   /\ pc'[Tool] = pc[Tool] \/ pc'[Tool] = "idle"
<1>6. ASSUME NEW p \in Procs, Crash(p) PROVE Goal
  BY <1>3, <1>6, ProcsDiffer
<1>7. ASSUME NEW p \in Procs, WipeCutShort(p) PROVE Goal
  BY <1>4, <1>7, ProcsDiffer
<1>8. ASSUME StartCutShort PROVE Goal
  BY <1>5, <1>8, ProcsDiffer
<1>9. ASSUME UNCHANGED <<store, receipt, told, botched, task, pc>> PROVE Goal
  BY <1>9
<1> HIDE DEF Goal
<1>10. Goal
  BY <1>1, <1>2, <1>6, <1>7, <1>8, <1>9 DEF Environment
<1> QED
  BY <1>10 DEF Goal

\* A worker that is past its save does not come back before it.
LEMMA NoWayBack ==
  ASSUME SafeInv, [HandoffNext]_allVars, NEW g \in Workers, pc'[g] \in Unsaved
  PROVE  pc[g] \in Unsaved
<1> USE DEF Unsaved, Unwritten
<1>0. pc \in [Procs -> PcStates]
  BY DEF SafeInv, TypeInv, HandoffTypeOK
<1>1. CASE ConnectStarts
  <2>1. \A w \in Workers : w[1] = task.on => pc[w] = "off"
    BY <1>1 DEF ConnectStarts, SafeInv, StartInv
  <2>2. \A w \in Workers : w[1] # task.on => pc'[w] = pc[w]
    BY <1>0, <1>1, ProcsDiffer DEF ConnectStarts
  <2> QED
    BY <2>1, <2>2
<1>9. CASE ConnectCannotSpawn
  <2>1. \A w \in Workers : w[1] = task.on => pc[w] = "off"
    BY <1>9 DEF ConnectCannotSpawn, SafeInv, StartInv
  <2>2. \A w \in Workers : w[1] # task.on => pc'[w] = pc[w]
    BY <1>0, <1>9, ProcsDiffer DEF ConnectCannotSpawn
  <2> QED
    BY <2>1, <2>2
<1>2. ASSUME Connects, ~ConnectStarts, ~ConnectCannotSpawn PROVE pc[g] \in Unsaved
  BY <1>0, <1>2, ProcsDiffer
  DEF Connects, ConnectBegin, ConnectFindsStale, ConnectPosts, ConnectEnds,
      hvars, Goto, Leave
<1>3. ASSUME NEW w \in Workers, Polls(w) PROVE pc[g] \in Unsaved
  BY <1>0, <1>3, ProcsDiffer
  DEF Polls, WorkerReadsKey, WorkerChecksMarker, WorkerPolls, WorkerClears, WorkerDenies,
      WorkerCloses, Goto
<1>4. ASSUME NEW w \in Workers, Installs(w) PROVE pc[g] \in Unsaved
  BY <1>0, <1>4, ProcsDiffer
  DEF Installs, InstallSuperseded, InstallUnassigned, InstallRejected, InstallBegins,
      WriteReceipt, SaveCredential, PromoteReceipt, Goto, Leave
<1>5. ASSUME NEW h \in Handoffs, RecoverBegins(h) PROVE pc[g] \in Unsaved
  BY <1>0, <1>5, ProcsDiffer DEF RecoverBegins, Goto
<1>6. ASSUME NEW p \in Acks, Acknowledges(p) PROVE pc[g] \in Unsaved
  BY <1>0, <1>6, ProcsDiffer
  DEF Acks, Acknowledges, AckGivesUp, AckOrphaned, AckUnassigned, AckBegins, ClaimAccepted,
      ClaimUnanswered, RetireReceipt, ReadyNotice, Acknowledging, AfterAck, Goto, Leave
<1>7. CASE HookReads \/ HookWipes
  BY <1>0, <1>7, ProcsDiffer DEF HookReads, HookWipes, Goto
<1>8. CASE Environment \/ UNCHANGED allVars
  BY <1>0, <1>8, EnvironmentMoves
<1> QED
  BY <1>1, <1>2, <1>3, <1>4, <1>5, <1>6, <1>7, <1>8, <1>9 DEF HandoffNext, Acks

\* A sign-in that had two workers has had them, and what raised has raised.
LEMMA BeenDoubled ==
  ASSUME SafeInv, [HandoffNext]_allVars, NEW h \in Handoffs
  PROVE  /\ Doubled(h) => Doubled(h)'
         /\ botched[h] \subseteq botched'[h]
<1> DEFINE g == <<h, 2>>
<1>0. /\ pc \in [Procs -> PcStates] /\ botched \in [Handoffs -> SUBSET {"save", "promote"}]
      /\ g \in Workers
  BY Pairs DEF SafeInv, TypeInv, HandoffTypeOK
<1> HIDE DEF g
<1>1. CASE Connects
  <2>1. pc'[g] = "off" => pc[g] = "off"
    BY <1>0, <1>1, ProcsDiffer
    DEF Connects, ConnectBegin, ConnectFindsStale, ConnectPosts, ConnectStarts,
        ConnectCannotSpawn, ConnectEnds, hvars, Goto, Leave
  <2>2. botched' = botched
    BY <1>1
    DEF Connects, ConnectBegin, ConnectFindsStale, ConnectPosts, ConnectStarts,
        ConnectCannotSpawn, ConnectEnds, hvars
  <2> QED
    BY <2>1, <2>2 DEF Doubled, g
<1>3. ASSUME NEW w \in Workers, Polls(w)
      PROVE  (pc'[g] = "off" => pc[g] = "off") /\ botched' = botched
  BY <1>0, <1>3, ProcsDiffer
  DEF Polls, WorkerReadsKey, WorkerChecksMarker, WorkerPolls, WorkerClears, WorkerDenies,
      WorkerCloses, Goto
<1>4. ASSUME NEW w \in Workers, Installs(w)
      PROVE  (pc'[g] = "off" => pc[g] = "off") /\ botched[h] \subseteq botched'[h]
  <2>1. pc'[g] = "off" => pc[g] = "off"
    BY <1>0, <1>4, ProcsDiffer
    DEF Installs, InstallSuperseded, InstallUnassigned, InstallRejected, InstallBegins,
        WriteReceipt, SaveCredential, PromoteReceipt, Goto, Leave
  <2>2. \/ botched' = botched
        \/ botched' = [botched EXCEPT ![w[1]] = @ \union {"save"}]
        \/ botched' = [botched EXCEPT ![w[1]] = @ \union {"promote"}]
    BY <1>4
    DEF Installs, InstallSuperseded, InstallUnassigned, InstallRejected, InstallBegins,
        WriteReceipt, SaveCredential, PromoteReceipt
  <2>3. botched[h] \subseteq botched'[h]
    BY <1>0, <2>2
  <2> QED
    BY <2>1, <2>3
<1>5. ASSUME NEW r \in Handoffs, RecoverBegins(r)
      PROVE  (pc'[g] = "off" => pc[g] = "off") /\ botched' = botched
  BY <1>0, <1>5, ProcsDiffer DEF RecoverBegins, Goto
<1>6. ASSUME NEW p \in Acks, Acknowledges(p)
      PROVE  (pc'[g] = "off" => pc[g] = "off") /\ botched' = botched
  BY <1>0, <1>6, ProcsDiffer
  DEF Acks, Acknowledges, AckGivesUp, AckOrphaned, AckUnassigned, AckBegins, ClaimAccepted,
      ClaimUnanswered, RetireReceipt, ReadyNotice, Acknowledging, AfterAck, Goto, Leave
<1>7. ASSUME HookReads \/ HookWipes
      PROVE  (pc'[g] = "off" => pc[g] = "off") /\ botched' = botched
  BY <1>0, <1>7, ProcsDiffer DEF HookReads, HookWipes, Goto
<1>8. ASSUME Environment \/ UNCHANGED allVars
      PROVE  (pc'[g] = "off" => pc[g] = "off") /\ botched' = botched
  BY <1>0, <1>8, EnvironmentMoves
<1> QED
  BY <1>1, <1>3, <1>4, <1>5, <1>6, <1>7, <1>8 DEF HandoffNext, Acks, Doubled, g

\* A step that adds no account keeps StoreInv if every account that stays has
\* its receipt, was claimed, or is of a sign-in with two workers.
LEMMA StoreFrame ==
  ASSUME SafeInv, [HandoffNext]_allVars, store' \subseteq store,
         \A a \in store' : receipt'[a.from] = NoReceipt =>
            \/ receipt[a.from] = NoReceipt \/ handoff[a.from].status = "claimed"
            \/ Doubled(a.from)
  PROVE  StoreInv'
<1>1. \A a \in store : a.from \in Handoffs /\ a.by \in Starts
  BY DEF SafeInv, TypeInv, HandoffTypeOK, SharedTypeOK, Account
<1>2. ASSUME NEW a \in store' PROVE FromEnvelope(a)' /\ pc'[<<a.from, a.by>>] \notin Unsaved
  <2>1. FromEnvelope(a) /\ pc[<<a.from, a.by>>] \notin Unsaved /\ a.from \in Handoffs
    BY <1>1 DEF SafeInv, StoreInv
  <2>2. <<a.from, a.by>> \in Workers
    BY <1>1, Pairs
  <2>3. FromEnvelope(a)'
    BY <2>1, OpenedStays DEF SafeInv, FromEnvelope
  <2>4. pc'[<<a.from, a.by>>] \notin Unsaved
    BY <2>1, <2>2, NoWayBack
  <2> QED
    BY <2>3, <2>4
<1>3. SavedIsOwed'
  BY <1>1, OpenedStays, BeenDoubled DEF SafeInv, StoreInv, SavedIsOwed
<1> QED
  BY <1>2, <1>3 DEF StoreInv

\* Two starts of a sign-in are a second one.
LEMMA TwoStarts ==
  ASSUME SafeInv, NEW h \in Handoffs, NEW m \in Starts, NEW n \in Starts, m # n,
         pc[<<h, m>>] # "off", pc[<<h, n>>] # "off"
  PROVE  Doubled(h)
BY DEF Doubled, Starts

\* A saved credential is what its envelope held, and its receipt is there, or the
\* save raised after it, or the sign-in had two workers.
LEMMA SaveStep ==
  ASSUME SafeInv, [HandoffNext]_allVars, NEW w \in Workers, SaveCredential(w)
  PROVE  StoreInv'
<1> DEFINE h == w[1]
<1>0. /\ pc[w] = "save" /\ w \in Procs /\ handoff' = handoff /\ h \in Handoffs
      /\ w[2] \in Starts /\ w = <<h, w[2]>> /\ NoReceipt \notin Starts
      /\ pc \in [Procs -> PcStates] /\ receipt[h] = w[2] /\ Opened(h)
      /\ receipt \in [Handoffs -> Starts \union {NoReceipt}]
      /\ botched \in [Handoffs -> SUBSET {"save", "promote"}]
      /\ \A a \in store : a.from \in Handoffs /\ a.by \in Starts
  BY ProcsDiffer DEF SaveCredential, SafeInv, InstallInv, TypeInv, HandoffTypeOK, SharedTypeOK,
     Account
<1>1. \A a \in store : a.from = h => Doubled(h)
  <2>1. ASSUME NEW a \in store, a.from = h PROVE a.by # w[2] /\ pc[<<h, a.by>>] # "off"
    BY <1>0, <2>1 DEF SafeInv, StoreInv, Unsaved, Unwritten
  <2> QED
    BY <1>0, <2>1, TwoStarts
<1>2. CASE store' = Upsert(store, Envelope(w))
  <2>1. /\ Envelope(w).from = h /\ Envelope(w).id = handoff[h].target /\ Envelope(w).by = w[2]
        /\ Envelope(w).subject = handoff[h].subject /\ Envelope(w).binding = handoff[h].binding
    BY DEF Envelope
  <2>2. \A a \in store' : a = Envelope(w) \/ a \in store
    BY <1>2 DEF Upsert
  <2>3. /\ pc'[w] \in {"promote", "clear"}
        /\ \A v \in Workers : v # w => pc'[v] = pc[v]
    BY <1>0, ProcsDiffer DEF SaveCredential, Goto, Leave
  <2>4. \A a \in store' : FromEnvelope(a)'
    BY <1>0, <2>1, <2>2 DEF FromEnvelope, Opened, SafeInv, StoreInv
  <2>5. ASSUME NEW a \in store' PROVE pc'[<<a.from, a.by>>] \notin Unsaved
    <3>1. CASE a = Envelope(w)
      BY <1>0, <2>1, <2>3, <3>1 DEF Unsaved, Unwritten
    <3>2. CASE a \in store
      <4>1. <<a.from, a.by>> \in Workers /\ pc[<<a.from, a.by>>] \notin Unsaved
        BY <1>0, <3>2, Pairs DEF SafeInv, StoreInv
      <4> QED
        BY <1>0, <2>3, <4>1 DEF Unsaved
    <3> QED
      BY <2>2, <3>1, <3>2
  <2>6. \/ receipt' = receipt /\ botched' = botched
        \/ /\ receipt' = [receipt EXCEPT ![h] = NoReceipt]
           /\ botched' = botched \/ botched' = [botched EXCEPT ![h] = @ \union {"save"}]
    BY DEF SaveCredential
  <2>7. receipt'[h] = receipt[h] \/ "save" \in botched'[h] \/ store' = store
    BY <1>0 DEF SaveCredential
  <2>8. ASSUME NEW a \in store'
        PROVE  \/ handoff'[a.from].status = "claimed" \/ receipt'[a.from] # NoReceipt
               \/ "save" \in botched'[a.from] \/ Doubled(a.from)'
    <3>1. CASE a.from = h /\ a \in store
      BY <1>0, <1>1, <3>1, BeenDoubled
    <3>2. CASE a.from # h /\ a \in store
      <4>1. receipt'[a.from] = receipt[a.from] /\ botched'[a.from] = botched[a.from]
        BY <1>0, <2>6, <3>2
      <4> QED
        BY <1>0, <3>2, <4>1, BeenDoubled DEF SafeInv, StoreInv, SavedIsOwed
    <3>3. CASE a = Envelope(w) /\ a \notin store
      BY <1>0, <2>1, <2>7, <3>3
    <3> QED
      BY <2>1, <2>2, <3>1, <3>2, <3>3
  <2>9. SavedIsOwed'
    BY <2>8 DEF SavedIsOwed
  <2> QED
    BY <2>4, <2>5, <2>9 DEF StoreInv
<1>3. CASE store' = store /\ receipt' = [receipt EXCEPT ![h] = NoReceipt]
  BY <1>0, <1>1, <1>3, StoreFrame
<1> QED
  BY <1>2, <1>3 DEF SaveCredential

\* StoreInv is kept.
LEMMA StoreStep == SafeInv /\ [HandoffNext]_allVars => StoreInv'
<1> SUFFICES ASSUME SafeInv, [HandoffNext]_allVars PROVE StoreInv'
  OBVIOUS
<1>0. /\ receipt \in [Handoffs -> Starts \union {NoReceipt}]
      /\ \A a \in store : a.from \in Handoffs /\ a.by \in Starts
      /\ TypeInv /\ StoreInv /\ AckInv
  BY DEF SafeInv, TypeInv, HandoffTypeOK, SharedTypeOK, Account
<1>1. ASSUME NEW w \in Workers, Installs(w) PROVE StoreInv'
  <2>1. CASE SaveCredential(w)
    BY <2>1, SaveStep
  <2>2. CASE ~SaveCredential(w)
    <3>1. store' \subseteq store /\ \A g \in Handoffs : receipt'[g] = NoReceipt => receipt[g] = NoReceipt
      BY <1>0, <1>1, <2>2, Pairs
      DEF Installs, InstallSuperseded, InstallUnassigned, InstallRejected, InstallBegins,
          WriteReceipt, PromoteReceipt, CancelHandoffs, shared
    <3> QED
      BY <1>0, <3>1, StoreFrame
  <2> QED
    BY <2>1, <2>2
<1>2. ASSUME NEW p \in Acks, AckOrphaned(p) PROVE StoreInv'
  <2>1. On(p) \in Handoffs
    BY <1>0, <1>2, OnHandoff DEF AckOrphaned, Acknowledging
  <2>4. receipt[On(p)] \in Starts /\ pc[<<On(p), receipt[On(p)]>>] # "off"
    <3>1. receipt[On(p)] \in Starts
      BY <1>0, <1>2, <2>1 DEF AckOrphaned
    <3> QED
      BY <2>1, <3>1, Pairs DEF SafeInv, InstallInv, Unwritten
  <2>2. ASSUME NEW a \in store, a.from = On(p) PROVE Doubled(On(p))
    <3>1. a.by # receipt[On(p)]
      BY <1>0, <1>2, <2>1, <2>2, MatchingFrom DEF AckOrphaned
    <3>2. pc[<<On(p), a.by>>] # "off"
      BY <1>0, <2>2 DEF StoreInv, Unsaved, Unwritten
    <3> QED
      BY <1>0, <2>1, <2>4, <3>1, <3>2, TwoStarts
  <2>3. store' = store /\ receipt' = [receipt EXCEPT ![On(p)] = NoReceipt]
    BY <1>2 DEF AckOrphaned
  <2> QED
    BY <1>0, <2>1, <2>2, <2>3, StoreFrame
<1>3. ASSUME NEW p \in Acks, RetireReceipt(p) PROVE StoreInv'
  <2>1. On(p) \in Handoffs
    BY <1>0, <1>3, OnHandoff DEF RetireReceipt
  <2>2. handoff[On(p)].status = "claimed"
    BY <1>0, <1>3 DEF RetireReceipt, AckInv
  <2>3. store' = store /\ receipt' = [receipt EXCEPT ![On(p)] = NoReceipt]
    BY <1>3 DEF RetireReceipt
  <2> QED
    BY <1>0, <2>1, <2>2, <2>3, StoreFrame
<1>4. ASSUME NEW p \in Acks, AckUnassigned(p) PROVE StoreInv'
  <2>1. store' = {}
    BY <1>4 DEF AckUnassigned, WipeForAssignment
  <2> QED
    BY <2>1, StoreFrame
<1>8. ASSUME NEW p \in Acks,
             \/ AckGivesUp(p) \/ AckBegins(p) \/ ReadyNotice(p)
             \/ ClaimAccepted(p) \/ ClaimUnanswered(p)
      PROVE  StoreInv'
  <2>1. store' = store /\ receipt' = receipt
    BY <1>8 DEF AckGivesUp, AckBegins, ClaimAccepted, ClaimUnanswered, ReadyNotice, shared
  <2> QED
    BY <1>0, <2>1, StoreFrame
<1>5. CASE Connects \/ HookReads \/ HookWipes
  <2>1. (store' = {} \/ store' = store) /\ receipt' = receipt
    BY <1>5
    DEF Connects, ConnectBegin, ConnectFindsStale, ConnectPosts, ConnectStarts,
        ConnectCannotSpawn, ConnectEnds, HookReads, HookWipes, WipeForAssignment, shared
  <2> QED
    BY <1>0, <2>1, StoreFrame
<1>6. CASE (\E w \in Workers : Polls(w)) \/ (\E h \in Handoffs : RecoverBegins(h))
  <2>1. store' = store /\ receipt' = receipt
    BY <1>6
    DEF Polls, WorkerReadsKey, WorkerChecksMarker, WorkerPolls, WorkerClears, WorkerDenies,
        WorkerCloses, RecoverBegins, shared
  <2> QED
    BY <1>0, <2>1, StoreFrame
<1>7. CASE Environment \/ UNCHANGED allVars
  <2>1. store' = store /\ receipt' = receipt
    BY <1>7
    DEF Environment, SignIn, PlatformEnds, Reassign, Crash, WipeCutShort, StartCutShort,
        allVars, shared
  <2> QED
    BY <1>0, <2>1, StoreFrame
<1> QED
  BY <1>1, <1>2, <1>3, <1>4, <1>5, <1>6, <1>7, <1>8 DEF HandoffNext, Acknowledges, Acks

\* AckInv is kept.
LEMMA AckStep == SafeInv /\ [HandoffNext]_allVars => AckInv'
<1> SUFFICES ASSUME SafeInv, [HandoffNext]_allVars PROVE AckInv'
  OBVIOUS
<1>0. /\ pc \in [Procs -> PcStates] /\ \A p \in Procs : Inside(p) <=> lock = p
      /\ receipt \in [Handoffs -> Starts \union {NoReceipt}]
      /\ TypeInv /\ TypeInv'
  BY TypeStep DEF SafeInv, TypeInv, HandoffTypeOK, SharedTypeOK
<1>1. CASE Connects
  BY <1>0, <1>1, ProcsDiffer, OpenedStays, OnHandoff, MatchingFrom
  DEF Connects, ConnectBegin, ConnectFindsStale, WipeForAssignment, CancelHandoffs,
      hvars, ConnectPosts, ConnectStarts, ConnectCannotSpawn, ConnectEnds, SafeInv,
      AckInv, On, Goto, Leave, shared, Inside, Acks
<1>2. ASSUME NEW w \in Workers, Polls(w) PROVE AckInv'
  BY <1>0, <1>2, ProcsDiffer, OpenedStays, OnHandoff, MatchingFrom
  DEF Polls, WorkerReadsKey, WorkerChecksMarker, WorkerPolls, WorkerClears, ClearMarker,
      WorkerDenies, WorkerCloses, SafeInv, AckInv, On, Goto, Leave, shared, Inside, Acks
<1>3. ASSUME NEW w \in Workers, Installs(w) PROVE AckInv'
  BY <1>0, <1>3, ProcsDiffer, OpenedStays, OnHandoff, MatchingFrom
  DEF Installs, InstallSuperseded, InstallUnassigned, CancelHandoffs, InstallRejected,
      InstallBegins, WriteReceipt, SaveCredential, PromoteReceipt, SafeInv, AckInv, On,
      Goto, Leave, shared, Inside, Acks
<1>4. ASSUME NEW h \in Handoffs, RecoverBegins(h) PROVE AckInv'
  BY <1>0, <1>4, ProcsDiffer, OpenedStays, OnHandoff, MatchingFrom
  DEF RecoverBegins, SafeInv, AckInv, On, Goto, Leave, shared, Inside, Acks
<1>5. ASSUME NEW p \in Acks, Acknowledges(p) PROVE AckInv'
  <2>1. CASE AckGivesUp(p)
    BY <1>0, <2>1, ProcsDiffer, OpenedStays, OnHandoff, MatchingFrom
    DEF AckGivesUp, Acknowledging, AfterAck, SafeInv, AckInv, On, Goto, Leave, shared,
        Inside, Acks
  <2>2. CASE AckOrphaned(p)
    BY <1>0, <2>2, ProcsDiffer, OpenedStays, OnHandoff, MatchingFrom
    DEF AckOrphaned, Acknowledging, AfterAck, SafeInv, AckInv, On, Goto, Leave, shared,
        Inside, Acks
  <2>3. CASE AckUnassigned(p)
    BY <1>0, <2>3, ProcsDiffer, OpenedStays, OnHandoff, MatchingFrom
    DEF AckUnassigned, Acknowledging, AfterAck, WipeForAssignment, CancelHandoffs,
        SafeInv, AckInv, On, Goto, Leave, shared, Inside, Acks
  <2>4. CASE AckBegins(p)
    BY <1>0, <2>4, ProcsDiffer, OpenedStays, OnHandoff, MatchingFrom
    DEF AckBegins, Acknowledging, SafeInv, AckInv, On, Goto, Leave, shared, Inside, Acks
  <2>5. CASE ClaimAccepted(p)
    <3>1. /\ pc[p] = "claim" /\ pc' = [pc EXCEPT ![p] = "retire"]
          /\ task' = task /\ store' = store /\ receipt' = receipt
      BY <2>5 DEF ClaimAccepted, Goto, shared
    <3>2. On(p) \in Handoffs /\ p \in Procs /\ On(p)' = On(p)
      BY <1>0, <3>1, OnHandoff DEF On
    <3>3. handoff'[On(p)].status = "claimed"
      BY <1>0, <2>5, <3>2, ClaimsAccepted
    <3> QED
      BY <1>0, <3>1, <3>2, <3>3, OpenedStays, OnHandoff, ProcsDiffer
      DEF SafeInv, AckInv, On, Acks
  <2>6. CASE ClaimUnanswered(p)
    BY <1>0, <2>6, ProcsDiffer, OpenedStays, OnHandoff, MatchingFrom
    DEF ClaimUnanswered, AfterAck, SafeInv, AckInv, On, Goto, Leave, shared, Inside, Acks
  <2>7. CASE RetireReceipt(p)
    BY <1>0, <2>7, ProcsDiffer, OpenedStays, OnHandoff, MatchingFrom
    DEF RetireReceipt, ClearMarker, SafeInv, AckInv, On, Goto, Leave, shared, Inside, Acks
  <2>8. CASE ReadyNotice(p)
    BY <1>0, <2>8, ProcsDiffer, OpenedStays, OnHandoff, MatchingFrom
    DEF ReadyNotice, AfterAck, SafeInv, AckInv, On, Goto, Leave, shared, Inside, Acks
  <2> QED
    BY <1>5, <2>1, <2>2, <2>3, <2>4, <2>5, <2>6, <2>7, <2>8 DEF Acknowledges
<1>6. CASE HookReads \/ HookWipes
  BY <1>0, <1>6, ProcsDiffer, OpenedStays, OnHandoff, MatchingFrom
  DEF HookReads, HookWipes, WipeForAssignment, CancelHandoffs, SafeInv, AckInv, On,
      Goto, Leave, shared, Inside, Acks
<1>7. CASE Environment \/ UNCHANGED allVars
  <2>1. ASSUME NEW h \in Handoffs, NEW s \in Subjects, SignIn(h, s) PROVE AckInv'
    <3>1. pc' = pc /\ task' = task /\ store' = store /\ receipt' = receipt
      BY <2>1 DEF SignIn, shared
    <3> QED
      BY <1>0, <3>1, OpenedStays, OnHandoff DEF SafeInv, AckInv, On, Acks
  <2>2. ASSUME NEW h \in Handoffs, PlatformEnds(h) PROVE AckInv'
    BY <1>0, <2>2, ProcsDiffer, OpenedStays, OnHandoff, MatchingFrom
    DEF PlatformEnds, SafeInv, AckInv, On, Goto, Leave, shared, Inside, Acks
  <2>3. CASE Reassign
    BY <1>0, <2>3, ProcsDiffer, OpenedStays, OnHandoff, MatchingFrom
    DEF Reassign, hvars, SafeInv, AckInv, On, Goto, Leave, shared, Inside, Acks
  <2>4. ASSUME NEW p \in Procs, Crash(p) PROVE AckInv'
    BY <1>0, <2>4, ProcsDiffer, OpenedStays, OnHandoff, MatchingFrom
    DEF Crash, SafeInv, AckInv, On, Goto, Leave, shared, Inside, Acks
  <2>5. ASSUME NEW p \in Procs, WipeCutShort(p) PROVE AckInv'
    BY <1>0, <2>5, ProcsDiffer, OpenedStays, OnHandoff, MatchingFrom
    DEF WipeCutShort, SafeInv, AckInv, On, Goto, Leave, shared, Inside, Acks
  <2>6. CASE StartCutShort
    BY <1>0, <2>6, ProcsDiffer, OpenedStays, OnHandoff, MatchingFrom
    DEF StartCutShort, SafeInv, AckInv, On, Goto, Leave, shared, Inside, Acks
  <2>7. CASE UNCHANGED allVars
    BY <1>0, <2>7, ProcsDiffer, OpenedStays, OnHandoff, MatchingFrom
    DEF allVars, hvars, SafeInv, AckInv, On, Goto, Leave, shared, Inside, Acks
  <2> QED
    BY <1>7, <2>1, <2>2, <2>3, <2>4, <2>5, <2>6, <2>7 DEF Environment
<1> QED
  BY <1>1, <1>2, <1>3, <1>4, <1>5, <1>6, <1>7 DEF HandoffNext, Acks

-----------------------------------------------------------------------------
(* The invariant is inductive, and what follows from it.                   *)

\* Every step keeps the invariant.
LEMMA SafeStep == SafeInv /\ [HandoffNext]_allVars => SafeInv'
<1> SUFFICES ASSUME SafeInv, [HandoffNext]_allVars PROVE SafeInv'
  OBVIOUS
<1>1. TypeInv'
  BY TypeStep DEF SafeInv
<1> QED
  BY <1>1, StartStep, InstallStep, StoreStep, AckStep DEF SafeInv

\* The invariant holds in every reachable state.
LEMMA Safety == HandoffSpec => []SafeInv
<1> QED
  BY SafeInit, SafeStep, PTL DEF HandoffSpec

\* The variables have their types, and the lifecycle lock is held by exactly
\* the process that stands inside a `with _lifecycle_lock()` block.
THEOREM HandoffTypeCorrect == HandoffSpec => []HandoffTypeOK
<1>1. SafeInv => HandoffTypeOK
  BY DEF SafeInv, TypeInv
<1> QED
  BY <1>1, Safety, PTL

\* Whatever dies where, a credential on disk is known to the platform or is
\* remembered by its receipt (_install_ready_credentials,
\* _acknowledge_install_receipt).
THEOREM SavedIsOwedHolds == HandoffSpec => []SavedIsOwed
<1>1. SafeInv => SavedIsOwed
  BY DEF SafeInv, StoreInv
<1> QED
  BY <1>1, Safety, PTL

\* While an install waits for its acknowledgement, no other sign-in can install
\* (_start_connection looks for receipts under the lock it writes its marker in).
THEOREM NoSignInDuringSyncHolds == HandoffSpec => []NoSignInDuringSync
<1>1. SafeInv => NoSignInDuringSync
  BY DEF SafeInv, InstallInv
<1> QED
  BY <1>1, Safety, PTL

\* The request leaves no claimed record that was not claimed.
LEMMA PostsNoClaim ==
  ASSUME TypeInv, ConnectPosts, NEW h \in Handoffs, handoff[h].status # "claimed"
  PROVE  handoff'[h].status # "claimed"
<1>1. task.on \in Handoffs /\ handoff \in [Handoffs -> SignIns]
  BY ProcsDiffer DEF ConnectPosts, TypeInv, ToolInv, HandoffTypeOK
<1>2. h # task.on => handoff'[h] = handoff[h]
  BY <1>1 DEF ConnectPosts
<1> QED
  BY <1>2, PostsPending

\* Only a claim makes a record claimed.
LEMMA OnlyClaimsClaim ==
  ASSUME SafeInv, [HandoffNext]_allVars, NEW h \in Handoffs, handoff[h].status # "claimed",
         handoff'[h].status = "claimed"
  PROVE  \E p \in Acks : ClaimAccepted(p) \/ ClaimUnanswered(p)
<1> SUFFICES ASSUME ~ \E p \in Acks : ClaimAccepted(p) \/ ClaimUnanswered(p) PROVE FALSE
  OBVIOUS
<1> DEFINE Kept == handoff' = handoff \/ \E g \in Handoffs : ClaimFalse(g)
<1>0. ~Kept
  <2> SUFFICES ASSUME NEW g \in Handoffs, ClaimFalse(g) PROVE FALSE
    OBVIOUS
  <2> QED
    BY ClaimFalseUpdate DEF SafeInv, TypeInv, HandoffTypeOK
<1>1. CASE Connects
  <2>1. task.on \in Handoffs \/ pc[Tool] = "idle"
    BY DEF SafeInv, TypeInv, ToolInv
  <2>2. CASE ConnectPosts
    BY <2>2, PostsNoClaim DEF SafeInv
  <2> QED
    BY <1>0, <1>1, <2>1, <2>2
    DEF Connects, ConnectBegin, ConnectFindsStale, ConnectStarts, ConnectCannotSpawn,
        ConnectEnds,
        hvars
<1>2. ASSUME NEW w \in Workers, NEW g \in Handoffs, Polls(w) \/ Installs(w) \/ RecoverBegins(g)
      PROVE  FALSE
  BY <1>0, <1>2, ProcsDiffer
  DEF Polls, WorkerReadsKey, WorkerChecksMarker, WorkerPolls, WorkerClears, WorkerDenies,
      WorkerCloses, Installs, InstallSuperseded, InstallUnassigned, InstallRejected,
      InstallBegins, WriteReceipt, SaveCredential, PromoteReceipt, RecoverBegins
<1>3. ASSUME NEW p \in Acks, Acknowledges(p) PROVE FALSE
  <2>1. pc[p] # "idle" => On(p) \in Handoffs
    BY OnHandoff DEF SafeInv
  <2> QED
    BY <1>0, <1>3, <2>1
    DEF Acknowledges, AckGivesUp, AckOrphaned, AckUnassigned, AckBegins, RetireReceipt,
        ReadyNotice, Acknowledging
<1>4. CASE HookReads \/ HookWipes
  BY <1>0, <1>4 DEF HookReads, HookWipes
<1>5. CASE Environment \/ UNCHANGED allVars
  <2>1. ASSUME NEW g \in Handoffs, NEW s \in Subjects, SignIn(g, s) PROVE FALSE
    <3>1. handoff' = [handoff EXCEPT ![g] = [handoff[g] EXCEPT !.status = "ready", !.subject = s]]
      BY <2>1 DEF SignIn
    <3>2. handoff[g] \in SignIns /\ handoff \in [Handoffs -> SignIns]
      BY DEF SafeInv, TypeInv, HandoffTypeOK
    <3>3. handoff'[g] = [handoff[g] EXCEPT !.status = "ready", !.subject = s]
      BY <3>1, <3>2
    <3>4. handoff'[g].status = "ready" /\ (g # h => handoff'[h] = handoff[h])
      BY <3>1, <3>2, <3>3 DEF SignIns
    <3> QED
      BY <3>4
  <2>2. ASSUME NEW g \in Handoffs, PlatformEnds(g) PROVE FALSE
    <3>1. handoff' = [handoff EXCEPT ![g].status = "ended"] /\ handoff \in [Handoffs -> SignIns]
      BY <2>2 DEF PlatformEnds, SafeInv, TypeInv, HandoffTypeOK
    <3> QED
      BY <3>1, StatusUpdate DEF Statuses
  <2> QED
    BY <1>0, <1>5, <2>1, <2>2
    DEF Environment, Reassign, Crash, WipeCutShort, StartCutShort, allVars, hvars
<1> QED
  BY <1>1, <1>2, <1>3, <1>4, <1>5, Pairs DEF HandoffNext, Acks

\* Only a save adds an account.
LEMMA OnlySavesAdd ==
  ASSUME [HandoffNext]_allVars, NEW a \in store', a \notin store
  PROVE  \E w \in Workers : SaveCredential(w) /\ store' = Upsert(store, Envelope(w))
<1>1. CASE Connects \/ HookReads \/ HookWipes
  BY <1>1
  DEF Connects, ConnectBegin, ConnectFindsStale, ConnectPosts, ConnectStarts,
      ConnectCannotSpawn, ConnectEnds, HookReads, HookWipes, WipeForAssignment, shared
<1>2. ASSUME NEW w \in Workers, NEW h \in Handoffs, Polls(w) \/ RecoverBegins(h) PROVE FALSE
  BY <1>2
  DEF Polls, WorkerReadsKey, WorkerChecksMarker, WorkerPolls, WorkerClears, WorkerDenies,
      WorkerCloses, RecoverBegins, shared
<1>3. ASSUME NEW w \in Workers, Installs(w)
      PROVE  SaveCredential(w) /\ store' = Upsert(store, Envelope(w))
  BY <1>3
  DEF Installs, InstallSuperseded, InstallUnassigned, InstallRejected, InstallBegins,
      WriteReceipt, SaveCredential, PromoteReceipt, shared
<1>4. ASSUME NEW p \in Acks, Acknowledges(p) PROVE FALSE
  BY <1>4
  DEF Acknowledges, AckGivesUp, AckOrphaned, AckUnassigned, AckBegins, ClaimAccepted,
      ClaimUnanswered, RetireReceipt, ReadyNotice, WipeForAssignment, shared
<1>5. CASE Environment \/ UNCHANGED allVars
  BY <1>5
  DEF Environment, SignIn, PlatformEnds, Reassign, Crash, WipeCutShort, StartCutShort,
      allVars, shared
<1> QED
  BY <1>1, <1>2, <1>3, <1>4, <1>5, Pairs DEF HandoffNext, Acks

\* The platform's record becomes claimed only in an accepted claim, which is
\* made under the lock for a credential that is on disk.
LEMMA SavedBeforeClaimed ==
  ASSUME SafeInv, [HandoffNext]_allVars, NEW h \in Handoffs,
         handoff[h].status # "claimed", handoff'[h].status = "claimed"
  PROVE  \E a \in store' : a.from = h
<1>1. PICK p \in Acks : ClaimAccepted(p) \/ ClaimUnanswered(p)
  BY OnlyClaimsClaim
<1>2. /\ pc[p] = "claim" /\ store' = store
      /\ handoff' = handoff \/ handoff' = [handoff EXCEPT ![On(p)].status = "claimed"]
  BY <1>1 DEF ClaimAccepted, ClaimUnanswered, shared
<1>3. On(p) \in Handoffs
  BY <1>2, OnHandoff DEF SafeInv
<1>4. On(p) = h
  <2> SUFFICES ASSUME On(p) # h PROVE FALSE
    OBVIOUS
  <2>1. handoff'[h] = handoff[h]
    BY <1>2, <1>3 DEF SafeInv, TypeInv, HandoffTypeOK
  <2> QED
    BY <2>1
<1> QED
  BY <1>2, <1>4 DEF SafeInv, AckInv

\* The platform hears "installed" only of a credential that is on disk
\* (_acknowledge_install_receipt).
THEOREM ClaimMeansSavedHolds == HandoffSpec => ClaimMeansSaved
<1> DEFINE A == \A h \in Handoffs :
       handoff[h].status # "claimed" /\ handoff'[h].status = "claimed"
         => \E a \in store' : a.from = h
<1>1. SafeInv /\ [HandoffNext]_allVars => [A]_allVars
  BY SavedBeforeClaimed
<1> QED
  BY <1>1, Safety, PTL DEF HandoffSpec, ClaimMeansSaved

\* A worker that saves has the marker and the lock.
LEMMA FromTheActive ==
  ASSUME SafeInv, [HandoffNext]_allVars, NEW a \in store', a \notin store
  PROVE  a.from = active /\ pc[Tool] \notin {"posting", "starting", "button"}
<1>1. PICK w \in Workers : SaveCredential(w) /\ store' = Upsert(store, Envelope(w))
  BY OnlySavesAdd
<1>2. pc[w] = "save" /\ w \in Procs /\ Tool \in Procs /\ w # Tool
  BY <1>1, ProcsDiffer DEF SaveCredential
<1>3. a = Envelope(w)
  BY <1>1 DEF Upsert
<1>4. a.from = w[1]
  BY <1>3 DEF Envelope
<1>5. active = w[1]
  BY <1>2 DEF SafeInv, InstallInv
<1>6. lock = w
  BY <1>2 DEF SafeInv, TypeInv, HandoffTypeOK, Inside
<1> QED
  BY <1>2, <1>4, <1>5, <1>6 DEF SafeInv, TypeInv, HandoffTypeOK, Inside

\* An account enters the registry only from the sign-in whose marker stands,
\* and never while the plugin is between its checks and its button.
THEOREM OnlyTheActiveInstallsHolds == HandoffSpec => OnlyTheActiveInstalls
<1> DEFINE A == \A a \in store' \ store :
       a.from = active /\ pc[Tool] \notin {"posting", "starting", "button"}
<1>1. SafeInv /\ [HandoffNext]_allVars => [A]_allVars
  BY FromTheActive
<1> QED
  BY <1>1, Safety, PTL DEF HandoffSpec, OnlyTheActiveInstalls

-----------------------------------------------------------------------------
(* Outcomes: one account for each Google user, one notice, no false alarm. *)

\* Only the process inside the lock, or one that takes it, changes the
\* registry, and only a save adds to it.
LEMMA RegistryMoves ==
  ASSUME SafeInv, [HandoffNext]_allVars
  PROVE  \/ store' = store
         \/ store' = {}
         \/ \E w \in Workers : SaveCredential(w) /\ store' = Upsert(store, Envelope(w))
<1>1. CASE Connects \/ HookReads \/ HookWipes
  BY <1>1
  DEF Connects, ConnectBegin, ConnectFindsStale, ConnectPosts, ConnectStarts,
      ConnectCannotSpawn, ConnectEnds, HookReads, HookWipes, WipeForAssignment, shared
<1>2. ASSUME NEW w \in Workers, NEW h \in Handoffs, Polls(w) \/ RecoverBegins(h) PROVE store' = store
  BY <1>2
  DEF Polls, WorkerReadsKey, WorkerChecksMarker, WorkerPolls, WorkerClears, WorkerDenies,
      WorkerCloses, RecoverBegins, shared
<1>3. ASSUME NEW w \in Workers, Installs(w), ~SaveCredential(w)
      PROVE  store' = store \/ store' = {}
  BY <1>3
  DEF Installs, InstallSuperseded, InstallUnassigned, InstallRejected, InstallBegins,
      WriteReceipt, PromoteReceipt, shared
<1>4. ASSUME NEW w \in Workers, SaveCredential(w)
      PROVE  store' = store \/ store' = Upsert(store, Envelope(w))
  BY <1>4 DEF SaveCredential
<1>5. ASSUME NEW p \in Acks, Acknowledges(p) PROVE store' = store \/ store' = {}
  BY <1>5
  DEF Acknowledges, AckGivesUp, AckOrphaned, AckUnassigned, AckBegins, ClaimAccepted,
      ClaimUnanswered, RetireReceipt, ReadyNotice, WipeForAssignment, shared
<1>6. CASE Environment \/ UNCHANGED allVars
  BY <1>6
  DEF Environment, SignIn, PlatformEnds, Reassign, Crash, WipeCutShort, StartCutShort,
      allVars, shared
<1> QED
  BY <1>1, <1>2, <1>3, <1>4, <1>5, <1>6, Pairs DEF HandoffNext, Acks

\* Where a worker that failed comes from, and that it does not come back.
WorkerMoves(g) ==
  /\ pc'[g] \in {"clear", "deny"} => pc[g] \in Unsaved \union {"clear", "deny"}
  /\ pc[g] \in {"closing", "gone"} => pc'[g] \in {"closing", "gone"}

\* Where no promotion has failed, every step moves a worker so.
LEMMA WorkersMove ==
  ASSUME SafeInv, [HandoffNext]_allVars, NEW g \in Workers, botched'[g[1]] = {}
  PROVE  WorkerMoves(g)
<1>0. /\ pc \in [Procs -> PcStates]
      /\ botched \in [Handoffs -> SUBSET {"save", "promote"}] /\ g[1] \in Handoffs
      /\ pc[Tool] = "starting" =>
           task.on \in Handoffs /\ \A w \in Workers : w[1] = task.on => pc[w] = "off"
  BY ProcsDiffer DEF SafeInv, TypeInv, HandoffTypeOK, ToolInv, StartInv
<1>1. CASE Connects
  BY <1>0, <1>1, ProcsDiffer
  DEF Connects, ConnectBegin, ConnectFindsStale, ConnectPosts, ConnectStarts,
      ConnectCannotSpawn, ConnectEnds, WipeForAssignment, CancelHandoffs, hvars,
      WorkerMoves, Unsaved, Unwritten, Goto, Leave
<1>2. ASSUME NEW w \in Workers, Polls(w)
      PROVE  WorkerMoves(g)
  BY <1>0, <1>2, ProcsDiffer
  DEF Polls, WorkerReadsKey, WorkerChecksMarker, WorkerPolls, WorkerClears, WorkerDenies,
      WorkerCloses, WorkerMoves, Unsaved, Unwritten, Goto, Leave
<1>3. ASSUME NEW w \in Workers, Installs(w)
      PROVE  WorkerMoves(g)
  BY <1>0, <1>3, ProcsDiffer
  DEF Installs, InstallSuperseded, InstallUnassigned, InstallRejected, InstallBegins,
      WriteReceipt, SaveCredential, PromoteReceipt, WorkerMoves, Unsaved, Unwritten, Goto,
      Leave
<1>4. ASSUME NEW h \in Handoffs, RecoverBegins(h)
      PROVE  WorkerMoves(g)
  BY <1>0, <1>4, ProcsDiffer
  DEF RecoverBegins, WorkerMoves, Unsaved, Unwritten, Goto, Leave
<1>5. ASSUME NEW p \in Acks, Acknowledges(p)
      PROVE  WorkerMoves(g)
  BY <1>0, <1>5, ProcsDiffer
  DEF Acks, Acknowledges, AckGivesUp, AckOrphaned, AckUnassigned, AckBegins, ClaimAccepted,
      ClaimUnanswered, RetireReceipt, ReadyNotice, Acknowledging, AfterAck,
      WipeForAssignment, CancelHandoffs, WorkerMoves, Unsaved, Unwritten, Goto, Leave
<1>6. CASE HookReads \/ HookWipes
  BY <1>0, <1>6, ProcsDiffer
  DEF HookReads, HookWipes, WipeForAssignment, CancelHandoffs, WorkerMoves, Unsaved,
      Unwritten, Goto, Leave
<1>7. CASE Environment \/ UNCHANGED allVars
  BY <1>0, <1>7, EnvironmentMoves DEF WorkerMoves, Unsaved, Unwritten
<1> QED
  BY <1>1, <1>2, <1>3, <1>4, <1>5, <1>6, <1>7 DEF HandoffNext, Acks

\* Only a denial and an announcement tell the user anything.
LEMMA ToldMoves ==
  ASSUME [HandoffNext]_allVars
  PROVE  \/ told' = told
         \/ \E w \in Workers : WorkerDenies(w)
         \/ \E p \in Acks : ReadyNotice(p)
<1>1. CASE Connects \/ HookReads \/ HookWipes
  BY <1>1
  DEF Connects, ConnectBegin, ConnectFindsStale, ConnectPosts, ConnectStarts,
      ConnectCannotSpawn, ConnectEnds, HookReads, HookWipes, hvars
<1>2. ASSUME NEW w \in Workers, NEW h \in Handoffs, Polls(w) \/ RecoverBegins(h),
             ~WorkerDenies(w)
      PROVE  told' = told
  BY <1>2
  DEF Polls, WorkerReadsKey, WorkerChecksMarker, WorkerPolls, WorkerClears, WorkerCloses,
      RecoverBegins
<1>3. ASSUME NEW w \in Workers, Installs(w) PROVE told' = told
  BY <1>3
  DEF Installs, InstallSuperseded, InstallUnassigned, InstallRejected, InstallBegins,
      WriteReceipt, SaveCredential, PromoteReceipt
<1>4. ASSUME NEW p \in Acks, Acknowledges(p), ~ReadyNotice(p) PROVE told' = told
  BY <1>4
  DEF Acknowledges, AckGivesUp, AckOrphaned, AckUnassigned, AckBegins, ClaimAccepted,
      ClaimUnanswered, RetireReceipt
<1>5. CASE Environment \/ UNCHANGED allVars
  BY <1>5
  DEF Environment, SignIn, PlatformEnds, Reassign, Crash, WipeCutShort, StartCutShort,
      allVars, hvars
<1> QED
  BY <1>1, <1>2, <1>3, <1>4, <1>5, Pairs DEF HandoffNext, Acks

\* Only a worker at its denial reports a failure.
LEMMA OnlyDenialsFail ==
  ASSUME SafeInv, [HandoffNext]_allVars, NEW g \in Handoffs, told'[g].failed
  PROVE  \/ told[g].failed
         \/ \E w \in Workers : w[1] = g /\ pc[w] = "deny" /\ pc'[w] = "closing"
<1>0. /\ pc \in [Procs -> PcStates] /\ Workers \subseteq Procs
      /\ told \in [Handoffs -> [ready : Nat, failed : BOOLEAN]]
  BY ProcsDiffer DEF SafeInv, TypeInv, HandoffTypeOK
<1>1. CASE told' = told
  BY <1>1, Zenon
<1>2. ASSUME NEW w \in Workers, WorkerDenies(w)
      PROVE  told[g].failed \/ (w[1] = g /\ pc[w] = "deny" /\ pc'[w] = "closing")
  <2>1. CASE g = w[1]
    BY <1>0, <1>2, <2>1 DEF WorkerDenies, Goto
  <2>2. CASE g # w[1]
    <3>1. told'[g] = told[g]
      BY <1>0, <1>2, <2>2 DEF WorkerDenies
    <3> QED
      BY <3>1, Zenon
  <2> QED
    BY <2>1, <2>2
<1>3. ASSUME NEW p \in Acks, ReadyNotice(p) PROVE told[g].failed
  <2>1. told'[g].failed = told[g].failed
    BY <1>0, <1>3 DEF ReadyNotice
  <2> QED
    BY <2>1, Zenon
<1> QED
  BY <1>1, <1>2, <1>3, ToldMoves

\* A sign-in of one worker, no write of which raised after it took effect.
Smooth(h) == botched[h] = {} /\ ~Doubled(h)

\* Then, if it failed, it has no account, and no worker that could still save one.
FailedInv ==
  \A h \in Handoffs : Smooth(h) =>
    /\ \A w \in Workers :
         w[1] = h /\ pc[w] \in {"clear", "deny"} => \A a \in store : a.from # h
    /\ told[h].failed =>
         /\ \A w \in Workers : w[1] = h => pc[w] \in {"closing", "gone", "off"}
         /\ pc[<<h, 1>>] # "off"
         /\ \A a \in store : a.from # h

\* Of its two starts such a sign-in had the first.
LEMMA OneStart ==
  ASSUME SafeInv, NEW w \in Workers, ~Doubled(w[1]), pc[w] # "off"
  PROVE  w = <<w[1], 1>>
BY Pairs DEF Doubled, Starts

\* FailedInv is kept.
LEMMA FailedStep ==
  ASSUME SafeInv, FailedInv, [HandoffNext]_allVars
  PROVE  FailedInv'
<1>0. /\ pc \in [Procs -> PcStates] /\ \A a \in store : a.from \in Handoffs /\ a.by \in Starts
      /\ botched \in [Handoffs -> SUBSET {"save", "promote"}] /\ SafeInv'
  BY SafeStep DEF SafeInv, TypeInv, HandoffTypeOK, SharedTypeOK, Account
<1>1. ASSUME NEW a \in store', a \notin store
      PROVE  \E w \in Workers : w[1] = a.from /\ pc[w] = "save"
                               /\ (pc'[w] = "promote" \/ botched'[a.from] # {})
  <2>1. PICK w \in Workers : SaveCredential(w) /\ store' = Upsert(store, Envelope(w))
    BY <1>1, OnlySavesAdd
  <2>2. a = Envelope(w)
    BY <1>1, <2>1 DEF Upsert
  <2>3. a.from = w[1] /\ w[1] \in Handoffs /\ w \in Procs
    BY <2>2, ProcsDiffer DEF Envelope
  <2>4. store' # store
    BY <1>1
  <2>5. \/ Goto(w, "promote")
        \/ botched' = [botched EXCEPT ![w[1]] = @ \union {"save"}]
    BY <2>1, <2>4 DEF SaveCredential
  <2>6. pc'[w] = "promote" \/ "save" \in botched'[w[1]]
    BY <1>0, <2>3, <2>5 DEF Goto
  <2> QED
    BY <2>1, <2>3, <2>6 DEF SaveCredential
<1> SUFFICES ASSUME NEW h \in Handoffs, Smooth(h)'
    PROVE  /\ \A w \in Workers :
                w[1] = h /\ pc'[w] \in {"clear", "deny"} => \A a \in store' : a.from # h
           /\ told'[h].failed =>
                /\ \A w \in Workers : w[1] = h => pc'[w] \in {"closing", "gone", "off"}
                /\ pc'[<<h, 1>>] # "off"
                /\ \A a \in store' : a.from # h
  BY DEF FailedInv
<1>2. Smooth(h) /\ botched'[h] = {} /\ <<h, 1>> \in Workers /\ <<h, 1>>[1] = h
  BY BeenDoubled, Pairs DEF Smooth
<1>3. /\ \A v \in Workers : v[1] = h /\ pc'[v] # "off" => v = <<h, 1>>
      /\ \A v \in Workers : v[1] = h /\ pc[v] # "off" => v = <<h, 1>>
      /\ \A v \in Workers : v[1] = h => WorkerMoves(v)
  <2>1. ASSUME NEW v \in Workers, v[1] = h PROVE pc'[v] # "off" => v = <<h, 1>>
    BY <2>1, Pairs DEF Smooth, Doubled, Starts
  <2>2. ASSUME NEW v \in Workers, v[1] = h PROVE pc[v] # "off" => v = <<h, 1>>
    BY <1>2, <2>2, Pairs DEF Smooth, Doubled, Starts
  <2>3. ASSUME NEW v \in Workers, v[1] = h PROVE WorkerMoves(v)
    BY <1>2, <2>3, WorkersMove
  <2> QED
    BY <2>1, <2>2, <2>3
<1>4. \A a \in store : a.from = h => pc[<<h, 1>>] \notin Unsaved
  <2> SUFFICES ASSUME NEW a \in store, a.from = h PROVE pc[<<h, 1>>] \notin Unsaved
    OBVIOUS
  <2>1. <<h, a.by>> \in Workers /\ <<h, a.by>>[1] = h /\ pc[<<h, a.by>>] \notin Unsaved
    BY <1>0, Pairs DEF SafeInv, StoreInv
  <2> QED
    BY <1>3, <2>1 DEF Unsaved, Unwritten
<1>5. \A a \in store' : a.from = h /\ a \notin store => pc[<<h, 1>>] = "save" /\ pc'[<<h, 1>>] = "promote"
  BY <1>1, <1>2, <1>3
<1>6. ASSUME NEW w \in Workers, w[1] = h, pc'[w] \in {"clear", "deny"}
      PROVE  \A a \in store' : a.from # h
  <2>1. w = <<h, 1>> /\ pc[w] \in Unsaved \union {"clear", "deny"}
    BY <1>3, <1>6 DEF WorkerMoves
  <2>2. \A a \in store : a.from # h
    BY <1>2, <1>4, <1>6, <2>1 DEF FailedInv
  <2> QED
    BY <1>5, <1>6, <2>1, <2>2
<1>7. ASSUME told'[h].failed
      PROVE  /\ pc'[<<h, 1>>] \in {"closing", "gone"}
             /\ \A a \in store' : a.from # h
  <2>1. /\ pc'[<<h, 1>>] \in {"closing", "gone"}
        /\ \A a \in store : a.from # h
    <3>1. CASE told[h].failed
      <4>1. pc[<<h, 1>>] \in {"closing", "gone"} /\ \A a \in store : a.from # h
        BY <1>2, <3>1 DEF FailedInv
      <4> QED
        BY <1>2, <1>3, <4>1 DEF WorkerMoves
    <3>2. ASSUME NEW w \in Workers, w[1] = h, pc[w] = "deny", pc'[w] = "closing"
          PROVE  /\ pc'[<<h, 1>>] \in {"closing", "gone"}
                 /\ \A a \in store : a.from # h
      <4>1. w = <<h, 1>>
        BY <1>3, <3>2
      <4> QED
        BY <1>2, <3>2, <4>1 DEF FailedInv
    <3> QED
      BY <1>7, <3>1, <3>2, OnlyDenialsFail
  <2> QED
    BY <1>5, <2>1
<1>8. told'[h].failed => \A w \in Workers : w[1] = h => pc'[w] \in {"closing", "gone", "off"}
  BY <1>3, <1>7
<1>9. told'[h].failed => pc'[<<h, 1>>] # "off"
  BY <1>7
<1> QED
  BY <1>6, <1>7, <1>8, <1>9

\* A failure the user was told (_poll_and_install, run_worker) of a credential that
\* is on disk is of a sign-in that had two workers, or one a write of which raised
\* after the credential was there.
THEOREM FailedMeansUnsavedHolds == HandoffSpec => []FailedMeansUnsaved
<1>1. HandoffInit => FailedInv
  <2> SUFFICES ASSUME HandoffInit PROVE FailedInv
    OBVIOUS
  <2>1. store = {} /\ told = [h \in Handoffs |-> [ready |-> 0, failed |-> FALSE]]
    BY DEF HandoffInit, InitWith, SharedInit
  <2>2. \A h \in Handoffs : ~told[h].failed
    BY <2>1
  <2> QED
    BY <2>1, <2>2 DEF FailedInv
<1>2. SafeInv /\ FailedInv /\ [HandoffNext]_allVars => FailedInv'
  BY FailedStep
<1>3. FailedInv => FailedMeansUnsaved
  BY DEF FailedInv, FailedMeansUnsaved, Smooth
<1> QED
  BY <1>1, <1>2, <1>3, Safety, PTL DEF HandoffSpec

\* Inside an install the registry is as the checks found it.
AccountInv ==
  /\ Unambiguous(store)
  /\ \A w \in Workers : pc[w] \in {"receipt", "save"} => Admissible(w[1])

\* What the checks admit leaves the registry unambiguous.
LEMMA AdmittedIsUnambiguous ==
  ASSUME Unambiguous(store), NEW w \in Workers, Admissible(w[1])
  PROVE  Unambiguous(Upsert(store, Envelope(w)))
<1> DEFINE h == w[1]
           e == Envelope(w)
<1>1. e.id = handoff[h].target /\ e.subject = handoff[h].subject
  BY DEF Envelope
<1>2. \A b \in Upsert(store, e) : b = e \/ (b \in store /\ b.id # e.id /\ b.subject # e.subject)
  <2> SUFFICES ASSUME NEW b \in store, b.id # e.id, b.subject = e.subject PROVE FALSE
    BY DEF Upsert
  <2>1. CASE Adds(h)
    BY <1>1, <2>1 DEF Admissible
  <2>2. CASE ~Adds(h)
    BY <1>1, <2>2 DEF Admissible, Unambiguous
  <2> QED
    BY <2>1, <2>2
<1> HIDE DEF e
<1>3. Unambiguous(Upsert(store, e))
  BY <1>2 DEF Unambiguous, AccountInv
<1> QED
  BY <1>3 DEF e

\* An install that goes on finds the registry as it left it: it holds the lock,
\* or it has just taken it and done the checks.
LEMMA InstallGoesOn ==
  ASSUME SafeInv, [HandoffNext]_allVars, NEW g \in Workers, pc'[g] \in {"receipt", "save"}
  PROVE  /\ pc[g] \in {"install", "receipt", "save"}
         /\ store' = store
         /\ pc[g] = "install" => Admissible(g[1])
<1>0. /\ pc \in [Procs -> PcStates] /\ \A p \in Procs : Inside(p) <=> lock = p
      /\ pc[Tool] = "starting" => \A w \in Workers : w[1] = task.on => pc[w] = "off"
  BY DEF SafeInv, TypeInv, HandoffTypeOK, StartInv
<1> DEFINE Goal == /\ pc[g] \in {"install", "receipt", "save"}
                   /\ store' = store
                   /\ pc[g] = "install" => Admissible(g[1])
<1>1. CASE Connects
  BY <1>0, <1>1, ProcsDiffer
  DEF Connects, ConnectBegin, ConnectFindsStale, ConnectPosts, ConnectStarts,
      ConnectCannotSpawn, ConnectEnds, WipeForAssignment, CancelHandoffs, hvars, Inside,
      Goto, Leave, shared, Acks
<1>2. ASSUME NEW w \in Workers, Polls(w)
      PROVE  Goal
  BY <1>0, <1>2, ProcsDiffer
  DEF Polls, WorkerReadsKey, WorkerChecksMarker, WorkerPolls, WorkerClears, WorkerDenies,
      WorkerCloses, Inside, Goto, Leave, shared, Acks
<1>3. ASSUME NEW w \in Workers, Installs(w)
      PROVE  Goal
  BY <1>0, <1>3, ProcsDiffer
  DEF Installs, InstallSuperseded, InstallUnassigned, InstallRejected, InstallBegins,
      WriteReceipt, SaveCredential, PromoteReceipt, Inside, Goto, Leave, shared, Acks
<1>4. ASSUME NEW h \in Handoffs, RecoverBegins(h)
      PROVE  Goal
  BY <1>0, <1>4, ProcsDiffer
  DEF RecoverBegins, Inside, Goto, Leave, shared, Acks
<1>5. ASSUME NEW p \in Acks, Acknowledges(p)
      PROVE  Goal
  BY <1>0, <1>5, ProcsDiffer
  DEF Acks, Acknowledges, AckGivesUp, AckOrphaned, AckUnassigned, AckBegins, ClaimAccepted,
      ClaimUnanswered, RetireReceipt, ReadyNotice, Acknowledging, AfterAck,
      WipeForAssignment, CancelHandoffs, Inside, Goto, Leave, shared
<1>6. CASE HookReads \/ HookWipes
  BY <1>0, <1>6, ProcsDiffer
  DEF HookReads, HookWipes, WipeForAssignment, CancelHandoffs, Inside, Goto, Leave, shared,
      Acks
<1>7. CASE Environment \/ UNCHANGED allVars
  <2>1. pc'[g] = pc[g] /\ store' = store
    BY <1>0, <1>7, EnvironmentMoves
  <2> QED
    BY <2>1
<1> QED
  BY <1>1, <1>2, <1>3, <1>4, <1>5, <1>6, <1>7 DEF HandoffNext, Acks

\* AccountInv is kept.
LEMMA AccountStep ==
  ASSUME SafeInv, AccountInv, [HandoffNext]_allVars
  PROVE  AccountInv'
<1>0. pc \in [Procs -> PcStates] /\ \A p \in Procs : Inside(p) <=> lock = p
  BY DEF SafeInv, TypeInv, HandoffTypeOK
<1>1. Unambiguous(store')
  <2>1. CASE store' = store \/ store' = {}
    BY <2>1 DEF AccountInv, Unambiguous
  <2>2. ASSUME NEW w \in Workers, SaveCredential(w), store' = Upsert(store, Envelope(w))
        PROVE  Unambiguous(store')
    <3>1. Admissible(w[1])
      BY <2>2 DEF SaveCredential, AccountInv
    <3> QED
      BY <2>2, <3>1, AdmittedIsUnambiguous DEF AccountInv
  <2> QED
    BY <2>1, <2>2, RegistryMoves
<1>2. ASSUME NEW g \in Workers, pc'[g] \in {"receipt", "save"}
      PROVE  Admissible(g[1])'
  <2>1. pc[g] \in {"install", "receipt", "save"} /\ store' = store /\ Admissible(g[1])
    BY <1>0, <1>2, InstallGoesOn DEF AccountInv
  <2>2. /\ handoff'[g[1]].target = handoff[g[1]].target
        /\ handoff'[g[1]].subject = handoff[g[1]].subject
    BY <2>1, OpenedStays, ProcsDiffer DEF SafeInv, InstallInv
  <2> QED
    BY <2>1, <2>2 DEF Admissible, Adds
<1> QED
  BY <1>1, <1>2 DEF AccountInv

\* Neither a Google account nor a connection id is saved twice, and no save is
\* refused for it (_install_ready_credentials, _account_store_document).
THEOREM OneAccountEachHolds == HandoffSpec => []OneAccountEach
<1>1. HandoffInit => AccountInv
  <2> SUFFICES ASSUME HandoffInit PROVE AccountInv
    OBVIOUS
  <2>1. /\ store = {}
        /\ pc = [p \in Procs |-> IF p \in Workers THEN "off" ELSE "idle"]
    BY DEF HandoffInit, InitWith, SharedInit
  <2> QED
    BY <2>1, ProcsDiffer DEF AccountInv, Unambiguous
<1>2. SafeInv /\ AccountInv /\ [HandoffNext]_allVars => AccountInv'
  BY AccountStep
<1>3. AccountInv => OneAccountEach
  BY AdmittedIsUnambiguous DEF AccountInv, OneAccountEach
<1> QED
  BY <1>1, <1>2, <1>3, Safety, PTL DEF HandoffSpec

\* Who is about to send the notice of a sign-in, and whether its receipt is there or
\* may yet be written: its marker stands, or it is being started, or it may be.
Announces(p, h) == pc[p] = "notice" /\ On(p) = h

MayWrite(h) ==
  \/ receipt[h] # NoReceipt
  \/ active = h
  \/ pc[Tool] \in {"posting", "starting"} /\ task.on = h
  \/ handoff[h].status = "unused"

\* A sign-in still to be acknowledged has not been announced, and of those who
\* announce it there is one.
NoticeInv ==
  \A h \in Handoffs :
    /\ told[h].ready <= 1
    /\ MayWrite(h) => told[h].ready = 0 /\ \A p \in Acks : ~Announces(p, h)
    /\ \A p \in Acks : Announces(p, h) => told[h].ready = 0
    /\ \A p, q \in Acks : Announces(p, h) /\ Announces(q, h) => p = q

\* A receipt is written by a worker that is about to save, whose marker stands.
LEMMA ReceiptMoves ==
  ASSUME SafeInv, [HandoffNext]_allVars, NEW g \in Handoffs, receipt'[g] # NoReceipt
  PROVE  receipt[g] # NoReceipt \/ active = g
<1>0. receipt \in [Handoffs -> Starts \union {NoReceipt}]
  BY DEF SafeInv, TypeInv, HandoffTypeOK, SharedTypeOK
<1> DEFINE Goal == receipt[g] # NoReceipt \/ active = g
<1>1. CASE Connects
  BY <1>0, <1>1, ProcsDiffer
  DEF Connects, ConnectBegin, ConnectFindsStale, ConnectPosts, ConnectStarts,
      ConnectCannotSpawn, ConnectEnds, WipeForAssignment, CancelHandoffs, hvars, shared
<1>2. ASSUME NEW w \in Workers, Polls(w)
      PROVE  Goal
  BY <1>0, <1>2, ProcsDiffer
  DEF Polls, WorkerReadsKey, WorkerChecksMarker, WorkerPolls, WorkerClears, WorkerDenies,
      WorkerCloses, shared
<1>3. ASSUME NEW w \in Workers, Installs(w)
      PROVE  Goal
  <2>1. CASE SaveCredential(w)
    BY <1>0, <2>1, ProcsDiffer DEF SaveCredential
  <2>2. CASE WriteReceipt(w)
    <3>1. active = w[1] /\ w[1] \in Handoffs
      BY <2>2, ProcsDiffer DEF WriteReceipt, SafeInv, InstallInv
    <3> QED
      BY <1>0, <2>2, <3>1 DEF WriteReceipt
  <2> QED
    BY <1>0, <1>3, <2>1, <2>2
    DEF Installs, InstallSuperseded, InstallUnassigned, InstallRejected, InstallBegins,
        PromoteReceipt, CancelHandoffs, shared
<1>4. ASSUME NEW h \in Handoffs, RecoverBegins(h)
      PROVE  Goal
  BY <1>0, <1>4, ProcsDiffer
  DEF RecoverBegins, shared
<1>5. ASSUME NEW p \in Acks, Acknowledges(p)
      PROVE  Goal
  <2>1. p # Tool \/ pc[p] # "idle" => On(p) \in Handoffs
    BY OnHandoff, ProcsDiffer DEF SafeInv, On, Acks
  <2> QED
    BY <1>0, <1>5, <2>1
    DEF Acknowledges, AckGivesUp, AckOrphaned, AckUnassigned, AckBegins, ClaimAccepted,
        ClaimUnanswered, RetireReceipt, ReadyNotice, Acknowledging, shared
<1>6. CASE HookReads \/ HookWipes
  BY <1>0, <1>6, ProcsDiffer
  DEF HookReads, HookWipes, WipeForAssignment, CancelHandoffs, shared
<1>7. CASE Environment \/ UNCHANGED allVars
  BY <1>0, <1>7, ProcsDiffer
  DEF Environment, SignIn, PlatformEnds, Reassign, Crash, WipeCutShort, StartCutShort,
      allVars, hvars, shared
<1> QED
  BY <1>1, <1>2, <1>3, <1>4, <1>5, <1>6, <1>7 DEF HandoffNext, Acks

\* Only the start of a sign-in sets its marker.
LEMMA MarkerSet ==
  ASSUME SafeInv, [HandoffNext]_allVars, NEW g \in Handoffs, active' = g
  PROVE  active = g \/ (pc[Tool] = "starting" /\ task.on = g)
<1>0. None \notin Handoffs
  BY AccountsAssumption
<1>1. CASE Connects
  BY <1>0, <1>1
  DEF Connects, ConnectBegin, ConnectFindsStale, ConnectPosts, ConnectStarts,
      ConnectCannotSpawn, ConnectEnds, WipeForAssignment, CancelHandoffs, shared
<1>2. ASSUME NEW w \in Workers, Polls(w) PROVE active = g
  BY <1>0, <1>2
  DEF Polls, WorkerReadsKey, WorkerChecksMarker, WorkerPolls, WorkerClears, WorkerDenies,
      WorkerCloses, ClearMarker, shared
<1>3. ASSUME NEW w \in Workers, Installs(w) PROVE active = g
  BY <1>0, <1>3
  DEF Installs, InstallSuperseded, InstallUnassigned, InstallRejected, InstallBegins,
      WriteReceipt, SaveCredential, PromoteReceipt, CancelHandoffs, shared
<1>4. ASSUME NEW h \in Handoffs, RecoverBegins(h) PROVE active = g
  BY <1>4 DEF RecoverBegins, shared
<1>5. ASSUME NEW p \in Acks, Acknowledges(p) PROVE active = g
  BY <1>0, <1>5
  DEF Acknowledges, AckGivesUp, AckOrphaned, AckUnassigned, AckBegins, ClaimAccepted,
      ClaimUnanswered, RetireReceipt, ReadyNotice, WipeForAssignment, CancelHandoffs,
      ClearMarker, shared
<1>6. CASE HookReads \/ HookWipes
  BY <1>0, <1>6 DEF HookReads, HookWipes, WipeForAssignment, CancelHandoffs, shared
<1>7. CASE Environment \/ UNCHANGED allVars
  BY <1>0, <1>7
  DEF Environment, SignIn, PlatformEnds, Reassign, Crash, WipeCutShort, StartCutShort,
      allVars, shared
<1> QED
  BY <1>1, <1>2, <1>3, <1>4, <1>5, <1>6, <1>7 DEF HandoffNext, Acks

\* The tool call begins an unused sign-in, and goes on with the one it began.
LEMMA StartSet ==
  ASSUME SafeInv, [HandoffNext]_allVars, NEW g \in Handoffs,
         pc'[Tool] \in {"posting", "starting"}, task'.on = g
  PROVE  \/ handoff[g].status = "unused"
         \/ pc[Tool] \in {"posting", "starting"} /\ task.on = g
<1>0. pc \in [Procs -> PcStates]
  BY DEF SafeInv, TypeInv, HandoffTypeOK
<1>1. CASE Connects
  <2>1. ASSUME NEW h \in Handoffs, NEW target \in Handoffs, ConnectBegin(h, target)
        PROVE  handoff[g].status = "unused"
    BY <2>1 DEF ConnectBegin
  <2> QED
    BY <1>0, <1>1, <2>1, ProcsDiffer
    DEF Connects, ConnectFindsStale, ConnectPosts, ConnectStarts,
        ConnectCannotSpawn, ConnectEnds, hvars, Goto, Leave
<1>2. ASSUME NEW w \in Workers, Polls(w) \/ Installs(w)
      PROVE  pc[Tool] \in {"posting", "starting"} /\ task.on = g
  BY <1>0, <1>2, ProcsDiffer
  DEF Polls, WorkerReadsKey, WorkerChecksMarker, WorkerPolls, WorkerClears, WorkerDenies,
      WorkerCloses, Installs, InstallSuperseded, InstallUnassigned, InstallRejected,
      InstallBegins, WriteReceipt, SaveCredential, PromoteReceipt, Goto, Leave
<1>3. ASSUME NEW h \in Handoffs, RecoverBegins(h) PROVE FALSE
  BY <1>0, <1>3, ProcsDiffer DEF RecoverBegins, Goto
<1>4. ASSUME NEW p \in Acks, Acknowledges(p)
      PROVE  pc[Tool] \in {"posting", "starting"} /\ task.on = g
  BY <1>0, <1>4, ProcsDiffer
  DEF Acks, Acknowledges, AckGivesUp, AckOrphaned, AckUnassigned, AckBegins, ClaimAccepted,
      ClaimUnanswered, RetireReceipt, ReadyNotice, Acknowledging, AfterAck, Goto, Leave
<1>5. CASE HookReads \/ HookWipes
  BY <1>0, <1>5, ProcsDiffer DEF HookReads, HookWipes, Goto
<1>6. CASE Environment \/ UNCHANGED allVars
  BY <1>0, <1>6, EnvironmentMoves
<1> QED
  BY <1>1, <1>2, <1>3, <1>4, <1>5, <1>6 DEF HandoffNext, Acks

\* What may not be written any more stays so.
LEMMA MayWriteGoes ==
  ASSUME SafeInv, [HandoffNext]_allVars, NEW h \in Handoffs, MayWrite(h)'
  PROVE  MayWrite(h)
BY ReceiptMoves, MarkerSet, StartSet, OpenedStays DEF MayWrite, SafeInv

\* Every other step leaves the notices and those who are about to send one.
NoticesStay ==
  /\ \A h \in Handoffs : told'[h].ready = told[h].ready
  /\ \A p \in Acks : pc'[p] = "notice" => pc[p] = "notice" /\ On(p)' = On(p)

\* Neither a retirement nor an announcement: no notice, and none to come.
LEMMA OthersAreSilent ==
  ASSUME SafeInv, [HandoffNext]_allVars,
         ~ \E p \in Acks : RetireReceipt(p) \/ ReadyNotice(p)
  PROVE  NoticesStay
<1>0. /\ pc \in [Procs -> PcStates]
      /\ told \in [Handoffs -> [ready : Nat, failed : BOOLEAN]]
      /\ pc[Tool] \in {"starting"} => task.on \in Handoffs
  BY DEF SafeInv, TypeInv, HandoffTypeOK, ToolInv
<1>1. CASE Connects
  BY <1>0, <1>1, ProcsDiffer
  DEF Connects, ConnectBegin, ConnectFindsStale, ConnectPosts, ConnectStarts,
      ConnectCannotSpawn, ConnectEnds, WipeForAssignment, CancelHandoffs, hvars,
      NoticesStay, On, Acks, Goto, Leave, shared
<1>2. ASSUME NEW w \in Workers, Polls(w)
      PROVE  NoticesStay
  BY <1>0, <1>2, ProcsDiffer
  DEF Polls, WorkerReadsKey, WorkerChecksMarker, WorkerPolls, WorkerClears, WorkerDenies,
      WorkerCloses, NoticesStay, On, Acks, Goto, Leave, shared
<1>3. ASSUME NEW w \in Workers, Installs(w)
      PROVE  NoticesStay
  BY <1>0, <1>3, ProcsDiffer
  DEF Installs, InstallSuperseded, InstallUnassigned, InstallRejected, InstallBegins,
      WriteReceipt, SaveCredential, PromoteReceipt, NoticesStay, On, Acks, Goto, Leave,
      shared
<1>4. ASSUME NEW h \in Handoffs, RecoverBegins(h)
      PROVE  NoticesStay
  BY <1>0, <1>4, ProcsDiffer
  DEF RecoverBegins, NoticesStay, On, Acks, Goto, Leave, shared
<1>5. ASSUME NEW p \in Acks, Acknowledges(p)
      PROVE  NoticesStay
  <2>1. ~RetireReceipt(p) /\ ~ReadyNotice(p)
    OBVIOUS
  <2> QED
    BY <1>0, <1>5, <2>1, ProcsDiffer
    DEF Acknowledges, AckGivesUp, AckOrphaned, AckUnassigned, AckBegins, ClaimAccepted,
        ClaimUnanswered, Acknowledging, AfterAck, NoticesStay, On, Acks, Goto, Leave, shared
<1>6. CASE HookReads \/ HookWipes
  BY <1>0, <1>6, ProcsDiffer
  DEF HookReads, HookWipes, WipeForAssignment, CancelHandoffs, NoticesStay, On, Acks, Goto,
      Leave, shared
<1>7. CASE Environment \/ UNCHANGED allVars
  <2>1. told' = told /\ task' = task
    BY <1>7
    DEF Environment, SignIn, PlatformEnds, Reassign, Crash, WipeCutShort, StartCutShort,
        allVars, hvars
  <2>2. \A p \in Acks : pc'[p] = "notice" => pc[p] = "notice"
    <3>1. ASSUME NEW q \in Procs, Crash(q) \/ WipeCutShort(q)
          PROVE  \A p \in Acks : pc'[p] = "notice" => pc[p] = "notice"
      BY <1>0, <3>1, ProcsDiffer DEF Crash, WipeCutShort, Goto, Acks
    <3>2. ASSUME StartCutShort PROVE \A p \in Acks : pc'[p] = "notice" => pc[p] = "notice"
      BY <1>0, <3>2, ProcsDiffer DEF StartCutShort, Goto, Leave, Acks
    <3>3. CASE pc' = pc
      BY <3>3
    <3> QED
      BY <1>7, <3>1, <3>2, <3>3
      DEF Environment, SignIn, PlatformEnds, Reassign, allVars, hvars
  <2> QED
    BY <2>1, <2>2 DEF NoticesStay, On
<1> QED
  BY <1>1, <1>2, <1>3, <1>4, <1>5, <1>6, <1>7 DEF HandoffNext, Acks

\* NoticeInv is kept.
LEMMA NoticeStep ==
  ASSUME SafeInv, NoticeInv, [HandoffNext]_allVars
  PROVE  NoticeInv'
<1>0. /\ pc \in [Procs -> PcStates] /\ Acks \subseteq Procs /\ Workers \subseteq Acks
      /\ told \in [Handoffs -> [ready : Nat, failed : BOOLEAN]]
      /\ receipt \in [Handoffs -> Starts \union {NoReceipt}]
  BY ProcsDiffer DEF SafeInv, TypeInv, HandoffTypeOK, SharedTypeOK, Acks
<1>1. \A h \in Handoffs : MayWrite(h)' => MayWrite(h)
  BY MayWriteGoes
<1>2. ASSUME NEW p \in Acks, RetireReceipt(p) PROVE NoticeInv'
  <2>1. /\ pc[p] = "retire" /\ On(p) \in Handoffs
        /\ told' = told /\ task' = task
        /\ pc' = [pc EXCEPT ![p] = "notice"]
        /\ receipt' = [receipt EXCEPT ![On(p)] = NoReceipt]
    BY <1>2, OnHandoff DEF RetireReceipt, Goto, Leave, SafeInv
  <2>2. receipt[On(p)] # NoReceipt
    BY <2>1 DEF SafeInv, AckInv
  <2>3. /\ \A q \in Acks : On(q)' = On(q) /\ (q # p => pc'[q] = pc[q])
        /\ pc'[p] = "notice" /\ receipt'[On(p)] = NoReceipt
    BY <1>0, <2>1 DEF On
  <2>4. /\ told[On(p)].ready = 0
        /\ \A q \in Acks : ~Announces(q, On(p))
    BY <2>1, <2>2 DEF NoticeInv, MayWrite
  <2>5. ~MayWrite(On(p))'
    <3>1. handoff'[On(p)].status = "claimed"
      BY <1>2, <2>1 DEF RetireReceipt, SafeInv, AckInv
    <3>2. active' # On(p)
      BY <1>2, <2>1, AccountsAssumption DEF RetireReceipt, ClearMarker
    <3>3. pc'[Tool] \notin {"posting", "starting"}
      BY <1>0, <2>1, <2>3, ProcsDiffer DEF Inside, SafeInv, TypeInv, HandoffTypeOK
    <3> QED
      BY <2>3, <3>1, <3>2, <3>3 DEF MayWrite
  <2> QED
    BY <1>0, <1>1, <2>1, <2>3, <2>4, <2>5 DEF NoticeInv, Announces
<1>3. ASSUME NEW p \in Acks, ReadyNotice(p) PROVE NoticeInv'
  <2>1. /\ pc[p] = "notice" /\ On(p) \in Handoffs
        /\ told' = [told EXCEPT ![On(p)].ready = told[On(p)].ready + 1]
        /\ task' = task /\ receipt' = receipt
        /\ pc' = [pc EXCEPT ![p] = AfterAck(p)] /\ AfterAck(p) \in {"idle", "closing"}
    BY <1>3, OnHandoff DEF ReadyNotice, Goto, shared, SafeInv, AfterAck
  <2>2. /\ \A q \in Acks : On(q)' = On(q) /\ (q # p => pc'[q] = pc[q])
        /\ pc'[p] \in {"idle", "closing"}
    BY <1>0, <2>1 DEF On
  <2>3. Announces(p, On(p))
    BY <2>1 DEF Announces
  <2>4. /\ told[On(p)].ready = 0 /\ \A q \in Acks : Announces(q, On(p)) => q = p
    BY <2>1, <2>3 DEF NoticeInv
  <2>5. /\ told'[On(p)].ready = 1
        /\ \A h \in Handoffs : h # On(p) => told'[h] = told[h]
    BY <1>0, <2>1, <2>4
  <2>6. ~MayWrite(On(p))
    BY <2>1, <2>3 DEF NoticeInv
  <2> QED
    BY <1>0, <1>1, <2>1, <2>2, <2>3, <2>4, <2>5, <2>6 DEF NoticeInv, Announces
<1>4. CASE ~ \E p \in Acks : RetireReceipt(p) \/ ReadyNotice(p)
  BY <1>1, <1>4, OthersAreSilent DEF NoticesStay, NoticeInv, Announces
<1> QED
  BY <1>2, <1>3, <1>4

\* The user is told of one success at most for a sign-in, whichever of its
\* worker and the later tool calls acknowledges the install
\* (_acknowledge_install_receipt).
THEOREM OneReadyNoticeHolds == HandoffSpec => []OneReadyNotice
<1>1. HandoffInit => NoticeInv
  <2> SUFFICES ASSUME HandoffInit PROVE NoticeInv
    OBVIOUS
  <2>1. /\ pc = [p \in Procs |-> IF p \in Workers THEN "off" ELSE "idle"]
        /\ told = [h \in Handoffs |-> [ready |-> 0, failed |-> FALSE]]
    BY DEF HandoffInit, InitWith, SharedInit
  <2>2. \A p \in Acks : pc[p] # "notice"
    BY <2>1, ProcsDiffer DEF Acks
  <2>3. \A h \in Handoffs : told[h].ready = 0
    BY <2>1
  <2> QED
    BY <2>2, <2>3 DEF NoticeInv, Announces
<1>2. SafeInv /\ NoticeInv /\ [HandoffNext]_allVars => NoticeInv'
  BY NoticeStep
<1>3. NoticeInv => OneReadyNotice
  BY DEF NoticeInv, OneReadyNotice
<1> QED
  BY <1>1, <1>2, <1>3, Safety, PTL DEF HandoffSpec

-----------------------------------------------------------------------------
(* Sign-ins, revocations and refreshes together: types, and the lock.      *)

Revokers == Deleters \union {Asker}

IntentRecord ==
  [status : {"unused", "created", "offered", "confirmed", "disconnected", "ended"},
   id : Handoffs \union {None}, claimed : BOOLEAN]

KeptStates == {"none", "state", "delete_pending", "disconnected", "expired"}

\* The types of the revocation's and the refresh's variables, and that a
\* process of a revocation holds the lock exactly where it stands inside it.
RevokeTypes ==
  /\ intent \in [Intents -> IntentRecord]
  /\ kept \in [Intents -> KeptStates]
  /\ expect \in [Intents -> Account \union {None}]
  /\ dpc \in [Revokers -> DpcStates]
  /\ dpc[Asker] # "idle" => asked \in Intents
  /\ refresher = "sent" => base \in Account

Holds(p) == dpc[p] \in {"await", "claim", "unlink", "promote"}

RevokeInv == RevokeTypes /\ \A p \in Revokers : Holds(p) <=> lock = p

\* Sign-ins and revocations are different processes.
LEMMA RevokersDiffer ==
  /\ \A p \in Revokers : p \notin Procs /\ p # None
  /\ Asker \in Revokers /\ Asker \notin Deleters
  /\ \A i \in Intents, c \in Copies :
       /\ <<i, c>> \in Revokers /\ <<i, c>> \in Deleters /\ <<i, c>> # Asker
       /\ \A j \in Intents, d \in Copies : <<i, c>> = <<j, d>> => i = j /\ c = d
BY ProcessesAssumption, DisconnectAssumption DEF Revokers, Deleters

-----------------------------------------------------------------------------
(* What one step does to one revocation.                                   *)

\* Where the tool call stands with a revocation.
AskerAt(i) == IF asked = i THEN dpc[Asker] ELSE "idle"

\* What may happen to the platform's record of a revocation.
Ended(i) ==
  /\ Open(i) /\ intent'[i].status = "ended"
  /\ intent'[i].id = intent[i].id /\ intent'[i].claimed = intent[i].claimed

Failed(i) == intent'[i] = intent[i] \/ Ended(i)

Claimed(i) ==
  /\ intent[i].status = "confirmed" /\ intent'[i].status = "confirmed"
  /\ intent'[i].id = intent[i].id /\ intent'[i].claimed

Becomes(i, s) ==
  /\ intent'[i].status = s
  /\ intent'[i].id = intent[i].id /\ intent'[i].claimed = intent[i].claimed

\* Only the places, only the directory, or neither, changes.
Quiet == store' = store /\ active' = active /\ lock' = lock
Plain(i) == intent'[i] = intent[i] /\ kept'[i] = kept[i] /\ Quiet
Recorded(i, phase) == kept'[i] = IF kept[i] = "none" THEN "none" ELSE phase

\* A worker before it has decided anything.
Waits(i, c) ==
  LET w == <<i, c>> IN
  /\ Plain(i)
  /\ \/ dpc[w] = "starting" /\ kept[i] = "none" /\ dpc'[w] = "gone"
     \/ dpc[w] = "starting" /\ kept[i] = "state" /\ dpc'[w] = "loop"
     \/ dpc[w] = "starting" /\ kept[i] = "delete_pending" /\ dpc'[w] = "resume"
     \/ dpc[w] = "starting" /\ kept[i] = "disconnected" /\ dpc'[w] = "report"
     \/ dpc[w] = "starting" /\ kept[i] = "expired" /\ dpc'[w] = "expire"
     \/ dpc[w] = "loop" /\ dpc'[w] = "poll"
     \/ dpc[w] = "poll" /\ dpc'[w] \in {"loop", "retract"}
     \/ dpc[w] = "poll" /\ dpc'[w] = "delete" /\ intent[i].status = "confirmed"

\* The account goes, and every sign-in under way loses its marker.
Deletes(i) == store' = {a \in store : a.id # expect[i].id} /\ active' = None

\* A worker that gives up, and what it leaves.
GivesUp(i, c) ==
  LET w == <<i, c>> IN
  /\ dpc'[w] = "gone"
  /\ \/ dpc[w] \in {"starting", "resume"} /\ intent'[i] = intent[i] /\ Quiet
        /\ kept'[i] = IF kept[i] = "state" THEN "none" ELSE kept[i]
     \/ dpc[w] = "loop" /\ kept[i] \in {"delete_pending", "disconnected"} /\ Plain(i)
     \/ dpc[w] \in {"loop", "retract", "delete"} /\ kept'[i] = "none" /\ Failed(i) /\ Quiet
        /\ (Ended(i) => lock = None)
     \/ dpc[w] \in {"claim", "unlink"} /\ kept'[i] = "none" /\ Failed(i)
        /\ lock' = None /\ active' \in {active, None} /\ store' = store
     \/ dpc[w] = "unlink" /\ kept'[i] = "none" /\ Failed(i) /\ Deletes(i) /\ lock' = None
     \/ dpc[w] = "claim" /\ kept'[i] = kept[i] /\ lock' = None /\ active' = active
        /\ store' = store
        /\ (intent'[i] = intent[i] \/ Claimed(i))
     \/ dpc[w] = "resume" /\ kept'[i] = "none" /\ intent'[i] = intent[i] /\ Quiet
        /\ intent[i].status # "confirmed"
     \/ dpc[w] \in {"report", "expire", "lapse"} /\ Plain(i)

\* A worker on its way to the deletion and from it.
GoesOn(i, c) ==
  LET w == <<i, c>> IN
  \/ /\ dpc[w] = "loop" /\ dpc'[w] = "lapse"
     /\ kept[i] \notin {"delete_pending", "disconnected"} /\ Recorded(i, "expired")
     /\ intent'[i] = intent[i] /\ Quiet
  \/ /\ dpc[w] = "delete" /\ dpc'[w] = "claim" /\ Unchanged(i)
     /\ kept[i] \in {"none", "state", "delete_pending"} /\ Recorded(i, "delete_pending")
     /\ intent'[i] = intent[i]
     /\ lock = None /\ lock' = w /\ store' = store /\ active' = active
  \/ /\ dpc[w] = "claim" /\ dpc'[w] = IF Saved(expect[i].id) THEN "unlink" ELSE "promote"
     /\ Claimed(i) /\ kept'[i] = kept[i] /\ Quiet
  \/ /\ dpc[w] = "unlink" /\ dpc'[w] = "promote"
     /\ intent'[i] = intent[i] /\ kept'[i] = kept[i]
     /\ Deletes(i) /\ lock' = lock
  \/ /\ dpc[w] = "promote" /\ dpc'[w] = "report"
     /\ kept'[i] = kept[i] \/ Recorded(i, "disconnected")
     /\ intent'[i] = intent[i]
     /\ lock' = None /\ store' = store /\ active' = active
  \/ /\ dpc[w] = "resume" /\ dpc'[w] = "loop" /\ Saved(expect[i].id)
     /\ Claimed(i) /\ kept'[i] = kept[i] /\ Quiet /\ lock = None
  \/ /\ dpc[w] = "resume" /\ dpc'[w] = "report" /\ ~Saved(expect[i].id)
     /\ Claimed(i) /\ Recorded(i, "disconnected") /\ Quiet

\* A worker that has been heard.
IsHeard(i, c) ==
  LET w == <<i, c>> IN
  /\ dpc'[w] = "gone" /\ kept'[i] = "none" /\ Quiet
  /\ \/ /\ dpc[w] = "report"
        /\ \/ intent[i].status = "confirmed" /\ intent[i].claimed
           \/ intent[i].status = "disconnected"
        /\ Becomes(i, "disconnected")
     \/ dpc[w] \in {"expire", "lapse"} /\ Failed(i) /\ (dpc[w] = "lapse" => lock = None)
        /\ intent'[i].status \in {"unused", "disconnected", "ended"}

\* The tool call, as one revocation sees it.
Answers(i) ==
  \/ /\ AskerAt(i) = "idle" /\ AskerAt(i)' = "offer"
     /\ intent[i].status = "unused" /\ intent'[i].status = "created"
     /\ intent'[i].claimed = intent[i].claimed
     /\ expect'[i] \in store /\ intent'[i].id = expect'[i].id
     /\ kept'[i] = kept[i] /\ Quiet
  \/ /\ expect'[i] = expect[i] /\ Plain(i)
     /\ \/ AskerAt(i) = "offer" /\ AskerAt(i)' = "undo"
        \/ AskerAt(i) # "idle" /\ AskerAt(i)' = "idle"
  \/ /\ expect'[i] = expect[i] /\ intent'[i] = intent[i] /\ kept'[i] = kept[i]
     /\ AskerAt(i) # "idle" /\ AskerAt(i)' \in {"activate", "unstarted", "idle"}
     /\ AskerAt(i)' # "idle" => AskerAt(i) = "await"
     /\ store' = store /\ active' = active
     /\ lock = Asker /\ lock' = None
  \/ /\ expect'[i] = expect[i] /\ kept'[i] = kept[i] /\ Quiet
     /\ AskerAt(i) = "activate" /\ AskerAt(i)' \in {"idle", "undo"}
     /\ \/ intent'[i] = intent[i]
        \/ intent[i].status = "created" /\ Becomes(i, "offered")
  \/ /\ expect'[i] = expect[i] /\ Failed(i) /\ Quiet /\ lock = None
     /\ AskerAt(i) \in {"undo", "unstarted"} /\ AskerAt(i)' = "idle"
     /\ kept'[i] = IF AskerAt(i) = "unstarted" THEN "none" ELSE kept[i]
  \/ /\ expect'[i] = expect[i] /\ intent'[i] = intent[i] /\ Quiet
     /\ AskerAt(i) = "offer" /\ AskerAt(i)' = "idle" /\ kept'[i] = "state"

\* The user, the platform and the sweep of what nobody needs.
Happens(i) ==
  \/ /\ kept'[i] = kept[i] /\ Quiet
     /\ \/ intent[i].status = "offered" /\ Becomes(i, "confirmed")
        \/ Open(i) /\ ~intent[i].claimed /\ Becomes(i, "ended")
  \/ /\ intent'[i] = intent[i] /\ kept'[i] = "none" /\ Quiet
     /\ kept[i] = "state" /\ AskerAt(i) = "idle"
     /\ \A c \in Copies : dpc[<<i, c>>] \in {"off", "gone"}

\* A worker that starts or dies.
ComesOrGoes(i, c) ==
  LET w == <<i, c>> IN
  /\ intent'[i] = intent[i] /\ kept'[i] = kept[i] /\ store' = store /\ active' = active
  /\ \/ /\ kept[i] \in {"delete_pending", "disconnected", "expired"}
        /\ dpc[w] \in {"off", "gone"} /\ dpc'[w] = "starting" /\ lock' = lock
     \/ /\ dpc[w] \notin {"idle", "off", "gone"} /\ dpc'[w] = "gone"
        /\ lock' = IF lock = w THEN None ELSE lock

\* The state and the marker are written and the first worker is spawned, or two.
Spawns(i) ==
  /\ AskerAt(i) = "offer" /\ AskerAt(i)' = "await"
  /\ intent'[i] = intent[i] /\ expect'[i] = expect[i] /\ kept'[i] = "state"
  /\ \A c \in Copies : dpc'[<<i, c>>] \in {dpc[<<i, c>>], "starting"}
  /\ \E c, d \in Copies : \A e \in Copies : e \in {c, d} \/ dpc'[<<i, e>>] = dpc[<<i, e>>]
  /\ lock = None /\ lock' = Asker /\ store' = store /\ active' = active

\* What a step leaves as it was.
Stands(i, c) == dpc'[<<i, c>>] = dpc[<<i, c>>]

Same(i) ==
  /\ intent'[i] = intent[i] /\ kept'[i] = kept[i] /\ expect'[i] = expect[i]
  /\ AskerAt(i)' = AskerAt(i)
  /\ \A c \in Copies : Stands(i, c)

\* One step, as one revocation sees it.
WorkerTurns(i, c) == Waits(i, c) \/ GivesUp(i, c) \/ GoesOn(i, c) \/ IsHeard(i, c) \/ ComesOrGoes(i, c)

RevocationMoves(i) ==
  \/ Same(i)
  \/ Answers(i) /\ \A c \in Copies : Stands(i, c)
  \/ /\ Happens(i) /\ expect'[i] = expect[i] /\ AskerAt(i)' = AskerAt(i)
     /\ \A c \in Copies : Stands(i, c)
  \/ Spawns(i)
  \/ \E c \in Copies :
       /\ \A d \in Copies : d # c => Stands(i, d)
       /\ expect'[i] = expect[i] /\ AskerAt(i)' = AskerAt(i)
       /\ WorkerTurns(i, c)

\* A process of a revocation goes to its place, the others stay.
LEMMA ToMoves ==
  ASSUME RevokeTypes, NEW p \in Revokers, NEW where, To(p, where)
  PROVE  dpc'[p] = where /\ \A q \in Revokers : q # p => dpc'[q] = dpc[q]
BY DEF RevokeTypes, To

\* What the writes to a revocation's directory do.
LEMMA DirectoryMoves ==
  ASSUME RevokeTypes, NEW i \in Intents
  PROVE  /\ Drop(i) => kept'[i] = "none"
         /\ \A phase : Record(i, phase) => Recorded(i, phase)
         /\ Drop(i) \/ (\E phase : Record(i, phase)) =>
              \A j \in Intents : j # i => kept'[j] = kept[j]
<1>1. kept \in [Intents -> KeptStates]
  BY DEF RevokeTypes
<1>2. ASSUME NEW x, kept' = [kept EXCEPT ![i] = x]
      PROVE  kept'[i] = x /\ \A j \in Intents : j # i => kept'[j] = kept[j]
  BY <1>1, <1>2
<1>3. Drop(i) => kept'[i] = "none" /\ \A j \in Intents : j # i => kept'[j] = kept[j]
  BY <1>2 DEF Drop
<1>4. ASSUME NEW phase, Record(i, phase)
      PROVE  Recorded(i, phase) /\ \A j \in Intents : j # i => kept'[j] = kept[j]
  BY <1>2, <1>4 DEF Record, Recorded
<1> QED
  BY <1>3, <1>4

\* What a change of one field of the platform's record does.
LEMMA RecordOf ==
  ASSUME RevokeTypes, NEW i \in Intents
  PROVE  /\ \A s : intent' = [intent EXCEPT ![i].status = s] =>
              Becomes(i, s) /\ \A j \in Intents : j # i => intent'[j] = intent[j]
         /\ \A b : intent' = [intent EXCEPT ![i].claimed = b] =>
              /\ intent'[i].claimed = b /\ intent'[i].status = intent[i].status
              /\ intent'[i].id = intent[i].id
              /\ \A j \in Intents : j # i => intent'[j] = intent[j]
<1>1. intent \in [Intents -> IntentRecord] /\ intent[i] \in IntentRecord
  BY DEF RevokeTypes
<1>2. ASSUME NEW s, intent' = [intent EXCEPT ![i].status = s]
      PROVE  Becomes(i, s) /\ \A j \in Intents : j # i => intent'[j] = intent[j]
  <2>1. intent'[i] = [intent[i] EXCEPT !.status = s]
        /\ \A j \in Intents : j # i => intent'[j] = intent[j]
    BY <1>1, <1>2
  <2> QED
    BY <1>1, <2>1 DEF IntentRecord, Becomes
<1>3. ASSUME NEW b, intent' = [intent EXCEPT ![i].claimed = b]
      PROVE  /\ intent'[i].claimed = b /\ intent'[i].status = intent[i].status
             /\ intent'[i].id = intent[i].id
             /\ \A j \in Intents : j # i => intent'[j] = intent[j]
  <2>1. intent'[i] = [intent[i] EXCEPT !.claimed = b]
        /\ \A j \in Intents : j # i => intent'[j] = intent[j]
    BY <1>1, <1>3
  <2> QED
    BY <1>1, <2>1 DEF IntentRecord
<1> QED
  BY <1>2, <1>3

\* An intent that is reported to have failed ends, if the report arrives.
LEMMA FailureOf ==
  ASSUME RevokeTypes, NEW i \in Intents,
         \/ CompleteFailed(i)
         \/ intent' = [intent EXCEPT ![i].status = IF Open(i) THEN "ended" ELSE @]
  PROVE  Failed(i) /\ \A j \in Intents : j # i => intent'[j] = intent[j]
<1>1. intent \in [Intents -> IntentRecord] /\ intent[i] \in IntentRecord
  BY DEF RevokeTypes
<1>2. CASE intent' = intent
  BY <1>2 DEF Failed
<1>3. CASE intent' = [intent EXCEPT ![i].status = IF Open(i) THEN "ended" ELSE @]
  <2>1. CASE Open(i)
    <3>1. intent' = [intent EXCEPT ![i].status = "ended"]
      BY <1>3, <2>1
    <3> QED
      BY <2>1, <3>1, RecordOf DEF Becomes, Failed, Ended
  <2>2. CASE ~Open(i)
    <3>1. intent' = [intent EXCEPT ![i].status = intent[i].status]
      BY <1>3, <2>2
    <3>2. intent'[i] = [intent[i] EXCEPT !.status = intent[i].status]
          /\ \A j \in Intents : j # i => intent'[j] = intent[j]
      BY <1>1, <3>1
    <3>3. intent'[i] = intent[i]
      BY <1>1, <3>2 DEF IntentRecord
    <3> QED
      BY <3>2, <3>3 DEF Failed
  <2> QED
    BY <2>1, <2>2
<1> QED
  BY <1>2, <1>3 DEF CompleteFailed


\* A worker's step is one of its own revocation, and of that worker.
LEMMA WorkerStep ==
  ASSUME RevokeInv, NEW i \in Intents, NEW c \in Copies, Revokes(<<i, c>>)
  PROVE  /\ \A q \in Revokers : q # <<i, c>> => dpc'[q] = dpc[q]
         /\ \A j \in Intents : j # i => intent'[j] = intent[j] /\ kept'[j] = kept[j]
         /\ expect' = expect /\ asked' = asked
         /\ Waits(i, c) \/ GivesUp(i, c) \/ GoesOn(i, c) \/ IsHeard(i, c)
<1> DEFINE w == <<i, c>>
<1> DEFINE Goal == /\ \A q \in Revokers : q # w => dpc'[q] = dpc[q]
                   /\ \A j \in Intents : j # i => intent'[j] = intent[j] /\ kept'[j] = kept[j]
                   /\ expect' = expect /\ asked' = asked
                   /\ Waits(i, c) \/ GivesUp(i, c) \/ GoesOn(i, c) \/ IsHeard(i, c)
<1>1. w \in Revokers /\ w[1] = i /\ RevokeTypes
  BY RevokersDiffer DEF RevokeInv
<1>2. \A where : To(w, where) => dpc'[w] = where /\ \A q \in Revokers : q # w => dpc'[q] = dpc[q]
  BY <1>1, ToMoves
<1>3. /\ Drop(i) => kept'[i] = "none"
      /\ \A phase : Record(i, phase) => Recorded(i, phase)
      /\ Drop(i) \/ (\E phase : Record(i, phase)) => \A j \in Intents : j # i => kept'[j] = kept[j]
  BY <1>1, DirectoryMoves
<1>4. /\ \A s : intent' = [intent EXCEPT ![i].status = s] =>
           Becomes(i, s) /\ \A j \in Intents : j # i => intent'[j] = intent[j]
      /\ \A b : intent' = [intent EXCEPT ![i].claimed = b] =>
           /\ intent'[i].claimed = b /\ intent'[i].status = intent[i].status
           /\ intent'[i].id = intent[i].id
           /\ \A j \in Intents : j # i => intent'[j] = intent[j]
  BY <1>1, RecordOf
<1>5. CompleteFailed(i) \/ intent' = [intent EXCEPT ![i].status = IF Open(i) THEN "ended" ELSE @]
        => Failed(i) /\ \A j \in Intents : j # i => intent'[j] = intent[j]
  BY <1>1, FailureOf
<1>6. kept \in [Intents -> KeptStates] /\ intent \in [Intents -> IntentRecord]
  BY <1>1 DEF RevokeTypes
<1>10. ASSUME WorkerStarts(w) PROVE Goal
  BY <1>10, <1>1, <1>2, <1>3, <1>4, <1>5, <1>6 DEF WorkerStarts, Waits, Plain, Quiet, shared, KeptStates
<1>11. ASSUME WorkerFails(w) PROVE Goal
  BY <1>11, <1>1, <1>2, <1>3, <1>4, <1>5, <1>6 DEF WorkerFails, GivesUp, Quiet, Plain, shared
<1>12. ASSUME WorkerLooks(w) PROVE Goal
  BY <1>12, <1>1, <1>2, <1>3, <1>4, <1>5, <1>6 DEF WorkerLooks, Waits, GivesUp, Plain, Quiet, shared, Failed
<1>13. ASSUME WorkerAsks(w) PROVE Goal
  BY <1>13, <1>1, <1>2, <1>3, <1>4, <1>5, <1>6 DEF WorkerAsks, Waits, Plain, Quiet, shared
<1>14. ASSUME WorkerRetracts(w) PROVE Goal
  BY <1>14, <1>1, <1>2, <1>3, <1>4, <1>5, <1>6 DEF WorkerRetracts, GivesUp, Quiet, Failed
<1>15. ASSUME WorkerIsLate(w) PROVE Goal
  <2>1. /\ dpc[w] = "loop" /\ intent' = intent /\ Quiet
        /\ expect' = expect /\ asked' = asked
        /\ \/ kept[i] \in {"delete_pending", "disconnected"} /\ kept' = kept /\ To(w, "gone")
           \/ kept[i] \notin {"delete_pending", "disconnected"} /\ Record(i, "expired") /\ To(w, "lapse")
           \/ Drop(i) /\ To(w, "gone")
    BY <1>15, <1>1 DEF WorkerIsLate, Quiet, shared
  <2>2. CASE kept[i] \in {"delete_pending", "disconnected"} /\ kept' = kept /\ To(w, "gone")
    BY <2>1, <2>2, <1>2 DEF GivesUp, Plain, Quiet
  <2>3. CASE kept[i] \notin {"delete_pending", "disconnected"} /\ Record(i, "expired") /\ To(w, "lapse")
    BY <2>1, <2>3, <1>2, <1>3 DEF GoesOn
  <2>4. CASE Drop(i) /\ To(w, "gone")
    BY <2>1, <2>4, <1>2, <1>3 DEF GivesUp, Quiet, Failed, Ended, Open
  <2> QED
    BY <2>1, <2>2, <2>3, <2>4
<1>16. ASSUME DeleteRefused(w) PROVE Goal
  BY <1>16, <1>1, <1>2, <1>3, <1>4, <1>5, <1>6 DEF DeleteRefused, GivesUp, Quiet, Failed
<1>17. ASSUME DeleteBegins(w) PROVE Goal
  BY <1>17, <1>1, <1>2, <1>3, <1>4, <1>5, <1>6 DEF DeleteBegins, GivesUp, GoesOn, Quiet, Failed
<1>18. ASSUME ClaimConfirmed(w) PROVE Goal
  BY <1>18, <1>1, <1>2, <1>3, <1>4, <1>5, <1>6 DEF ClaimConfirmed, GoesOn, Quiet, Claimed, shared
<1>19. ASSUME ClaimTooLate(w) PROVE Goal
  BY <1>19, <1>1, <1>2, <1>3, <1>4, <1>5, <1>6 DEF ClaimTooLate, GivesUp, Failed, Exit
<1>20. ASSUME ClaimLost(w) PROVE Goal
  <2> DEFINE b == intent[i].claimed \/ intent[i].status = "confirmed"
  <2>1. /\ dpc[w] = "claim" /\ To(w, "gone") /\ lock' = None /\ store' = store
        /\ active' = active /\ expect' = expect /\ asked' = asked
        /\ \/ CompleteFailed(i) /\ Drop(i)
           \/ intent' = intent /\ kept' = kept
           \/ intent' = [intent EXCEPT ![i].claimed = b] /\ kept' = kept
    BY <1>20, <1>1 DEF ClaimLost, Exit
  <2>2. CASE CompleteFailed(i) /\ Drop(i)
    BY <2>1, <2>2, <1>2, <1>3, <1>5 DEF GivesUp
  <2>3. CASE intent' = intent /\ kept' = kept
    BY <2>1, <2>3, <1>2 DEF GivesUp
  <2>4. CASE intent' = [intent EXCEPT ![i].claimed = b] /\ kept' = kept
    <3>1. /\ intent'[i] = [intent[i] EXCEPT !.claimed = b] /\ intent[i] \in IntentRecord
          /\ \A j \in Intents : j # i => intent'[j] = intent[j]
      BY <2>4, <1>6
    <3>2. intent'[i] = intent[i] \/ Claimed(i)
      <4>1. CASE intent[i].status = "confirmed"
        BY <3>1, <4>1 DEF IntentRecord, Claimed
      <4>2. CASE intent[i].status # "confirmed"
        <5>1. b = intent[i].claimed
          BY <3>1, <4>2 DEF IntentRecord
        <5> HIDE DEF b
        <5> QED
          BY <3>1, <5>1 DEF IntentRecord
      <4> QED
        BY <4>1, <4>2
    <3> QED
      BY <2>1, <2>4, <3>1, <3>2, <1>2 DEF GivesUp
  <2> QED
    BY <2>1, <2>2, <2>3, <2>4
<1>21. ASSUME Unlink(w) PROVE Goal
  BY <1>21, <1>1, <1>2, <1>3, <1>4, <1>5, <1>6 DEF Unlink, GoesOn, Deletes
<1>22. ASSUME UnlinkFails(w) PROVE Goal
  BY <1>22, <1>1, <1>2, <1>3, <1>4, <1>5, <1>6 DEF UnlinkFails, GivesUp, Deletes, Failed, Exit
<1>23. ASSUME Promote(w) PROVE Goal
  BY <1>23, <1>1, <1>2, <1>3, <1>4, <1>5, <1>6 DEF Promote, GoesOn, Exit
<1>24. ASSUME ResumeClaims(w) PROVE Goal
  BY <1>24, <1>1, <1>2, <1>3, <1>4, <1>5, <1>6 DEF ResumeClaims, GoesOn, GivesUp, Quiet, Claimed
<1>25. ASSUME ReportAccepted(w) PROVE Goal
  <2>1. dpc'[w] = "gone" /\ kept'[i] = "none" /\ Quiet
        /\ expect' = expect /\ asked' = asked
    BY <1>25, <1>1, <1>2, <1>3 DEF ReportAccepted, Quiet
  <2>2. CASE dpc[w] = "report"
    BY <1>25, <2>1, <2>2, <1>1, <1>2, <1>3, <1>4 DEF ReportAccepted, IsHeard, Becomes
  <2>3. CASE dpc[w] # "report"
    <3>1. /\ intent' = [intent EXCEPT ![i].status = IF Open(i) THEN "ended" ELSE @]
          /\ dpc[w] \in {"expire", "lapse"} /\ (dpc[w] = "lapse" => lock = None)
      BY <1>25, <2>3, <1>1 DEF ReportAccepted, Reporting
    <3>2. intent'[i].status = IF Open(i) THEN "ended" ELSE intent[i].status
      <4>1. intent[i] \in IntentRecord
            /\ intent'[i] = [intent[i] EXCEPT !.status = IF Open(i) THEN "ended" ELSE intent[i].status]
        BY <1>6, <3>1
      <4> QED
        BY <4>1 DEF IntentRecord
    <3>3. intent'[i].status \in {"unused", "disconnected", "ended"}
      BY <1>6, <3>2 DEF Open, IntentRecord
    <3>4. Failed(i) /\ \A j \in Intents : j # i => intent'[j] = intent[j]
      BY <1>5, <3>1
    <3> QED
      BY <1>2, <1>3, <1>25, <2>1, <3>1, <3>3, <3>4 DEF ReportAccepted, IsHeard
  <2> QED
    BY <2>2, <2>3
<1>26. ASSUME ReportUnanswered(w) PROVE Goal
  BY <1>26, <1>1, <1>2, <1>3, <1>4, <1>5, <1>6 DEF ReportUnanswered, GivesUp, Plain, Quiet, shared, Reporting
<1> QED
  BY <1>10, <1>11, <1>12, <1>13, <1>14, <1>15, <1>16, <1>17, <1>18, <1>19, <1>20, <1>21, <1>22, <1>23, <1>24, <1>25, <1>26 DEF Revokes


\* A step of the tool call, as each revocation sees it.
LEMMA AskStep ==
  ASSUME RevokeInv, Asks, NEW j \in Intents
  PROVE  RevocationMoves(j)
<1> DEFINE i == asked
<1>0. /\ RevokeTypes /\ Asker \in Revokers /\ (dpc[Asker] # "idle" => i \in Intents)
      /\ kept \in [Intents -> KeptStates] /\ intent \in [Intents -> IntentRecord]
      /\ expect \in [Intents -> Account \union {None}]
      /\ dpc \in [Revokers -> DpcStates]
      /\ Holds(Asker) <=> lock = Asker
  BY RevokersDiffer DEF RevokeInv, RevokeTypes
<1>1. \A where : To(Asker, where) =>
        /\ dpc'[Asker] = where
        /\ \A c \in Copies : Stands(j, c)
  BY <1>0, ToMoves, RevokersDiffer DEF Stands
<1>2. ASSUME NEW k \in Intents, AskBegins(k) PROVE RevocationMoves(j)
  <2>1. PICK a \in store :
          /\ intent' = [intent EXCEPT ![k].status = "created", ![k].id = a.id]
          /\ expect' = [expect EXCEPT ![k] = a]
    BY <1>2 DEF AskBegins
  <2>2. /\ dpc[Asker] = "idle" /\ asked' = k /\ dpc'[Asker] = "offer"
        /\ kept' = kept /\ Quiet /\ intent[k].status = "unused"
        /\ \A c \in Copies : Stands(j, c)
    BY <1>1, <1>2 DEF AskBegins, shared, Quiet
  <2>3. CASE j # k
    BY <1>0, <2>1, <2>2, <2>3 DEF RevocationMoves, Same, AskerAt
  <2>4. CASE j = k
    <3>1. /\ intent'[j] = [intent[j] EXCEPT !.status = "created", !.id = a.id]
          /\ intent[j] \in IntentRecord /\ expect'[j] = a
      BY <1>0, <2>1, <2>4
    <3>2. /\ intent'[j].status = "created" /\ intent'[j].id = a.id
          /\ intent'[j].claimed = intent[j].claimed
      BY <3>1 DEF IntentRecord
    <3> QED
      BY <2>2, <2>4, <3>1, <3>2 DEF RevocationMoves, Answers, AskerAt
  <2> QED
    BY <2>3, <2>4
<1>3. CASE AskWrites
  <2>1. PICK c \in Copies, e \in Copies :
          dpc' = [dpc EXCEPT ![Asker] = "await", ![<<i, c>>] = "starting", ![<<i, e>>] = "starting"]
    BY <1>3 DEF AskWrites
  <2>2. /\ dpc[Asker] = "offer" /\ i \in Intents /\ lock = None /\ lock' = Asker
        /\ kept' = [kept EXCEPT ![i] = "state"] /\ intent' = intent /\ expect' = expect
        /\ asked' = asked /\ store' = store /\ active' = active
    BY <1>0, <1>3 DEF AskWrites
  <2>3. /\ dpc'[Asker] = "await"
        /\ \A d \in Copies : dpc'[<<i, d>>] \in {dpc[<<i, d>>], "starting"}
        /\ \A d \in Copies : d \in {c, e} \/ dpc'[<<i, d>>] = dpc[<<i, d>>]
    BY <1>0, <2>1, <2>2, RevokersDiffer
  <2>4. \A k \in Intents, d \in Copies : k # i => Stands(k, d)
    BY <1>0, <2>1, <2>2, RevokersDiffer DEF Stands
  <2>5. CASE j # i
    BY <1>0, <2>2, <2>4, <2>5 DEF RevocationMoves, Same, AskerAt
  <2>6. CASE j = i
    BY <1>0, <2>2, <2>3, <2>4, <2>6 DEF RevocationMoves, Spawns, AskerAt
  <2> QED
    BY <2>5, <2>6
<1>4. CASE AskRefused
  BY <1>0, <1>1, <1>4
  DEF AskRefused, shared, RevocationMoves, Same, Answers, Plain, Quiet, AskerAt
<1>5. CASE AskSeesWorker \/ AskSeesNoWorker
  BY <1>0, <1>1, <1>5
  DEF AskSeesWorker, AskSeesNoWorker, Exit, Holds, RevocationMoves, Same, Answers, AskerAt
<1>6. CASE AskActivates
  <2>1. CASE j # i
    BY <1>0, <1>1, <1>6, <2>1, RecordOf DEF AskActivates, RevocationMoves, Same, AskerAt
  <2>2. CASE j = i
    BY <1>0, <1>1, <1>6, <2>2, RecordOf
    DEF AskActivates, shared, RevocationMoves, Answers, Quiet, AskerAt
  <2> QED
    BY <2>1, <2>2
<1>7. CASE AskUndoes
  <2>1. /\ i \in Intents /\ dpc[Asker] \in {"undo", "unstarted"} /\ lock = None
        /\ dpc'[Asker] = "idle" /\ Quiet /\ CompleteFailed(i)
        /\ kept' = [kept EXCEPT ![i] = IF dpc[Asker] = "unstarted" THEN "none" ELSE kept[i]]
        /\ expect' = expect /\ asked' = asked
        /\ \A c \in Copies : Stands(j, c)
    BY <1>0, <1>1, <1>7 DEF AskUndoes, Quiet
  <2>2. Failed(i) /\ \A k \in Intents : k # i => intent'[k] = intent[k]
    BY <1>0, <2>1, FailureOf
  <2>3. CASE j # i
    BY <1>0, <2>1, <2>2, <2>3 DEF RevocationMoves, Same, AskerAt
  <2>4. CASE j = i
    BY <1>0, <2>1, <2>2, <2>4 DEF RevocationMoves, Answers, AskerAt
  <2> QED
    BY <2>3, <2>4
<1>8. CASE AskCutShort
  <2>1. CASE j # i
    BY <1>0, <1>1, <1>8, <2>1 DEF AskCutShort, RevocationMoves, Same, AskerAt
  <2>2. CASE j = i
    BY <1>0, <1>1, <1>8, <2>2 DEF AskCutShort, RevocationMoves, Answers, Quiet, AskerAt
  <2> QED
    BY <2>1, <2>2
<1> QED
  BY <1>2, <1>3, <1>4, <1>5, <1>6, <1>7, <1>8 DEF Asks

\* A step of the world around it, as each revocation sees it.
LEMMA WorldStep ==
  ASSUME RevokeInv, World, NEW j \in Intents
  PROVE  RevocationMoves(j)
<1>0. /\ RevokeTypes /\ Asker \in Revokers
      /\ kept \in [Intents -> KeptStates] /\ intent \in [Intents -> IntentRecord]
      /\ \A p \in Revokers : Holds(p) <=> lock = p
  BY RevokersDiffer DEF RevokeInv, RevokeTypes
<1>1. ASSUME NEW i \in Intents,
             \/ UserConfirms(i) \/ IntentEnds(i) \/ DeadlinePasses(i) \/ Sweeps(i)
      PROVE  RevocationMoves(j)
  <2>1. /\ dpc' = dpc /\ asked' = asked /\ expect' = expect /\ Quiet
        /\ AskerAt(j)' = AskerAt(j)
        /\ \A c \in Copies : Stands(j, c)
    BY <1>1
    DEF UserConfirms, IntentEnds, DeadlinePasses, Sweeps, shared, Quiet, Stands, AskerAt
  <2>2. CASE UserConfirms(i)
    BY <1>0, <2>1, <2>2, RecordOf DEF UserConfirms, RevocationMoves, Same, Happens
  <2>3. CASE IntentEnds(i)
    BY <1>0, <2>1, <2>3, RecordOf DEF IntentEnds, RevocationMoves, Same, Happens
  <2>4. CASE DeadlinePasses(i)
    BY <1>0, <2>1, <2>4 DEF DeadlinePasses, RevocationMoves, Same
  <2>5. CASE Sweeps(i)
    <3>1. kept[i] = "state" /\ intent' = intent /\ kept'[i] = "none"
          /\ \A k \in Intents : k # i => kept'[k] = kept[k]
      BY <1>0, <2>5, DirectoryMoves DEF Sweeps
    <3>2. AskerAt(i) = "idle" /\ \A c \in Copies : dpc[<<i, c>>] \in {"off", "gone"}
      BY <2>5 DEF Sweeps, AskerAt
    <3> QED
      BY <2>1, <3>1, <3>2 DEF RevocationMoves, Same, Happens
  <2> QED
    BY <1>1, <2>2, <2>3, <2>4, <2>5
<1>2. ASSUME NEW i \in Intents, NEW c \in Copies, Resumes(<<i, c>>)
      PROVE  RevocationMoves(j)
  <2>1. /\ kept[i] \in {"delete_pending", "disconnected", "expired"}
        /\ dpc[<<i, c>>] \in {"off", "gone"} /\ To(<<i, c>>, "starting")
        /\ UNCHANGED <<intent, kept, expect, asked>> /\ Quiet
    BY <1>2 DEF Resumes, shared, Quiet
  <2>2. /\ dpc'[<<i, c>>] = "starting" /\ dpc'[Asker] = dpc[Asker]
        /\ \A k \in Intents, d \in Copies : k # i \/ d # c => Stands(k, d)
    BY <1>0, <2>1, ToMoves, RevokersDiffer DEF Stands
  <2>3. AskerAt(j)' = AskerAt(j)
    BY <2>1, <2>2 DEF AskerAt
  <2> QED
    BY <2>1, <2>2, <2>3 DEF RevocationMoves, Same, WorkerTurns, ComesOrGoes, Quiet
<1>3. CASE Dies(Asker)
  <2>1. /\ dpc[Asker] # "idle" /\ To(Asker, "idle")
        /\ lock' = IF lock = Asker THEN None ELSE lock
        /\ UNCHANGED <<store, active, intent, kept, expect, asked>>
    BY <1>3 DEF Dies
  <2>2. dpc'[Asker] = "idle" /\ \A c \in Copies : Stands(j, c)
    BY <1>0, <2>1, ToMoves, RevokersDiffer DEF Stands
  <2> QED
    BY <1>0, <2>1, <2>2 DEF RevocationMoves, Same, Answers, AskerAt, Plain, Quiet
<1>4. ASSUME NEW i \in Intents, NEW c \in Copies, Dies(<<i, c>>)
      PROVE  RevocationMoves(j)
  <2>1. /\ dpc[<<i, c>>] \notin {"idle", "off", "gone"} /\ To(<<i, c>>, "gone")
        /\ lock' = IF lock = <<i, c>> THEN None ELSE lock
        /\ UNCHANGED <<store, active, intent, kept, expect, asked>>
    BY <1>4, RevokersDiffer DEF Dies
  <2>2. /\ dpc'[<<i, c>>] = "gone" /\ dpc'[Asker] = dpc[Asker]
        /\ \A k \in Intents, d \in Copies : k # i \/ d # c => Stands(k, d)
    BY <1>0, <2>1, ToMoves, RevokersDiffer DEF Stands
  <2>3. AskerAt(j)' = AskerAt(j)
    BY <2>1, <2>2 DEF AskerAt
  <2> QED
    BY <2>1, <2>2, <2>3 DEF RevocationMoves, Same, WorkerTurns, ComesOrGoes
<1> QED
  BY <1>1, <1>2, <1>3, <1>4 DEF World, Deleters

\* Every step of the revocations' half, as each revocation sees it.
LEMMA RevocationStep ==
  ASSUME RevokeInv, DisconnectNext, NEW j \in Intents
  PROVE  RevocationMoves(j)
<1>1. ASSUME NEW i \in Intents, NEW c \in Copies, Revokes(<<i, c>>)
      PROVE  RevocationMoves(j)
  <2>1. /\ \A q \in Revokers : q # <<i, c>> => dpc'[q] = dpc[q]
        /\ \A k \in Intents : k # i => intent'[k] = intent[k] /\ kept'[k] = kept[k]
        /\ expect' = expect /\ asked' = asked
        /\ Waits(i, c) \/ GivesUp(i, c) \/ GoesOn(i, c) \/ IsHeard(i, c)
    BY <1>1, WorkerStep
  <2>2. /\ AskerAt(j)' = AskerAt(j)
        /\ \A k \in Intents, d \in Copies : k # i \/ d # c => Stands(k, d)
    BY <2>1, RevokersDiffer DEF AskerAt, Stands
  <2> QED
    BY <2>1, <2>2 DEF RevocationMoves, Same, WorkerTurns
<1> QED
  BY <1>1, AskStep, WorldStep DEF DisconnectNext, Deleters


-----------------------------------------------------------------------------
(* One lock for all of them.                                               *)

\* A sign-in passes the lock only to its like, and does nothing to the
\* registry while a process of a revocation is inside.
LEMMA LocksApart ==
  ASSUME TypeInv, [HandoffNext]_allVars
  PROVE  /\ lock' = lock \/ (lock \in Procs \union {None} /\ lock' \in Procs \union {None})
         /\ lock \in Procs \union {None} \/ store' = store
<1>0. /\ pc \in [Procs -> PcStates] /\ \A p \in Procs : Inside(p) <=> lock = p
      /\ Tool \in Procs /\ Hook \in Procs /\ Workers \subseteq Procs
  BY ProcsDiffer DEF TypeInv, HandoffTypeOK
<1> DEFINE Goal == /\ \/ lock' = lock
                      \/ lock \in Procs \union {None} /\ lock' \in Procs \union {None}
                   /\ lock \in Procs \union {None} \/ store' = store
<1>1. CASE Connects
  BY <1>0, <1>1
  DEF Connects, ConnectBegin, ConnectFindsStale, ConnectPosts, ConnectStarts,
      ConnectCannotSpawn, ConnectEnds, WipeForAssignment, Inside, Leave
<1>2. ASSUME NEW w \in Workers, NEW h \in Handoffs, Polls(w) \/ RecoverBegins(h) PROVE Goal
  BY <1>0, <1>2
  DEF Polls, WorkerReadsKey, WorkerChecksMarker, WorkerPolls, WorkerClears, WorkerDenies,
      WorkerCloses, RecoverBegins, shared
<1>3. ASSUME NEW w \in Workers, Installs(w) PROVE Goal
  BY <1>0, <1>3
  DEF Installs, InstallSuperseded, InstallUnassigned, InstallRejected, InstallBegins,
      WriteReceipt, SaveCredential, PromoteReceipt, Inside, Leave, shared
<1>4. ASSUME NEW p \in Acks, Acknowledges(p) PROVE Goal
  BY <1>0, <1>4
  DEF Acks, Acknowledges, AckGivesUp, AckOrphaned, AckUnassigned, AckBegins, ClaimAccepted,
      ClaimUnanswered, RetireReceipt, ReadyNotice, Acknowledging, WipeForAssignment, Inside,
      Leave, shared
<1>5. CASE HookReads \/ HookWipes
  BY <1>0, <1>5 DEF HookReads, HookWipes, WipeForAssignment, shared
<1>6. CASE Environment \/ UNCHANGED allVars
  BY <1>0, <1>6
  DEF Environment, SignIn, PlatformEnds, Reassign, Crash, WipeCutShort, StartCutShort,
      allVars, shared, Inside, Leave
<1> QED
  BY <1>1, <1>2, <1>3, <1>4, <1>5, <1>6, Pairs DEF HandoffNext, Acks

\* The types and the lock of the revocations are kept by every step of theirs.
LEMMA RevokeStep ==
  ASSUME RevokeInv, TypeInv, DisconnectNext, UNCHANGED rvars
  PROVE  RevokeInv'
<1>0. /\ RevokeTypes /\ Asker \in Revokers
      /\ kept \in [Intents -> KeptStates] /\ intent \in [Intents -> IntentRecord]
      /\ expect \in [Intents -> Account \union {None}]
      /\ dpc \in [Revokers -> DpcStates]
      /\ \A p \in Revokers : Holds(p) <=> lock = p
      /\ \A p \in Revokers : p # None
      /\ dpc[Asker] # "idle" => asked \in Intents
  BY RevokersDiffer DEF RevokeInv, RevokeTypes
<1>1. /\ store \subseteq Account
      /\ \A a \in Account : a.id \in Handoffs
  BY DEF TypeInv, HandoffTypeOK, SharedTypeOK, Account
<1>2. ASSUME NEW p \in Revokers, NEW where \in DpcStates, To(p, where),
             where \in {"await", "claim", "unlink", "promote"} <=> lock' = p,
             lock' = lock \/ (lock \in {p, None} /\ lock' \in {p, None})
      PROVE  /\ dpc' \in [Revokers -> DpcStates]
             /\ \A q \in Revokers : (Holds(q) <=> lock = q)'
  <2>1. dpc' \in [Revokers -> DpcStates]
    BY <1>0, <1>2 DEF To
  <2>2. dpc'[p] = where /\ \A q \in Revokers : q # p => dpc'[q] = dpc[q]
    BY <1>0, <1>2, ToMoves
  <2> QED
    BY <1>0, <1>2, <2>1, <2>2 DEF Holds
<1> DEFINE Kind == /\ intent' \in [Intents -> IntentRecord] /\ kept' \in [Intents -> KeptStates]
                   /\ expect' \in [Intents -> Account \union {None}]
<1> DEFINE Place == /\ dpc' \in [Revokers -> DpcStates]
                    /\ \A q \in Revokers : (Holds(q) <=> lock = q)'
<1>3. ASSUME NEW i \in Intents
      PROVE  /\ \A s \in {"created", "offered", "confirmed", "disconnected", "ended"} :
                  intent' = [intent EXCEPT ![i].status = s] => intent' \in [Intents -> IntentRecord]
             /\ \A b \in BOOLEAN :
                  intent' = [intent EXCEPT ![i].claimed = b] => intent' \in [Intents -> IntentRecord]
             /\ intent' = [intent EXCEPT ![i].status = IF Open(i) THEN "ended" ELSE @]
                  => intent' \in [Intents -> IntentRecord]
             /\ CompleteFailed(i) => intent' \in [Intents -> IntentRecord]
             /\ \A k \in KeptStates :
                  kept' = [kept EXCEPT ![i] = k] => kept' \in [Intents -> KeptStates]
             /\ Drop(i) => kept' \in [Intents -> KeptStates]
             /\ \A k \in KeptStates : Record(i, k) => kept' \in [Intents -> KeptStates]
  <2>1. ASSUME NEW s \in {"created", "offered", "confirmed", "disconnected", "ended"},
               intent' = [intent EXCEPT ![i].status = s]
        PROVE  intent' \in [Intents -> IntentRecord]
    BY <1>0, <2>1 DEF IntentRecord
  <2>2. ASSUME NEW b \in BOOLEAN, intent' = [intent EXCEPT ![i].claimed = b]
        PROVE  intent' \in [Intents -> IntentRecord]
    BY <1>0, <2>2 DEF IntentRecord
  <2>3. ASSUME intent' = [intent EXCEPT ![i].status = IF Open(i) THEN "ended" ELSE @]
        PROVE  intent' \in [Intents -> IntentRecord]
    BY <1>0, <2>3 DEF IntentRecord
  <2>4. CompleteFailed(i) => intent' \in [Intents -> IntentRecord]
    BY <1>0, <2>3 DEF CompleteFailed
  <2>5. /\ \A k \in KeptStates :
             kept' = [kept EXCEPT ![i] = k] => kept' \in [Intents -> KeptStates]
        /\ Drop(i) => kept' \in [Intents -> KeptStates]
        /\ \A k \in KeptStates : Record(i, k) => kept' \in [Intents -> KeptStates]
    BY <1>0 DEF KeptStates, Drop, Record
  <2> QED
    BY <2>1, <2>2, <2>3, <2>4, <2>5
<1>4. {"state", "delete_pending", "disconnected", "expired", "none"} \subseteq KeptStates
  BY DEF KeptStates
<1>10. ASSUME NEW i \in Intents, NEW c \in Copies, Revokes(<<i, c>>)
       PROVE  Kind /\ Place /\ dpc'[Asker] = dpc[Asker] /\ asked' = asked
  <2> DEFINE w == <<i, c>>
  <2>1. w \in Revokers /\ w[1] = i /\ w # Asker
    BY RevokersDiffer
  <2>2. dpc'[Asker] = dpc[Asker] /\ asked' = asked
    BY <1>0, <1>10, <2>1, WorkerStep
  <2>3. ASSUME WorkerStarts(w) PROVE Kind
    BY <2>3, <2>1, <1>0, <1>3, <1>4 DEF WorkerStarts, shared, KeptStates
  <2>4. ASSUME WorkerStarts(w) PROVE Place
    BY <2>4, <2>1, <1>0, <1>2, <1>4 DEF WorkerStarts, shared, KeptStates, Holds, DpcStates
  <2>5. ASSUME WorkerFails(w) PROVE Kind
    BY <2>5, <2>1, <1>0, <1>3, <1>4 DEF WorkerFails, shared
  <2>6. ASSUME WorkerFails(w) PROVE Place
    BY <2>6, <2>1, <1>0, <1>2, <1>4 DEF WorkerFails, shared, Holds, DpcStates
  <2>7. ASSUME WorkerLooks(w) PROVE Kind
    BY <2>7, <2>1, <1>0, <1>3, <1>4 DEF WorkerLooks, shared
  <2>8. ASSUME WorkerLooks(w) PROVE Place
    BY <2>8, <2>1, <1>0, <1>2, <1>4 DEF WorkerLooks, shared, Holds, DpcStates
  <2>9. ASSUME WorkerAsks(w) PROVE Kind
    BY <2>9, <2>1, <1>0, <1>3, <1>4 DEF WorkerAsks, shared
  <2>10. ASSUME WorkerAsks(w) PROVE Place
    BY <2>10, <2>1, <1>0, <1>2, <1>4 DEF WorkerAsks, shared, Holds, DpcStates
  <2>11. ASSUME WorkerRetracts(w) PROVE Kind
    BY <2>11, <2>1, <1>0, <1>3, <1>4 DEF WorkerRetracts
  <2>12. ASSUME WorkerRetracts(w) PROVE Place
    BY <2>12, <2>1, <1>0, <1>2, <1>4 DEF WorkerRetracts, Holds, DpcStates
  <2>13. ASSUME WorkerIsLate(w) PROVE Kind
    BY <2>13, <2>1, <1>0, <1>3, <1>4 DEF WorkerIsLate, shared
  <2>14. ASSUME WorkerIsLate(w) PROVE Place
    BY <2>14, <2>1, <1>0, <1>2, <1>4 DEF WorkerIsLate, shared, Holds, DpcStates
  <2>15. ASSUME DeleteRefused(w) PROVE Kind
    BY <2>15, <2>1, <1>0, <1>3, <1>4 DEF DeleteRefused
  <2>16. ASSUME DeleteRefused(w) PROVE Place
    BY <2>16, <2>1, <1>0, <1>2, <1>4 DEF DeleteRefused, Holds, DpcStates
  <2>17. ASSUME DeleteBegins(w) PROVE Kind
    BY <2>17, <2>1, <1>0, <1>3, <1>4 DEF DeleteBegins
  <2>18. ASSUME DeleteBegins(w) PROVE Place
    BY <2>18, <2>1, <1>0, <1>2, <1>4 DEF DeleteBegins, Holds, DpcStates
  <2>19. ASSUME ClaimConfirmed(w) PROVE Kind
    BY <2>19, <2>1, <1>0, <1>3, <1>4 DEF ClaimConfirmed, shared
  <2>20. ASSUME ClaimConfirmed(w) PROVE Place
    BY <2>20, <2>1, <1>0, <1>2, <1>4 DEF ClaimConfirmed, shared, Holds, DpcStates
  <2>21. ASSUME ClaimTooLate(w) PROVE Kind
    BY <2>21, <2>1, <1>0, <1>3, <1>4 DEF ClaimTooLate, Exit
  <2>22. ASSUME ClaimTooLate(w) PROVE Place
    BY <2>22, <2>1, <1>0, <1>2, <1>4 DEF ClaimTooLate, Exit, Holds, DpcStates
  <2>23. ASSUME ClaimLost(w) PROVE Kind
    <3> DEFINE b == intent[i].claimed \/ intent[i].status = "confirmed"
    <3>1. /\ expect' = expect
          /\ \/ CompleteFailed(i) /\ Drop(i)
             \/ intent' = intent /\ kept' = kept
             \/ intent' = [intent EXCEPT ![i].claimed = b] /\ kept' = kept
      BY <2>23, <2>1 DEF ClaimLost
    <3>2. b \in BOOLEAN
      BY Zenon
    <3> HIDE DEF b
    <3> QED
      BY <3>1, <3>2, <1>0, <1>3
  <2>24. ASSUME ClaimLost(w) PROVE Place
    BY <2>24, <2>1, <1>0, <1>2, <1>4 DEF ClaimLost, Exit, Holds, DpcStates
  <2>25. ASSUME Unlink(w) PROVE Kind
    BY <2>25, <2>1, <1>0, <1>3, <1>4 DEF Unlink
  <2>26. ASSUME Unlink(w) PROVE Place
    BY <2>26, <2>1, <1>0, <1>2, <1>4 DEF Unlink, Holds, DpcStates
  <2>27. ASSUME UnlinkFails(w) PROVE Kind
    BY <2>27, <2>1, <1>0, <1>3, <1>4 DEF UnlinkFails, Exit
  <2>28. ASSUME UnlinkFails(w) PROVE Place
    BY <2>28, <2>1, <1>0, <1>2, <1>4 DEF UnlinkFails, Exit, Holds, DpcStates
  <2>29. ASSUME Promote(w) PROVE Kind
    BY <2>29, <2>1, <1>0, <1>3, <1>4 DEF Promote, Exit
  <2>30. ASSUME Promote(w) PROVE Place
    BY <2>30, <2>1, <1>0, <1>2, <1>4 DEF Promote, Exit, Holds, DpcStates
  <2>31. ASSUME ResumeClaims(w) PROVE Kind
    <3>1. /\ expect' = expect
          /\ intent' = intent \/ intent' = [intent EXCEPT ![i].claimed = TRUE]
          /\ kept' = kept \/ Record(i, "disconnected") \/ Drop(i)
      BY <2>31, <2>1 DEF ResumeClaims
    <3>2. kept' \in [Intents -> KeptStates]
      BY <3>1, <1>0, <1>3, <1>4
    <3>3. intent' \in [Intents -> IntentRecord]
      BY <3>1, <1>0, <1>3
    <3> QED
      BY <3>1, <3>2, <3>3, <1>0
  <2>32. ASSUME ResumeClaims(w) PROVE Place
    BY <2>32, <2>1, <1>0, <1>2, <1>4 DEF ResumeClaims, Holds, DpcStates
  <2>33. ASSUME ReportAccepted(w) PROVE Kind
    <3>1. /\ expect' = expect /\ Drop(i)
          /\ \/ intent' = [intent EXCEPT ![i].status = "disconnected"]
             \/ intent' = [intent EXCEPT ![i].status = IF Open(i) THEN "ended" ELSE @]
      BY <2>33, <2>1 DEF ReportAccepted
    <3>2. intent' \in [Intents -> IntentRecord]
      BY <3>1, <1>3
    <3> QED
      BY <3>1, <3>2, <1>0, <1>3
  <2>34. ASSUME ReportAccepted(w) PROVE Place
    BY <2>34, <2>1, <1>0, <1>2, <1>4 DEF ReportAccepted, Reporting, Holds, DpcStates
  <2>35. ASSUME ReportUnanswered(w) PROVE Kind
    BY <2>35, <2>1, <1>0, <1>3, <1>4 DEF ReportUnanswered, Reporting, shared
  <2>36. ASSUME ReportUnanswered(w) PROVE Place
    BY <2>36, <2>1, <1>0, <1>2, <1>4 DEF ReportUnanswered, Reporting, shared, Holds, DpcStates
  <2> QED
    BY <1>10, <2>2, <2>3, <2>4, <2>5, <2>6, <2>7, <2>8, <2>9, <2>10, <2>11, <2>12, <2>13, <2>14, <2>15, <2>16, <2>17, <2>18, <2>19, <2>20, <2>21, <2>22, <2>23, <2>24, <2>25, <2>26, <2>27, <2>28, <2>29, <2>30, <2>31, <2>32, <2>33, <2>34, <2>35, <2>36 DEF Revokes
<1>11. CASE Asks
  <2> DEFINE Aim == dpc'[Asker] # "idle" => asked' \in Intents
  <2>1. ASSUME NEW k \in Intents, AskBegins(k) PROVE Kind
    <3>1. PICK a \in store :
            /\ intent' = [intent EXCEPT ![k].status = "created", ![k].id = a.id]
            /\ expect' = [expect EXCEPT ![k] = a]
      BY <2>1 DEF AskBegins
    <3>2. a \in Account /\ a.id \in Handoffs
      BY <1>1
    <3>3. intent' \in [Intents -> IntentRecord]
      BY <1>0, <3>1, <3>2 DEF IntentRecord
    <3> QED
      BY <1>0, <2>1, <3>1, <3>2, <3>3 DEF AskBegins
  <2>2. ASSUME NEW k \in Intents, AskBegins(k) PROVE Place /\ Aim
    BY <2>2, <1>0, <1>2, ToMoves DEF AskBegins, shared, Holds, DpcStates
  <2>3. ASSUME AskWrites PROVE Kind
    BY <2>3, <1>0, <1>1, <1>3, <1>4 DEF AskWrites
  <2>4. ASSUME AskWrites PROVE Place /\ Aim
    <3>1. PICK c \in Copies, d \in Copies :
            dpc' = [dpc EXCEPT ![Asker] = "await", ![<<asked, c>>] = "starting",
                               ![<<asked, d>>] = "starting"]
      BY <2>4 DEF AskWrites
    <3>2. lock = None /\ lock' = Asker /\ asked' = asked /\ asked \in Intents
      BY <2>4, <1>0 DEF AskWrites
    <3>3. /\ <<asked, c>> \in Revokers /\ <<asked, c>> # Asker
          /\ <<asked, d>> \in Revokers /\ <<asked, d>> # Asker
      BY <3>2, RevokersDiffer
    <3>4. /\ dpc' \in [Revokers -> DpcStates] /\ dpc'[Asker] = "await"
          /\ \A q \in Revokers :
               q # Asker => dpc'[q] = dpc[q] \/ dpc'[q] = "starting"
      BY <1>0, <3>1, <3>3 DEF DpcStates
    <3> QED
      BY <1>0, <3>2, <3>3, <3>4 DEF Holds
  <2>5. ASSUME AskRefused PROVE Kind
    BY <2>5, <1>0, <1>1, <1>3, <1>4 DEF AskRefused, shared
  <2>6. ASSUME AskRefused PROVE Place /\ Aim
    BY <2>6, <1>0, <1>2, ToMoves DEF AskRefused, shared, Holds, DpcStates
  <2>7. ASSUME AskSeesWorker PROVE Kind
    BY <2>7, <1>0, <1>1, <1>3, <1>4 DEF AskSeesWorker, Exit
  <2>8. ASSUME AskSeesWorker PROVE Place /\ Aim
    BY <2>8, <1>0, <1>2, ToMoves DEF AskSeesWorker, Exit, Holds, DpcStates
  <2>9. ASSUME AskSeesNoWorker PROVE Kind
    BY <2>9, <1>0, <1>1, <1>3, <1>4 DEF AskSeesNoWorker, Exit
  <2>10. ASSUME AskSeesNoWorker PROVE Place /\ Aim
    BY <2>10, <1>0, <1>2, ToMoves DEF AskSeesNoWorker, Exit, Holds, DpcStates
  <2>11. ASSUME AskActivates PROVE Kind
    <3>1. /\ asked \in Intents /\ kept' = kept /\ expect' = expect
          /\ intent' = intent \/ intent' = [intent EXCEPT ![asked].status = "offered"]
      BY <2>11, <1>0 DEF AskActivates
    <3> QED
      BY <3>1, <1>0, <1>3
  <2>12. ASSUME AskActivates PROVE Place /\ Aim
    BY <2>12, <1>0, <1>2, ToMoves DEF AskActivates, shared, Holds, DpcStates
  <2>13. ASSUME AskUndoes PROVE Kind
    BY <2>13, <1>0, <1>1, <1>3, <1>4 DEF AskUndoes
  <2>14. ASSUME AskUndoes PROVE Place /\ Aim
    BY <2>14, <1>0, <1>2, ToMoves DEF AskUndoes, Holds, DpcStates
  <2>15. ASSUME AskCutShort PROVE Kind
    BY <2>15, <1>0, <1>1, <1>3, <1>4 DEF AskCutShort
  <2>16. ASSUME AskCutShort PROVE Place /\ Aim
    BY <2>16, <1>0, <1>2, ToMoves DEF AskCutShort, Holds, DpcStates
  <2> QED
    BY <1>0, <1>11, <2>1, <2>2, <2>3, <2>4, <2>5, <2>6, <2>7, <2>8, <2>9, <2>10, <2>11, <2>12, <2>13, <2>14, <2>15, <2>16 DEF Asks, RevokeInv, RevokeTypes, rvars
<1>12. CASE World
  <2>1. ASSUME NEW i \in Intents,
               \/ UserConfirms(i) \/ IntentEnds(i) \/ DeadlinePasses(i) \/ Sweeps(i)
        PROVE  Kind /\ dpc' = dpc /\ lock' = lock /\ asked' = asked
    <3>1. /\ expect' = expect /\ dpc' = dpc /\ lock' = lock /\ asked' = asked
          /\ \/ intent' = intent
             \/ intent' = [intent EXCEPT ![i].status = "confirmed"]
             \/ intent' = [intent EXCEPT ![i].status = "ended"]
          /\ kept' = kept \/ Drop(i)
      BY <2>1 DEF UserConfirms, IntentEnds, DeadlinePasses, Sweeps, shared
    <3>2. intent' \in [Intents -> IntentRecord]
      BY <3>1, <1>0, <1>3
    <3>3. kept' \in [Intents -> KeptStates]
      BY <3>1, <1>0, <1>3
    <3> QED
      BY <1>0, <3>1, <3>2, <3>3
  <2>2. ASSUME NEW i \in Intents, NEW c \in Copies, Resumes(<<i, c>>)
        PROVE  Kind /\ Place /\ dpc'[Asker] = dpc[Asker] /\ asked' = asked
    <3>1. Kind /\ asked' = asked /\ lock' = lock
      BY <1>0, <2>2 DEF Resumes, shared
    <3>2. dpc'[Asker] = dpc[Asker]
      BY <1>0, <2>2, ToMoves, RevokersDiffer DEF Resumes
    <3>3. Place
      BY <1>0, <1>2, <2>2, RevokersDiffer DEF Resumes, shared, Holds, DpcStates
    <3> QED
      BY <3>1, <3>2, <3>3
  <2>3. ASSUME NEW p \in Revokers, Dies(p)
        PROVE  Kind /\ Place /\ dpc'[Asker] \in {dpc[Asker], "idle"} /\ asked' = asked
    <3>1. Kind /\ asked' = asked
      BY <1>0, <2>3 DEF Dies
    <3>2. dpc'[Asker] \in {dpc[Asker], "idle"}
      BY <1>0, <2>3, ToMoves DEF Dies
    <3>3. Place
      BY <1>0, <1>2, <2>3 DEF Dies, Holds, DpcStates
    <3> QED
      BY <3>1, <3>2, <3>3
  <2> QED
    BY <1>0, <1>12, <2>1, <2>2, <2>3
    DEF World, Deleters, Revokers, Holds, RevokeInv, RevokeTypes, rvars
<1> QED
  BY <1>0, <1>10, <1>11, <1>12 DEF DisconnectNext, Deleters, RevokeInv, RevokeTypes, rvars


-----------------------------------------------------------------------------
(* Revocations and refreshes do not disturb the sign-ins.                  *)

\* One account as another, but for its refresh token.
Alike(a, b) ==
  /\ a.id = b.id /\ a.subject = b.subject
  /\ a.from = b.from /\ a.by = b.by /\ a.binding = b.binding

\* What a step of the other halves leaves of the sign-ins' state: accounts go
\* and tokens rotate, a marker may be taken back, and none of it while a sign-in
\* is inside the lock.
Guest ==
  /\ UNCHANGED <<hvars, receipt, binding>>
  /\ scratch' \subseteq scratch /\ active' \in {active, None}
  /\ store' \subseteq Account
  /\ \A a \in store' : \E b \in store : Alike(a, b)
  /\ Unambiguous(store) => Unambiguous(store')
  /\ lock \in Procs => store' = store /\ active' = active
  /\ lock' = lock \/ (lock \notin Procs /\ lock' \notin Procs)

\* A step of a revocation is such a step.
LEMMA RevocationIsGuest ==
  ASSUME TypeInv, RevokeInv, DisconnectNext, UNCHANGED hvars
  PROVE  Guest
<1>0. /\ store \subseteq Account /\ \A p \in Revokers : Holds(p) <=> lock = p
      /\ \A p \in Revokers : p \notin Procs
      /\ None \notin Procs /\ Asker \in Revokers
  BY RevokersDiffer, ProcsDiffer DEF TypeInv, HandoffTypeOK, SharedTypeOK, RevokeInv
<1>1. CASE UNCHANGED <<receipt, binding, store, active>> /\ scratch' \subseteq scratch
           /\ (lock' = lock \/ (lock \notin Procs /\ lock' \notin Procs))
  BY <1>0, <1>1 DEF Guest, Alike
<1>2. ASSUME NEW w \in Revokers,
             \/ WorkerStarts(w) \/ WorkerFails(w) \/ WorkerLooks(w) \/ WorkerAsks(w)
             \/ WorkerRetracts(w) \/ WorkerIsLate(w) \/ DeleteRefused(w) \/ DeleteBegins(w)
             \/ ClaimConfirmed(w) \/ ClaimTooLate(w) \/ ClaimLost(w) \/ Promote(w)
             \/ ResumeClaims(w) \/ ReportAccepted(w) \/ ReportUnanswered(w)
             \/ Resumes(w) \/ Dies(w)
      PROVE  Guest
  BY <1>0, <1>1, <1>2
  DEF WorkerStarts, WorkerFails, WorkerLooks, WorkerAsks, WorkerRetracts, WorkerIsLate,
      DeleteRefused, DeleteBegins, ClaimConfirmed, ClaimTooLate, ClaimLost, Promote,
      ResumeClaims, ReportAccepted, ReportUnanswered, Resumes, Dies, Exit, Holds, shared
<1>3. ASSUME NEW w \in Revokers, Unlink(w) PROVE Guest
  <2>1. /\ store' = {a \in store : a.id # expect[w[1]].id} /\ active' = None
        /\ scratch' \subseteq scratch /\ UNCHANGED <<receipt, lock, binding>>
    BY <1>3 DEF Unlink
  <2>2. lock = w
    BY <1>0, <1>3 DEF Unlink, Holds
  <2> QED
    BY <1>0, <2>1, <2>2 DEF Guest, Alike, Unambiguous
<1>4. ASSUME NEW w \in Revokers, UnlinkFails(w) PROVE Guest
  <2>1. /\ store' = store \/ store' = {a \in store : a.id # expect[w[1]].id}
        /\ active' \in {active, None}
        /\ scratch' \subseteq scratch /\ lock' = None /\ UNCHANGED <<receipt, binding>>
    BY <1>4 DEF UnlinkFails, Exit
  <2>2. lock = w
    BY <1>0, <1>4 DEF UnlinkFails, Holds
  <2> QED
    BY <1>0, <2>1, <2>2 DEF Guest, Alike, Unambiguous
<1>5. CASE Asks
  BY <1>0, <1>1, <1>5
  DEF Asks, AskBegins, AskWrites, AskRefused, AskSeesWorker, AskSeesNoWorker, AskActivates,
      AskUndoes, AskCutShort, Exit, Holds, shared
<1>6. ASSUME NEW i \in Intents,
             \/ UserConfirms(i) \/ IntentEnds(i) \/ DeadlinePasses(i) \/ Sweeps(i)
      PROVE  Guest
  BY <1>1, <1>6 DEF UserConfirms, IntentEnds, DeadlinePasses, Sweeps, shared
<1> QED
  BY <1>2, <1>3, <1>4, <1>5, <1>6 DEF DisconnectNext, Revokes, World, Revokers

\* So is a step of a refresh.
LEMMA RefreshIsGuest ==
  ASSUME TypeInv, RevokeInv, RefreshNext, UNCHANGED hvars
  PROVE  Guest
<1>0. store \subseteq Account /\ None \notin Procs
  BY ProcsDiffer DEF TypeInv, HandoffTypeOK, SharedTypeOK
<1>1. CASE RefreshSends \/ RefreshFails
  BY <1>0, <1>1 DEF RefreshSends, RefreshFails, Guest, Alike, shared
<1>2. CASE RefreshSaves
  <2>1. /\ lock = None /\ base \in store
        /\ UNCHANGED <<active, scratch, receipt, lock, binding>>
        /\ \/ store' = {}
           \/ \E t \in 0 .. MaxToken : store' = Upsert(store, [base EXCEPT !.token = t])
    BY <1>2 DEF RefreshSaves
  <2>2. CASE store' = {}
    BY <1>0, <2>1, <2>2 DEF Guest, Unambiguous
  <2>3. ASSUME NEW t \in 0 .. MaxToken, store' = Upsert(store, [base EXCEPT !.token = t])
        PROVE  Guest
    <3> DEFINE e == [base EXCEPT !.token = t]
    <3>1. e \in Account /\ Alike(e, base)
      BY <1>0, <2>1 DEF Account, Alike
    <3>2. store' = {b \in store : b.id # e.id} \union {e}
      BY <2>3 DEF Upsert
    <3> HIDE DEF e
    <3>3. store' \subseteq Account /\ \A a \in store' : \E b \in store : Alike(a, b)
      BY <1>0, <2>1, <3>1, <3>2 DEF Alike
    <3>4. ASSUME Unambiguous(store) PROVE Unambiguous(store')
      BY <2>1, <3>1, <3>2, <3>4 DEF Unambiguous, Alike
    <3> QED
      BY <1>0, <2>1, <3>3, <3>4 DEF Guest
  <2> QED
    BY <2>1, <2>2, <2>3
<1> QED
  BY <1>1, <1>2 DEF RefreshNext

\* Such a step keeps what the sign-ins rest on.
LEMMA GuestKeepsSafe ==
  ASSUME SafeInv, Guest
  PROVE  SafeInv'
<1>0. /\ \A p \in Procs : Inside(p) <=> lock = p
      /\ pc' = pc /\ handoff' = handoff /\ task' = task /\ seen' = seen /\ told' = told
      /\ crashes' = crashes /\ receipt' = receipt /\ binding' = binding /\ botched' = botched
  BY DEF SafeInv, TypeInv, HandoffTypeOK, Guest, hvars
<1>1. TypeInv'
  <2>1. SharedTypeOK'
    BY <1>0 DEF SafeInv, TypeInv, HandoffTypeOK, SharedTypeOK, Guest
  <2>2. \A p \in Procs : Inside(p)' <=> lock' = p
    BY <1>0 DEF Guest, Inside
  <2> QED
    BY <1>0, <2>1, <2>2 DEF SafeInv, TypeInv, HandoffTypeOK, ToolInv, SubjectInv
<1>2. StartInv'
  BY <1>0 DEF SafeInv, StartInv
<1>3. InstallInv'
  <2>1. \A w \in Workers : pc[w] \in {"receipt", "save", "promote"} => active' = active
    BY <1>0, ProcsDiffer DEF Guest, Inside
  <2> QED
    BY <1>0, <2>1 DEF SafeInv, InstallInv, NoSignInDuringSync, Opened, Guest
<1>4. StoreInv'
  BY <1>0 DEF SafeInv, StoreInv, SavedIsOwed, Doubled, FromEnvelope, Opened, Guest, Alike
<1>5. AckInv'
  <2>1. \A p \in Acks : pc[p] = "claim" => store' = store
    BY <1>0, ProcsDiffer DEF Guest, Inside, Acks
  <2>2. \A p \in Acks : On(p)' = On(p)
    BY <1>0 DEF On
  <2> QED
    BY <1>0, <2>1, <2>2 DEF SafeInv, AckInv
<1> QED
  BY <1>1, <1>2, <1>3, <1>4, <1>5 DEF SafeInv

\* And what their outcomes rest on.
LEMMA GuestKeepsOutcomes ==
  ASSUME SafeInv, Guest
  PROVE  /\ AccountInv => AccountInv'
         /\ NoticeInv => NoticeInv'
         /\ FailedInv => FailedInv'
<1>0. /\ \A p \in Procs : Inside(p) <=> lock = p
      /\ pc' = pc /\ handoff' = handoff /\ task' = task /\ told' = told /\ receipt' = receipt
      /\ botched' = botched
  BY DEF SafeInv, TypeInv, HandoffTypeOK, Guest, hvars
<1>1. ASSUME AccountInv PROVE AccountInv'
  <2>1. Unambiguous(store')
    BY <1>1 DEF AccountInv, Guest
  <2>2. \A w \in Workers : pc[w] \in {"receipt", "save"} => store' = store
    BY <1>0, ProcsDiffer DEF Guest, Inside
  <2> QED
    BY <1>0, <1>1, <2>1, <2>2 DEF AccountInv, Admissible, Adds
<1>2. ASSUME NoticeInv PROVE NoticeInv'
  <2>1. \A h \in Handoffs : active' = h => active = h
    BY AccountsAssumption DEF Guest
  <2>2. \A h \in Handoffs : MayWrite(h)' => MayWrite(h)
    BY <1>0, <2>1 DEF MayWrite
  <2> QED
    BY <1>0, <1>2, <2>2 DEF NoticeInv, Announces, On
<1>3. FailedInv => FailedInv'
  BY <1>0 DEF FailedInv, Smooth, Doubled, Guest, Alike
<1> QED
  BY <1>1, <1>2, <1>3


-----------------------------------------------------------------------------
(* The three together.                                                     *)

\* A sign-in that was begun, and whose first worker, if it had no other, is past its
\* save.
Settled(x) == handoff[x].status # "unused" /\ (Doubled(x) \/ pc[<<x, 1>>] \notin Unsaved)

\* Every account has its id from such a sign-in.
SettledInv == \A a \in store : Settled(a.id)

\* A sign-in that may yet put an account of its own name into the registry: its
\* marker stands, or it is being started, or it may be.
CanAdd(x) ==
  \/ handoff[x].status = "unused"
  \/ active = x
  \/ pc[Tool] \in {"posting", "starting"} /\ task.on = x

BaseInv == SafeInv /\ AccountInv /\ NoticeInv /\ RevokeInv /\ SettledInv

\* A step is a sign-in's, a revocation's or a refresh's.
LEMMA Halves ==
  ASSUME TypeInv, RevokeInv, [WorkspaceNext]_everything
  PROVE  \/ [HandoffNext]_allVars /\ UNCHANGED <<dvars, rvars, history>>
         \/ DisconnectNext /\ Remember /\ Guest /\ UNCHANGED <<hvars, rvars>>
         \/ RefreshNext /\ Guest /\ UNCHANGED <<hvars, dvars, history>>
BY RevocationIsGuest, RefreshIsGuest DEF WorkspaceNext, everything, allVars

\* The account that is there to begin with.
LEMMA InstalledFacts ==
  /\ Installed \in Account
  /\ Installed.id = First /\ Installed.from = First /\ Installed.binding = 1
  /\ Installed.by = 1
  /\ First \in Handoffs /\ 1 \in Bindings
<1>1. /\ Subjects # {} /\ First \in Handoffs /\ 1 \in Bindings /\ 0 \in 0 .. MaxToken
      /\ 1 \in Starts
  BY FirstAssumption, AccountsAssumption DEF Bindings, Starts
<1>2. (CHOOSE s \in Subjects : TRUE) \in Subjects
  BY <1>1
<1> QED
  BY <1>1, <1>2 DEF Installed, Account

\* The first state of the sign-ins' half, variable by variable.
LEMMA FirstState ==
  ASSUME WorkspaceInit
  PROVE  /\ store = {Installed} /\ active = None /\ scratch = {} /\ lock = None
         /\ binding = 1 /\ seen = 1 /\ crashes = 0
         /\ receipt = [h \in Handoffs |-> NoReceipt]
         /\ task = [on |-> None, target |-> None]
         /\ told = [h \in Handoffs |-> [ready |-> 0, failed |-> FALSE]]
         /\ handoff = [h \in Handoffs |->
              [status |-> IF h = First THEN "claimed" ELSE "unused",
               target |-> h, binding |-> 1,
               subject |-> IF h = First THEN Installed.subject ELSE None]]
         /\ pc \in [Procs -> {"gone", "off", "idle"}]
         /\ \A w \in Workers : pc[w] = IF w = <<First, 1>> THEN "gone" ELSE "off"
         /\ botched = [h \in Handoffs |-> {}]
         /\ pc[Tool] = "idle" /\ pc[Hook] = "idle"
<1>1. {a.from : a \in {Installed}} = {First}
  BY InstalledFacts
<1>2. (CHOOSE a \in {Installed} : a.from = First) = Installed
  BY InstalledFacts
<1>3. /\ store = {Installed} /\ active = None /\ scratch = {} /\ lock = None
      /\ binding = 1 /\ seen = 1 /\ crashes = 0
      /\ receipt = [h \in Handoffs |-> NoReceipt]
      /\ task = [on |-> None, target |-> None]
      /\ told = [h \in Handoffs |-> [ready |-> 0, failed |-> FALSE]]
      /\ botched = [h \in Handoffs |-> {}]
  BY DEF WorkspaceInit, InitWith, SharedInit
<1>4. handoff = [h \in Handoffs |->
       [status |-> IF h \in {First} THEN "claimed"
                   ELSE IF h \in {} THEN "ended" ELSE "unused",
        target |-> h, binding |-> 1,
        subject |-> IF h \in {First} THEN (CHOOSE a \in {Installed} : a.from = h).subject
                    ELSE None]]
  BY <1>1 DEF WorkspaceInit, InitWith
<1>5. handoff = [h \in Handoffs |->
              [status |-> IF h = First THEN "claimed" ELSE "unused",
               target |-> h, binding |-> 1,
               subject |-> IF h = First THEN Installed.subject ELSE None]]
  BY <1>2, <1>4
<1>10. {<<a.from, a.by>> : a \in {Installed}} = {<<First, 1>>}
  BY InstalledFacts
<1>6. pc = [p \in Procs |-> IF p \in {<<First, 1>>} THEN "gone"
                            ELSE IF p \in Workers THEN "off" ELSE "idle"]
  BY <1>10 DEF WorkspaceInit, InitWith
<1>7. /\ pc \in [Procs -> {"gone", "off", "idle"}]
      /\ \A w \in Workers : pc[w] = IF w = <<First, 1>> THEN "gone" ELSE "off"
      /\ pc[Tool] = "idle" /\ pc[Hook] = "idle"
  <2>1. <<First, 1>> \in Workers
    BY ProcsDiffer, InstalledFacts
  <2>2. pc \in [Procs -> {"gone", "off", "idle"}]
    BY <1>6
  <2>3. \A p \in Procs : pc[p] = IF p = <<First, 1>> THEN "gone"
                                 ELSE IF p \in Workers THEN "off" ELSE "idle"
    BY <1>6
  <2>4. \A w \in Workers : w \in Procs
    BY ProcsDiffer
  <2>5. \A w \in Workers : pc[w] = IF w = <<First, 1>> THEN "gone" ELSE "off"
    BY <2>3, <2>4
  <2>6. Tool \in Procs /\ Hook \in Procs /\ Tool \notin Workers /\ Hook \notin Workers
        /\ Tool # <<First, 1>> /\ Hook # <<First, 1>>
    BY <2>1, ProcsDiffer
  <2>7. pc[Tool] = "idle" /\ pc[Hook] = "idle"
    BY <2>3, <2>6
  <2> QED
    BY <2>2, <2>5, <2>7
<1> QED
  BY <1>3, <1>5, <1>7

\* With one account connected, the sign-ins' invariants hold.
LEMMA FirstStateIsSafe ==
  ASSUME WorkspaceInit
  PROVE  SafeInv /\ AccountInv /\ NoticeInv /\ FailedInv /\ SettledInv
<1>1. /\ \A h \in Handoffs :
           /\ handoff[h].status = IF h = First THEN "claimed" ELSE "unused"
           /\ handoff[h].target = h /\ handoff[h].binding = 1
           /\ handoff[h].subject = IF h = First THEN Installed.subject ELSE None
           /\ receipt[h] = NoReceipt /\ botched[h] = {} /\ told[h].ready = 0 /\ ~told[h].failed
           /\ handoff[h] \in SignIns
      /\ handoff \in [Handoffs -> SignIns]
  <2>1. Installed.subject \in Subjects
    BY InstalledFacts DEF Account
  <2> QED
    BY <2>1, FirstState, InstalledFacts DEF SignIns, Statuses
<1>2. TypeInv
  <2>1. SharedTypeOK
    BY FirstState, InstalledFacts DEF SharedTypeOK
  <2>2. \A p \in Procs : ~Inside(p) /\ lock # p
    <3>1. \A p \in Procs : pc[p] \in {"gone", "off", "idle"} /\ p # None
      BY FirstState, ProcsDiffer
    <3>2. lock = None
      BY FirstState
    <3> QED
      BY <3>1, <3>2 DEF Inside
  <2>3. /\ told \in [Handoffs -> [ready : Nat, failed : BOOLEAN]]
        /\ crashes \in 0 .. MaxCrashes /\ seen \in Bindings
        /\ botched \in [Handoffs -> SUBSET {"save", "promote"}]
        /\ task \in [on : Handoffs \union {None}, target : Handoffs \union {None}]
    <3>1. told = [h \in Handoffs |-> [ready |-> 0, failed |-> FALSE]]
      BY FirstState
    <3>2. told \in [Handoffs -> [ready : Nat, failed : BOOLEAN]]
      BY <3>1
    <3>4. botched \in [Handoffs -> SUBSET {"save", "promote"}]
      BY FirstState
    <3>3. crashes = 0 /\ MaxCrashes \in Nat /\ seen = 1
          /\ task = [on |-> None, target |-> None]
      BY FirstState, HandoffAssumption
    <3> QED
      BY <3>2, <3>3, <3>4, InstalledFacts
  <2>4. pc \in [Procs -> PcStates]
    BY FirstState DEF PcStates
  <2>5. ToolInv /\ SubjectInv
    BY <1>1, FirstState, InstalledFacts, Pairs DEF ToolInv, SubjectInv, Account
  <2> QED
    BY <1>1, <2>1, <2>2, <2>3, <2>4, <2>5 DEF TypeInv, HandoffTypeOK
<1>3. StartInv
  BY <1>1, FirstState, Pairs DEF StartInv
<1>4. InstallInv
  BY <1>1, FirstState, Pairs DEF InstallInv, NoSignInDuringSync
<1>5. StoreInv
  BY <1>1, FirstState, InstalledFacts, Pairs
  DEF StoreInv, FromEnvelope, SavedIsOwed, Opened, Unsaved, Unwritten
<1>6. AckInv /\ NoticeInv
  <2>1. \A p \in Acks : pc[p] \in {"gone", "off", "idle"}
    BY FirstState, ProcsDiffer DEF Acks
  <2>2. AckInv
    BY <2>1 DEF AckInv
  <2>3. \A p \in Acks, h \in Handoffs : ~Announces(p, h)
    BY <2>1 DEF Announces
  <2> QED
    BY <1>1, <2>2, <2>3 DEF NoticeInv
<1>7. AccountInv
  BY <1>1, FirstState DEF AccountInv, Unambiguous
<1>8. FailedInv /\ SettledInv
  BY <1>1, FirstState, InstalledFacts, Pairs
  DEF FailedInv, SettledInv, Settled, Unsaved, Unwritten
<1> QED
  BY <1>2, <1>3, <1>4, <1>5, <1>6, <1>7, <1>8 DEF SafeInv

\* The revocations' half begins with nothing under way.
LEMMA NothingUnderWay ==
  ASSUME WorkspaceInit
  PROVE  /\ RevokeInv /\ refresher = "idle" /\ dpc[Asker] = "idle"
         /\ barred = {} /\ revoked = {} /\ beside = {}
         /\ \A i \in Intents :
              /\ intent[i].status = "unused" /\ ~intent[i].claimed /\ kept[i] = "none"
              /\ AskerAt(i) = "idle"
              /\ \A c \in Copies : dpc[<<i, c>>] = "off"
<1>1. /\ intent = [i \in Intents |-> [status |-> "unused", id |-> None, claimed |-> FALSE]]
      /\ kept = [i \in Intents |-> "none"]
      /\ expect = [i \in Intents |-> None]
      /\ dpc = [p \in Revokers |-> IF p = Asker THEN "idle" ELSE "off"]
      /\ refresher = "idle" /\ barred = {} /\ revoked = {} /\ beside = {}
      /\ lock = None
  BY FirstState DEF WorkspaceInit, DisconnectInit, RefreshInit, Revokers
<1>2. /\ dpc[Asker] = "idle" /\ \A i \in Intents, c \in Copies : dpc[<<i, c>>] = "off"
      /\ \A p \in Revokers : dpc[p] \in {"idle", "off"}
  BY <1>1, RevokersDiffer
<1>3. intent \in [Intents -> IntentRecord] /\ \A i \in Intents :
        intent[i].status = "unused" /\ ~intent[i].claimed /\ kept[i] = "none"
  BY <1>1 DEF IntentRecord
<1>4. RevokeTypes
  BY <1>1, <1>2, <1>3 DEF RevokeTypes, KeptStates, DpcStates
<1>5. \A p \in Revokers : ~Holds(p) /\ lock # p
  BY <1>1, <1>2, RevokersDiffer DEF Holds
<1> QED
  BY <1>1, <1>2, <1>3, <1>4, <1>5 DEF RevokeInv, AskerAt

\* A save puts an account in the registry under an id of its own, or of an
\* account that is there.
LEMMA SavesUnderKnownId ==
  ASSUME SafeInv, AccountInv, NEW w \in Workers, SaveCredential(w),
         store' = Upsert(store, Envelope(w))
  PROVE  /\ pc[w] = "save" /\ pc'[w] \in {"promote", "clear"} /\ active = w[1]
         /\ Envelope(w).id \in Handoffs
         /\ Envelope(w).id = w[1] \/ Saved(Envelope(w).id)
         /\ \A a \in store' : a = Envelope(w) \/ a \in store
<1>0. /\ pc \in [Procs -> PcStates] /\ w \in Procs /\ w[1] \in Handoffs
      /\ handoff[w[1]] \in SignIns
  BY ProcsDiffer DEF SafeInv, TypeInv, HandoffTypeOK
<1>1. Envelope(w).id = handoff[w[1]].target
  BY DEF Envelope
<1>2. pc[w] = "save" /\ pc'[w] \in {"promote", "clear"}
  BY <1>0 DEF SaveCredential, Goto, Leave
<1>3. \A a \in store' : a = Envelope(w) \/ a \in store
  BY DEF Upsert
<1>4. active = w[1]
  BY <1>2 DEF SafeInv, InstallInv
<1>5. Admissible(w[1])
  BY <1>2 DEF AccountInv
<1>6. handoff[w[1]].target = w[1] \/ Saved(handoff[w[1]].target)
  BY <1>5 DEF Admissible, Adds, Saved
<1> QED
  BY <1>0, <1>1, <1>2, <1>3, <1>4, <1>6 DEF SignIns

\* A worker appears only with the start of its sign-in.
LEMMA StartedByTool ==
  ASSUME SafeInv, [HandoffNext]_allVars, NEW g \in Workers, pc'[g] # "off"
  PROVE  pc[g] # "off" \/ (pc[Tool] = "starting" /\ task.on = g[1])
<1>0. pc \in [Procs -> PcStates]
  BY DEF SafeInv, TypeInv, HandoffTypeOK
<1>1. CASE Connects
  BY <1>0, <1>1, ProcsDiffer
  DEF Connects, ConnectBegin, ConnectFindsStale, ConnectPosts, ConnectStarts,
      ConnectCannotSpawn, ConnectEnds, hvars, Goto, Leave
<1>2. ASSUME NEW w \in Workers, Polls(w) PROVE pc[g] # "off"
  BY <1>0, <1>2, ProcsDiffer
  DEF Polls, WorkerReadsKey, WorkerChecksMarker, WorkerPolls, WorkerClears, WorkerDenies,
      WorkerCloses, Goto
<1>3. ASSUME NEW w \in Workers, Installs(w) PROVE pc[g] # "off"
  BY <1>0, <1>3, ProcsDiffer
  DEF Installs, InstallSuperseded, InstallUnassigned, InstallRejected, InstallBegins,
      WriteReceipt, SaveCredential, PromoteReceipt, Goto, Leave
<1>4. ASSUME NEW h \in Handoffs, RecoverBegins(h) PROVE pc[g] # "off"
  BY <1>0, <1>4, ProcsDiffer DEF RecoverBegins, Goto
<1>5. ASSUME NEW p \in Acks, Acknowledges(p) PROVE pc[g] # "off"
  BY <1>0, <1>5, ProcsDiffer
  DEF Acks, Acknowledges, AckGivesUp, AckOrphaned, AckUnassigned, AckBegins, ClaimAccepted,
      ClaimUnanswered, RetireReceipt, ReadyNotice, Acknowledging, AfterAck, Goto, Leave
<1>6. CASE HookReads \/ HookWipes
  BY <1>0, <1>6, ProcsDiffer DEF HookReads, HookWipes, Goto
<1>7. CASE Environment \/ UNCHANGED allVars
  BY <1>0, <1>7, EnvironmentMoves
<1> QED
  BY <1>1, <1>2, <1>3, <1>4, <1>5, <1>6, <1>7 DEF HandoffNext, Acks

\* A settled sign-in stays settled, gets no second worker, and its marker does not
\* come back.
LEMMA SettledStays ==
  ASSUME SafeInv, [HandoffNext]_allVars, NEW x \in Handoffs, Settled(x)
  PROVE  Settled(x)' /\ (Doubled(x)' <=> Doubled(x)) /\ (CanAdd(x)' => CanAdd(x))
<1>1. <<x, 1>> \in Workers /\ <<x, 2>> \in Workers /\ <<x, 1>>[1] = x /\ <<x, 2>>[1] = x
  BY Pairs
<1>2. handoff'[x].status # "unused"
  BY OpenedStays DEF Settled, SafeInv
<1>3. CanAdd(x)' => CanAdd(x)
  BY MarkerSet, StartSet, OpenedStays DEF CanAdd, SafeInv
<1>4. Doubled(x) => Doubled(x)'
  BY BeenDoubled
<1>5. ASSUME Doubled(x)', ~Doubled(x) PROVE FALSE
  <2>1. pc[<<x, 1>>] \notin Unsaved
    BY <1>5 DEF Settled
  <2>2. pc[Tool] = "starting" /\ task.on = x
    BY <1>1, <1>5, StartedByTool DEF Doubled
  <2>3. pc[<<x, 1>>] = "off"
    BY <1>1, <2>2 DEF SafeInv, StartInv
  <2> QED
    BY <2>1, <2>3 DEF Unsaved, Unwritten
<1>6. pc[<<x, 1>>] \notin Unsaved => pc'[<<x, 1>>] \notin Unsaved
  BY <1>1, NoWayBack
<1> QED
  BY <1>2, <1>3, <1>4, <1>5, <1>6 DEF Settled

\* An account that is gone stays gone, if its sign-in had one worker or may add
\* nothing any more: its id is never given again.
LEMMA GoneStays ==
  ASSUME BaseInv, [WorkspaceNext]_everything, NEW x \in Handoffs, Settled(x)
  PROVE  /\ Settled(x)' /\ (Doubled(x)' <=> Doubled(x)) /\ (CanAdd(x)' => CanAdd(x))
         /\ ~Saved(x) /\ (~Doubled(x) \/ ~CanAdd(x)) => ~Saved(x)'
<1>1. CASE [HandoffNext]_allVars
  <2>1. Settled(x)' /\ (Doubled(x)' <=> Doubled(x)) /\ (CanAdd(x)' => CanAdd(x))
    BY <1>1, SettledStays DEF BaseInv
  <2>2. CASE store' = store \/ store' = {}
    BY <2>1, <2>2 DEF Saved
  <2>3. ASSUME NEW w \in Workers, SaveCredential(w), store' = Upsert(store, Envelope(w))
        PROVE  ~Saved(x) /\ (~Doubled(x) \/ ~CanAdd(x)) => ~Saved(x)'
    <3>1. /\ pc[w] = "save" /\ active = w[1]
          /\ Envelope(w).id = w[1] \/ Saved(Envelope(w).id)
          /\ \A a \in store' : a = Envelope(w) \/ a \in store
      BY <2>3, SavesUnderKnownId DEF BaseInv
    <3>2. CASE Envelope(w).id # x \/ Saved(x)
      BY <3>1, <3>2 DEF Saved
    <3>3. CASE Envelope(w).id = x /\ ~Saved(x)
      <4>1. w[1] = x
        BY <3>1, <3>3
      <4>2. CanAdd(x)
        BY <3>1, <4>1 DEF CanAdd
      <4>3. ~Doubled(x) => w = <<x, 1>>
        BY <3>1, <4>1, OneStart DEF BaseInv
      <4> QED
        BY <3>1, <4>2, <4>3 DEF Settled, Unsaved
    <3> QED
      BY <3>2, <3>3
  <2> QED
    BY <1>1, <2>1, <2>2, <2>3, RegistryMoves DEF BaseInv
<1>2. CASE Guest
  <2>1. active' = x => active = x
    BY <1>2, AccountsAssumption DEF Guest
  <2>2. Settled(x)' /\ (Doubled(x)' <=> Doubled(x)) /\ (CanAdd(x)' => CanAdd(x))
    BY <1>2, <2>1 DEF Guest, hvars, Settled, Doubled, CanAdd
  <2>3. ~Saved(x) => ~Saved(x)'
    BY <1>2 DEF Guest, Saved, Alike
  <2> QED
    BY <2>2, <2>3
<1> QED
  BY <1>1, <1>2, Halves DEF BaseInv, SafeInv


\* What the three rest on is kept by every step.
LEMMA BaseStep == BaseInv /\ [WorkspaceNext]_everything => BaseInv'
<1> SUFFICES ASSUME BaseInv, [WorkspaceNext]_everything PROVE BaseInv'
  OBVIOUS
<1>0. SafeInv /\ AccountInv /\ NoticeInv /\ TypeInv /\ RevokeInv /\ SettledInv
  BY DEF BaseInv, SafeInv
<1>1. CASE [HandoffNext]_allVars /\ UNCHANGED <<dvars, rvars, history>>
  <2>1. SafeInv' /\ AccountInv' /\ NoticeInv'
    BY <1>0, <1>1, SafeStep, AccountStep, NoticeStep
  <2>2. RevokeInv'
    <3>1. \A p \in Revokers : lock' = p <=> lock = p
      BY <1>0, <1>1, LocksApart, RevokersDiffer
    <3> QED
      BY <1>0, <1>1, <3>1 DEF RevokeInv, RevokeTypes, Holds, dvars, rvars
  <2>3. SettledInv'
    <3>1. \A a \in store : a.id \in Handoffs
      BY <1>0 DEF TypeInv, HandoffTypeOK, SharedTypeOK, Account
    <3>2. \A a \in store : Settled(a.id)'
      BY <1>0, <1>1, <3>1, SettledStays DEF SettledInv
    <3>3. ASSUME NEW w \in Workers, SaveCredential(w), store' = Upsert(store, Envelope(w))
          PROVE  \A a \in store' : Settled(a.id)'
      <4>1. /\ pc[w] = "save" /\ pc'[w] \in {"promote", "clear"}
            /\ Envelope(w).id = w[1] \/ Saved(Envelope(w).id)
            /\ \A a \in store' : a = Envelope(w) \/ a \in store
        BY <1>0, <3>3, SavesUnderKnownId
      <4>2. handoff'[w[1]].status # "unused"
        <5>1. Opened(w[1]) /\ w[1] \in Handoffs
          BY <1>0, <4>1, Pairs DEF SafeInv, InstallInv
        <5> QED
          BY <1>0, <1>1, <5>1, OpenedStays DEF SafeInv, Opened
      <4>3. Doubled(w[1])' \/ w = <<w[1], 1>>
        BY <4>1, Pairs DEF Doubled, Starts
      <4>4. Settled(w[1])'
        BY <4>1, <4>2, <4>3 DEF Settled, Unsaved, Unwritten
      <4> QED
        BY <3>2, <4>1, <4>4 DEF Saved
    <3> QED
      BY <1>0, <1>1, <3>2, <3>3, RegistryMoves DEF SettledInv
  <2> QED
    BY <2>1, <2>2, <2>3 DEF BaseInv
<1>2. ASSUME Guest PROVE SafeInv' /\ AccountInv' /\ NoticeInv' /\ SettledInv'
  <2>1. SettledInv'
    <3>1. pc' = pc /\ handoff' = handoff /\ \A a \in store' : \E b \in store : a.id = b.id
      BY <1>2 DEF Guest, hvars, Alike
    <3>2. \A x : Settled(x)' <=> Settled(x)
      BY <3>1 DEF Settled, Doubled
    <3> QED
      BY <1>0, <3>1, <3>2 DEF SettledInv
  <2> QED
    BY <1>0, <1>2, <2>1, GuestKeepsSafe, GuestKeepsOutcomes
<1>3. CASE DisconnectNext /\ Guest /\ UNCHANGED <<hvars, rvars>>
  BY <1>0, <1>2, <1>3, RevokeStep DEF BaseInv
<1>4. CASE RefreshNext /\ Guest /\ UNCHANGED <<hvars, dvars, history>>
  <2>1. lock' = lock /\ (refresher' = "sent" => base' \in Account)
    BY <1>0, <1>4
    DEF RefreshNext, RefreshSends, RefreshFails, RefreshSaves, shared, RevokeInv, RevokeTypes,
        TypeInv, HandoffTypeOK, SharedTypeOK
  <2>2. RevokeInv'
    BY <1>0, <1>4, <2>1 DEF RevokeInv, RevokeTypes, Holds, dvars
  <2> QED
    BY <1>2, <1>4, <2>2 DEF BaseInv
<1> QED
  BY <1>0, <1>1, <1>3, <1>4, Halves

\* And holds to begin with.
LEMMA BaseHolds == WorkspaceSpec => []BaseInv
<1>1. WorkspaceInit => BaseInv
  BY FirstStateIsSafe, NothingUnderWay DEF BaseInv
<1> QED
  BY <1>1, BaseStep, PTL DEF WorkspaceSpec

\* How one step of everything looks to one revocation: its own half moves it,
\* the others leave it where it is.
LEMMA EachRevocation ==
  ASSUME BaseInv, [WorkspaceNext]_everything, NEW i \in Intents
  PROVE  \/ /\ Same(i) /\ UNCHANGED <<dvars, history>>
            /\ [HandoffNext]_allVars \/ RefreshNext
         \/ DisconnectNext /\ RevocationMoves(i) /\ Remember /\ Guest
<1>1. TypeInv /\ RevokeInv
  BY DEF BaseInv, SafeInv
<1>2. UNCHANGED dvars => Same(i)
  BY DEF Same, dvars, AskerAt, Stands
<1> QED
  BY <1>1, <1>2, Halves, RevocationStep

-----------------------------------------------------------------------------
(* A revocation and its account.                                           *)

\* A revocation nobody asked for has left no trace; one that was is for an
\* account that was saved.
IntentInv ==
  \A i \in Intents :
    IF intent[i].status = "unused"
      THEN /\ kept[i] = "none" /\ AskerAt(i) = "idle" /\ ~intent[i].claimed
           /\ i \notin revoked
           /\ \A c \in Copies : dpc[<<i, c>>] = "off"
      ELSE /\ expect[i] \in Account /\ expect[i].id = intent[i].id
           /\ Settled(expect[i].id)

\* Only an unlink changes the registry, whether or not it raises.
LEMMA DeletionMoves ==
  ASSUME RevokeInv, DisconnectNext
  PROVE  \/ store' = store
         \/ \E i \in Intents, c \in Copies :
              /\ dpc[<<i, c>>] = "unlink" /\ dpc'[<<i, c>>] \in {"promote", "gone"}
              /\ Deletes(i)
<1>1. ASSUME NEW w \in Deleters, Revokes(w), ~Unlink(w), ~UnlinkFails(w) PROVE store' = store
  BY <1>1
  DEF Revokes, WorkerStarts, WorkerFails, WorkerLooks, WorkerAsks, WorkerRetracts, WorkerIsLate,
      DeleteRefused, DeleteBegins, ClaimConfirmed, ClaimTooLate, ClaimLost, Promote,
      ResumeClaims, ReportAccepted, ReportUnanswered, shared
<1>2. ASSUME NEW i \in Intents, NEW c \in Copies, Unlink(<<i, c>>)
      PROVE  /\ dpc[<<i, c>>] = "unlink" /\ dpc'[<<i, c>>] = "promote" /\ Deletes(i)
  BY <1>2, RevokersDiffer, ToMoves DEF Unlink, Deletes, RevokeInv
<1>3. ASSUME NEW i \in Intents, NEW c \in Copies, UnlinkFails(<<i, c>>), store' # store
      PROVE  /\ dpc[<<i, c>>] = "unlink" /\ dpc'[<<i, c>>] = "gone" /\ Deletes(i)
  BY <1>3, RevokersDiffer, ToMoves DEF UnlinkFails, Exit, Deletes, RevokeInv
<1>4. CASE Asks \/ World
  BY <1>4
  DEF Asks, AskBegins, AskWrites, AskRefused, AskSeesWorker, AskSeesNoWorker, AskActivates,
      AskUndoes, AskCutShort, World, UserConfirms, IntentEnds, DeadlinePasses, Sweeps, Resumes,
      Dies, shared
<1> QED
  BY <1>1, <1>2, <1>3, <1>4 DEF DisconnectNext, Deleters

\* What a deletion adds to the history.
LEMMA Remembered ==
  ASSUME RevokeInv, DisconnectNext, Remember
  PROVE  /\ \A i \in revoked' : i \in revoked \/
              /\ i \in Intents /\ Deletes(i) /\ lock \notin Procs
              /\ \E c \in Copies : dpc[<<i, c>>] = "unlink" /\ dpc'[<<i, c>>] = "promote"
         /\ \A h \in barred' : h \in barred \/ (h \in BarredNow /\ active' = None /\ lock \notin Procs)
<1>1. \A i \in Intents, c \in Copies : dpc[<<i, c>>] = "unlink" => lock \notin Procs
  BY RevokersDiffer DEF RevokeInv, Holds
<1>2. ASSUME NEW i \in Intents, NEW c \in Copies, Unlink(<<i, c>>)
      PROVE  /\ dpc[<<i, c>>] = "unlink" /\ dpc'[<<i, c>>] = "promote" /\ Deletes(i)
  BY <1>2, RevokersDiffer, ToMoves DEF Unlink, Deletes, RevokeInv
<1>3. \A i \in revoked' : i \in revoked \/ (i \in Intents /\ \E c \in Copies : Unlink(<<i, c>>))
  BY DEF Remember
<1>4. ASSUME NEW h \in barred', h \notin barred
      PROVE  h \in BarredNow /\ active' = None /\ lock \notin Procs
  <2>1. store' # store /\ h \in BarredNow
    BY <1>4 DEF Remember
  <2> QED
    BY <1>1, <2>1, DeletionMoves DEF Deletes
<1> QED
  BY <1>1, <1>2, <1>3, <1>4

\* IntentInv is kept.
LEMMA IntentStep == BaseInv /\ IntentInv /\ [WorkspaceNext]_everything => IntentInv'
<1> SUFFICES ASSUME BaseInv, IntentInv, [WorkspaceNext]_everything, NEW i \in Intents
             PROVE  IF intent'[i].status = "unused"
                      THEN /\ kept'[i] = "none" /\ AskerAt(i)' = "idle" /\ ~intent'[i].claimed
                           /\ i \notin revoked'
                           /\ \A c \in Copies : dpc'[<<i, c>>] = "off"
                      ELSE /\ expect'[i] \in Account /\ expect'[i].id = intent'[i].id
                           /\ Settled(expect[i].id)'
  BY DEF IntentInv
<1>0. /\ RevokeInv /\ store \subseteq Account /\ intent[i] \in IntentRecord
      /\ \A a \in store : Settled(a.id)
  BY DEF BaseInv, SafeInv, TypeInv, HandoffTypeOK, SharedTypeOK, RevokeInv, RevokeTypes, SettledInv
<1>1. ASSUME NEW a \in Account, Settled(a.id) PROVE Settled(a.id)'
  BY <1>1, GoneStays DEF Account
<1>2. CASE intent[i].status # "unused" /\ intent'[i].status # "unused"
           /\ expect'[i] = expect[i] /\ intent'[i].id = intent[i].id
  <2>1. expect[i] \in Account /\ Settled(expect[i].id)
    BY <1>2 DEF IntentInv
  <2>2. Settled(expect[i].id)'
    <3>1. PICK a \in Account : a = expect[i]
      BY <2>1
    <3>2. Settled(a.id)'
      BY <1>1, <2>1, <3>1
    <3> QED
      BY <1>2, <3>1, <3>2 DEF Settled, Doubled
  <2>3. expect'[i].id = intent'[i].id
    BY <1>2 DEF IntentInv
  <2> QED
    BY <1>2, <2>1, <2>2, <2>3
<1>3. CASE Same(i) /\ UNCHANGED history
  BY <1>2, <1>3 DEF Same, Stands, IntentInv, history
<1>4. CASE DisconnectNext /\ RevocationMoves(i) /\ Remember
  <2>1. i \in revoked' =>
              \/ i \in revoked
              \/ \E c \in Copies : dpc[<<i, c>>] = "unlink" /\ dpc'[<<i, c>>] = "promote"
    BY <1>0, <1>4, Remembered
  <2>2. CASE Same(i)
    BY <1>2, <2>1, <2>2 DEF Same, Stands, IntentInv
  <2>3. CASE Answers(i) /\ \A c \in Copies : Stands(i, c)
    <3>1. CASE intent[i].status = "unused" /\ intent'[i].status = "created"
      <4>1. expect'[i] \in store /\ intent'[i].id = expect'[i].id
        BY <2>3, <3>1 DEF Answers, Plain, Failed, Ended, Open, Becomes
      <4>2. PICK a \in Account : a = expect'[i] /\ Settled(a.id)'
        BY <1>0, <1>1, <4>1
      <4>3. Settled(expect[i].id)'
        BY <4>2 DEF Settled, Doubled
      <4> QED
        BY <3>1, <4>1, <4>2, <4>3
    <3>2. CASE intent[i].status = "unused" /\ intent'[i].status = "unused"
      BY <1>0, <2>1, <2>3, <3>2
      DEF Answers, Stands, IntentInv, Plain, Failed, Ended, Open, Becomes
    <3>3. CASE intent[i].status # "unused"
      BY <1>2, <2>3, <3>3 DEF Answers, Plain, Failed, Ended, Open, Becomes
    <3> QED
      BY <2>3, <3>1, <3>2, <3>3 DEF Answers, Plain, Failed, Ended, Open, Becomes
  <2>4. CASE /\ Happens(i) /\ expect'[i] = expect[i] /\ AskerAt(i)' = AskerAt(i)
             /\ \A c \in Copies : Stands(i, c)
    BY <1>2, <2>1, <2>4 DEF Happens, Stands, IntentInv, Open, Becomes
  <2>5. CASE Spawns(i)
    BY <1>2, <2>5 DEF Spawns, IntentInv
  <2>6. ASSUME NEW c \in Copies,
               /\ \A d \in Copies : d # c => Stands(i, d)
               /\ expect'[i] = expect[i] /\ AskerAt(i)' = AskerAt(i)
               /\ WorkerTurns(i, c)
        PROVE  intent[i].status # "unused" /\ intent'[i].status # "unused"
               /\ expect'[i] = expect[i] /\ intent'[i].id = intent[i].id
    <3>1. intent[i].status # "unused"
      BY <2>6
      DEF IntentInv, WorkerTurns, Waits, GivesUp, GoesOn, IsHeard, ComesOrGoes
    <3> QED
      BY <2>6, <3>1
      DEF WorkerTurns, Waits, GivesUp, GoesOn, IsHeard, ComesOrGoes, Plain, Failed,
          Ended, Open, Claimed, Becomes
  <2> QED
    BY <1>2, <1>4, <2>2, <2>3, <2>4, <2>5, <2>6 DEF RevocationMoves
<1> QED
  BY <1>3, <1>4, EachRevocation DEF history


-----------------------------------------------------------------------------
(* What is reported deleted is deleted.                                    *)

\* A deletion that happened, or is about to be reported or recorded.
Gone(i) ==
  \/ intent[i].status = "disconnected" \/ kept[i] = "disconnected" \/ i \in revoked
  \/ \E c \in Copies : dpc[<<i, c>>] \in {"promote", "report"}

\* Its account is not saved, or the account had gone by itself and a second worker of
\* its sign-in has brought it back; where the revocation deleted it none can.
GoneInv ==
  \A i \in Intents : Gone(i) =>
    /\ ~Saved(expect[i].id) \/ (Doubled(expect[i].id) /\ i \notin revoked)
    /\ i \in revoked => ~CanAdd(expect[i].id)

\* A deletion begins to be over only in the unlink, or where nothing is saved.
LEMMA WhenceGone ==
  ASSUME BaseInv, IntentInv, [WorkspaceNext]_everything, NEW i \in Intents, Gone(i)'
  PROVE  /\ expect'[i] = expect[i] /\ intent[i].status # "unused"
         /\ Gone(i) \/ ~Saved(expect[i].id) \/ ~Saved(expect[i].id)'
         /\ i \in revoked' => i \in revoked \/ (Deletes(i) /\ lock \notin Procs /\ Guest)
<1>0. RevokeInv
  BY DEF BaseInv
<1>1. CASE Same(i) /\ UNCHANGED history
  BY <1>1 DEF Same, Stands, Gone, IntentInv, history
<1>2. CASE DisconnectNext /\ RevocationMoves(i) /\ Remember /\ Guest
  <2>1. i \in revoked' =>
              \/ i \in revoked
              \/ /\ Deletes(i) /\ lock \notin Procs
                 /\ \E c \in Copies : dpc[<<i, c>>] = "unlink" /\ dpc'[<<i, c>>] = "promote"
    BY <1>0, <1>2, Remembered
  <2>2. CASE Same(i)
    BY <1>2, <2>1, <2>2 DEF Same, Stands, IntentInv, Gone
  <2>3. CASE Answers(i) /\ \A c \in Copies : Stands(i, c)
    BY <1>0, <1>2, <2>1, <2>3
    DEF Answers, Stands, IntentInv, Plain, Failed, Ended, Open, Becomes, Gone
  <2>4. CASE /\ Happens(i) /\ expect'[i] = expect[i] /\ AskerAt(i)' = AskerAt(i)
             /\ \A c \in Copies : Stands(i, c)
    BY <1>0, <1>2, <2>1, <2>4 DEF Happens, Stands, IntentInv, Open, Becomes, Gone
  <2>5. CASE Spawns(i)
    BY <1>2, <2>1, <2>5 DEF Spawns, IntentInv, Gone
  <2>6. ASSUME NEW c \in Copies, \A d \in Copies : d # c => Stands(i, d),
               expect'[i] = expect[i], WorkerTurns(i, c)
        PROVE  /\ expect'[i] = expect[i] /\ intent[i].status # "unused"
               /\ Gone(i) \/ ~Saved(expect[i].id) \/ ~Saved(expect[i].id)'
    <3>1. intent[i].status # "unused"
      BY <1>0, <2>6
      DEF IntentInv, WorkerTurns, Waits, GivesUp, GoesOn, IsHeard, ComesOrGoes
    <3>2. CASE dpc[<<i, c>>] = "unlink" /\ dpc'[<<i, c>>] = "promote"
      <4>1. store' = {a \in store : a.id # expect[i].id}
        BY <2>6, <3>2 DEF WorkerTurns, Waits, GivesUp, GoesOn, IsHeard, ComesOrGoes, Deletes
      <4> QED
        BY <2>6, <3>1, <4>1 DEF Saved
    <3>3. CASE ~(dpc[<<i, c>>] = "unlink" /\ dpc'[<<i, c>>] = "promote")
      <4>1. i \in revoked' => i \in revoked
        BY <2>1, <2>6, <3>3 DEF Stands
      <4>2. CASE ~Waits(i, c) /\ ~ComesOrGoes(i, c) /\ ~GivesUp(i, c)
        BY <2>6, <3>1, <3>3, <4>1, <4>2
        DEF Gone, Stands, WorkerTurns, GoesOn, IsHeard, Failed, Ended, Claimed, Becomes, Recorded
      <4>3. CASE Waits(i, c) \/ ComesOrGoes(i, c) \/ GivesUp(i, c)
        BY <2>6, <3>1, <4>1, <4>3
        DEF Gone, Stands, Waits, GivesUp, ComesOrGoes, Plain, Failed, Ended, Claimed
      <4> QED
        BY <2>6, <4>2, <4>3
    <3> QED
      BY <3>2, <3>3
  <2> QED
    BY <1>2, <2>1, <2>2, <2>3, <2>4, <2>5, <2>6 DEF RevocationMoves
<1> QED
  BY <1>1, <1>2, EachRevocation

\* GoneInv is kept: an account a revocation has deleted does not come back.
LEMMA GoneStep ==
  ASSUME BaseInv, IntentInv, GoneInv, [WorkspaceNext]_everything
  PROVE  GoneInv'
<1> SUFFICES ASSUME NEW i \in Intents, Gone(i)'
             PROVE  /\ ~Saved(expect[i].id)' \/ (Doubled(expect[i].id)' /\ i \notin revoked')
                    /\ i \in revoked' => ~CanAdd(expect[i].id)'
  BY DEF GoneInv
<1> DEFINE x == expect[i].id
<1>1. /\ expect'[i] = expect[i] /\ intent[i].status # "unused"
      /\ Gone(i) \/ ~Saved(x) \/ ~Saved(x)'
      /\ i \in revoked' => i \in revoked \/ (Deletes(i) /\ lock \notin Procs /\ Guest)
  BY WhenceGone
<1>2. x \in Handoffs /\ Settled(x)
  BY <1>1 DEF IntentInv, Account
<1>3. PICK y \in Handoffs : y = x
  BY <1>2
<1>4. /\ expect'[i].id = y
      /\ Saved(x) <=> Saved(y)
      /\ Saved(expect[i].id)' <=> Saved(y)'
      /\ Doubled(expect[i].id)' <=> Doubled(y)'
      /\ CanAdd(expect[i].id)' <=> CanAdd(y)'
  BY <1>1, <1>3 DEF Saved, Doubled, CanAdd
<1>5. /\ (Doubled(y)' <=> Doubled(y)) /\ (CanAdd(y)' => CanAdd(y))
      /\ ~Saved(y) /\ (~Doubled(y) \/ ~CanAdd(y)) => ~Saved(y)'
  BY <1>2, <1>3, GoneStays
<1>6. /\ Gone(i) => ~Saved(y) \/ (Doubled(y) /\ i \notin revoked)
      /\ i \in revoked => Gone(i) /\ ~CanAdd(y)
  BY <1>3 DEF GoneInv, Gone
<1>7. ~Saved(x)' => ~Saved(y)'
  BY <1>1, <1>3 DEF Saved
<1>8. CASE i \in revoked
  BY <1>4, <1>5, <1>6, <1>8
<1>9. CASE i \in revoked' /\ i \notin revoked
  <2>1. Deletes(i) /\ lock \notin Procs /\ Guest
    BY <1>1, <1>9
  <2>2. ~Saved(y)'
    BY <1>3, <2>1 DEF Deletes, Saved
  <2>3. pc[Tool] \notin {"posting", "starting"}
    BY <2>1, ProcsDiffer DEF BaseInv, SafeInv, TypeInv, HandoffTypeOK, Inside
  <2>4. pc' = pc /\ handoff' = handoff /\ active' = None
    BY <2>1 DEF Guest, hvars, Deletes
  <2>5. ~CanAdd(y)'
    BY <1>2, <1>3, <2>3, <2>4, AccountsAssumption DEF CanAdd, Settled
  <2> QED
    BY <1>4, <2>2, <2>5
<1>10. CASE i \notin revoked'
  BY <1>1, <1>3, <1>4, <1>5, <1>6, <1>7, <1>8, <1>10
<1> QED
  BY <1>8, <1>9, <1>10

\* Revocations and what they deleted, in every reachable state.
LEMMA Revocations == WorkspaceSpec => [](BaseInv /\ IntentInv /\ GoneInv)
<1>1. WorkspaceInit => IntentInv /\ GoneInv
  <2> SUFFICES ASSUME WorkspaceInit PROVE IntentInv /\ GoneInv
    OBVIOUS
  <2> QED
    BY NothingUnderWay DEF IntentInv, GoneInv, Gone
<1>2. BaseInv /\ IntentInv /\ GoneInv /\ [WorkspaceNext]_everything => IntentInv' /\ GoneInv'
  BY IntentStep, GoneStep
<1> QED
  BY <1>1, <1>2, BaseHolds, PTL DEF WorkspaceSpec

\* A sign-in, a revocation and a refresh exclude each other by one lifecycle
\* lock, every variable has its type, and the platform shows a revocation as
\* done only when the account is off this Computer, or was before the revocation
\* came to it and a second worker of its sign-in has saved it since
\* (_complete_disconnect_intent, _delete_confirmed_disconnect).
THEOREM WorkspaceSoundHolds == WorkspaceSpec => []WorkspaceSound
<1>1. BaseInv /\ IntentInv /\ GoneInv => WorkspaceSound
  <2> SUFFICES ASSUME BaseInv, IntentInv, GoneInv PROVE WorkspaceSound
    OBVIOUS
  <2>1. SafeInv /\ TypeInv /\ RevokeInv
    BY DEF BaseInv, SafeInv
  <2>2. ASSUME NEW p \in Procs PROVE InLock(p) <=> lock = p
    BY <2>1 DEF TypeInv, HandoffTypeOK, Inside, InLock
  <2>3. ASSUME NEW p \in Revokers PROVE InLock(p) <=> lock = p
    BY <2>1, RevokersDiffer DEF RevokeInv, Holds, InLock
  <2>4. WorkspaceTypeOK
    BY <2>1, <2>2, <2>3
    DEF WorkspaceTypeOK, TypeInv, HandoffTypeOK, RevokeInv, RevokeTypes, IntentRecord,
        KeptStates, Revokers
  <2>5. RemoteTruth
    BY DEF IntentInv, GoneInv, Gone, RemoteTruth
  <2> QED
    BY <2>4, <2>5 DEF WorkspaceSound
<1> QED
  BY <1>1, Revocations, PTL

\* No revocation and no refresh leaves a credential the platform neither knows
\* nor is owed, but for a save that raised after it took effect and for sign-ins
\* with two workers.
THEOREM WorkspaceOwes == WorkspaceSpec => []SavedIsOwed
<1>1. BaseInv => SavedIsOwed
  BY DEF BaseInv, SafeInv, StoreInv
<1> QED
  BY <1>1, BaseHolds, PTL


-----------------------------------------------------------------------------
(* A deadline and a deletion: which of them a revocation's workers are at. *)

\* While a revocation is being started.
Starting(i) == AskerAt(i) \in {"offer", "await", "activate", "unstarted"}

\* The user has not confirmed it and can no longer.
Unconfirmed(i) ==
  \/ intent[i].status \in {"disconnected", "ended"}
  \/ intent[i].status = "created" /\ AskerAt(i) \in {"idle", "undo", "unstarted"}

\* A worker that deletes nothing any more, and one that will not get to it.
Over(w) == dpc[w] \in {"off", "gone", "starting", "lapse", "expire"}
Undecided(i, c) ==
  \/ dpc[<<i, c>>] \in {"loop", "poll", "retract", "delete"} /\ kept[i] = "expired"
  \/ dpc[<<i, c>>] \in {"loop", "poll", "retract", "delete", "claim"} /\ Unconfirmed(i)

AllButOneOver(i) ==
  \E d \in Copies : /\ \A c \in Copies : c # d => Over(<<i, c>>)
                    /\ Over(<<i, d>>) \/ Undecided(i, d)

Expiring(i) == kept[i] = "expired" \/ \E c \in Copies : dpc[<<i, c>>] = "expire"

AtMostTwo(i) ==
  \A b, c, d \in Copies :
    "off" \notin {dpc[<<i, b>>], dpc[<<i, c>>], dpc[<<i, d>>]} => b = c \/ c = d \/ b = d

\* Before the directory is written there is no worker; with the bare state in it there
\* are two at most; and where an expiry is reported no deletion is under way.
Phase(i) ==
  /\ Starting(i) => intent[i].status \in {"created", "ended"}
  /\ AskerAt(i) = "offer" => kept[i] = "none" /\ \A c \in Copies : dpc[<<i, c>>] = "off"
  /\ kept[i] = "state" =>
       /\ \A c \in Copies : dpc[<<i, c>>] \in
            {"off", "gone", "starting", "loop", "poll", "retract", "delete"}
       /\ AtMostTwo(i)
  /\ Expiring(i) => kept[i] \in {"expired", "none"} /\ AllButOneOver(i)

PhaseInv == \A i \in Intents : Phase(i)

\* The tool call keeps the phase of a revocation.
LEMMA AnswerKeepsPhase ==
  ASSUME IntentInv, NEW i \in Intents, Phase(i), Answers(i), \A c \in Copies : Stands(i, c)
  PROVE  Phase(i)'
<1>0. intent[i].status = "unused" =>
        kept[i] = "none" /\ AskerAt(i) = "idle" /\ \A c \in Copies : dpc[<<i, c>>] = "off"
  BY DEF IntentInv
<1>1. \A c \in Copies : dpc'[<<i, c>>] = dpc[<<i, c>>]
  BY DEF Stands
<1>2. Starting(i)' => intent'[i].status \in {"created", "ended"}
  BY DEF Phase, Answers, Starting, Plain, Failed, Ended, Becomes
<1>3. AskerAt(i)' = "offer" => kept'[i] = "none" /\ \A c \in Copies : dpc'[<<i, c>>] = "off"
  BY <1>0, <1>1 DEF Phase, Answers, Plain
<1>4. kept'[i] = "state" => kept[i] = "state" \/ \A c \in Copies : dpc[<<i, c>>] = "off"
  BY DEF Phase, Answers, Plain
<1>5. kept'[i] = "state" =>
        /\ \A c \in Copies : dpc'[<<i, c>>] \in
             {"off", "gone", "starting", "loop", "poll", "retract", "delete"}
        /\ AtMostTwo(i)'
  BY <1>1, <1>4 DEF Phase, AtMostTwo
<1>6. ASSUME Expiring(i)' PROVE kept'[i] \in {"expired", "none"} /\ AllButOneOver(i)'
  <2>1. kept'[i] = "expired" => kept[i] = "expired"
    BY DEF Answers, Plain
  <2>2. Expiring(i)
    BY <1>1, <1>6, <2>1 DEF Expiring
  <2>3. kept[i] \in {"expired", "none"} /\ AllButOneOver(i)
    BY <2>2 DEF Phase
  <2>4. PICK d \in Copies : /\ \A c \in Copies : c # d => Over(<<i, c>>)
                            /\ Over(<<i, d>>) \/ Undecided(i, d)
    BY <2>3 DEF AllButOneOver
  <2>5. kept'[i] # "state"
    BY <1>4, <2>2, <2>3 DEF Expiring, Answers, Plain, Phase
  <2>6. kept'[i] = kept[i] \/ (kept'[i] = "none" /\ AskerAt(i) = "unstarted" /\ AskerAt(i)' = "idle" /\ Failed(i))
    BY <2>5 DEF Answers, Plain
  <2>7. Unconfirmed(i) => Unconfirmed(i)'
    BY DEF Unconfirmed, Answers, Plain, Failed, Ended, Becomes
  <2>8. AskerAt(i) = "unstarted" => Unconfirmed(i)
    BY DEF Unconfirmed, Phase, Starting
  <2>9. Over(<<i, d>>)' \/ Undecided(i, d)'
    BY <1>1, <2>4, <2>6, <2>7, <2>8 DEF Over, Undecided
  <2>10. \A c \in Copies : c # d => Over(<<i, c>>)'
    BY <1>1, <2>4 DEF Over
  <2> QED
    BY <2>3, <2>6, <2>9, <2>10 DEF AllButOneOver
<1> QED
  BY <1>2, <1>3, <1>5, <1>6 DEF Phase

\* So does the world.
LEMMA WorldKeepsPhase ==
  ASSUME NEW i \in Intents, Phase(i), Happens(i), AskerAt(i)' = AskerAt(i),
         \A c \in Copies : Stands(i, c)
  PROVE  Phase(i)'
<1>1. \A c \in Copies : dpc'[<<i, c>>] = dpc[<<i, c>>]
  BY DEF Stands
<1>2. /\ kept'[i] = kept[i] \/ (kept[i] = "state" /\ kept'[i] = "none")
      /\ \/ intent'[i] = intent[i]
         \/ intent[i].status = "offered" /\ intent'[i].status = "confirmed"
         \/ intent'[i].status = "ended"
  BY DEF Happens, Becomes
<1>3. ASSUME Expiring(i)' PROVE kept'[i] \in {"expired", "none"} /\ AllButOneOver(i)'
  <2>1. Expiring(i) /\ kept'[i] = kept[i]
    BY <1>1, <1>2, <1>3 DEF Expiring, Phase
  <2>2. PICK d \in Copies : /\ \A c \in Copies : c # d => Over(<<i, c>>)
                            /\ Over(<<i, d>>) \/ Undecided(i, d)
    BY <2>1 DEF Phase, AllButOneOver
  <2>3. Unconfirmed(i) => Unconfirmed(i)'
    BY <1>2 DEF Unconfirmed
  <2>4. Over(<<i, d>>)' \/ Undecided(i, d)'
    BY <1>1, <2>1, <2>2, <2>3 DEF Over, Undecided
  <2>5. \A c \in Copies : c # d => Over(<<i, c>>)'
    BY <1>1, <2>2 DEF Over
  <2> QED
    BY <2>1, <2>4, <2>5 DEF AllButOneOver, Phase
<1> QED
  BY <1>1, <1>2, <1>3 DEF Phase, Starting, AtMostTwo

\* And a worker.
LEMMA WorkerKeepsPhase ==
  ASSUME IntentInv, NEW i \in Intents, Phase(i), kept[i] \in KeptStates,
         NEW c \in Copies, \A d \in Copies : d # c => Stands(i, d),
         AskerAt(i)' = AskerAt(i), WorkerTurns(i, c)
  PROVE  Phase(i)'
<1>0. intent[i].status # "unused"
  BY DEF IntentInv, WorkerTurns, Waits, GivesUp, GoesOn, IsHeard, ComesOrGoes
<1>1. \A d \in Copies : d # c => dpc'[<<i, d>>] = dpc[<<i, d>>]
  BY DEF Stands
<1>2. /\ dpc[<<i, c>>] # "off" \/ kept[i] \in {"delete_pending", "disconnected", "expired"}
      /\ Unconfirmed(i) => Unconfirmed(i)'
      /\ Starting(i) => intent'[i].status \in {"created", "ended"}
  BY <1>0
  DEF Phase, Unconfirmed, WorkerTurns, Waits, GivesUp, GoesOn, IsHeard, ComesOrGoes, Plain, Failed,
      Ended, Open, Claimed, Becomes
<1>3. Starting(i)' => intent'[i].status \in {"created", "ended"}
  BY <1>2 DEF Starting
<1>4. AskerAt(i) # "offer"
  BY <1>2 DEF Phase, WorkerTurns, Waits, GivesUp, GoesOn, IsHeard, ComesOrGoes
<1>5. ASSUME kept'[i] = "state"
      PROVE  /\ \A d \in Copies : dpc'[<<i, d>>] \in
                  {"off", "gone", "starting", "loop", "poll", "retract", "delete"}
             /\ AtMostTwo(i)'
  <2>1. kept[i] = "state"
    BY <1>5
    DEF WorkerTurns, Waits, GivesUp, GoesOn, IsHeard, ComesOrGoes, Plain, Recorded
  <2>2. dpc[<<i, c>>] \in {"off", "gone", "starting", "loop", "poll", "retract", "delete"}
        /\ dpc[<<i, c>>] # "off"
    BY <1>2, <2>1 DEF Phase
  <2>3. dpc'[<<i, c>>] \in {"gone", "loop", "poll", "retract", "delete"}
    BY <1>5, <2>1, <2>2
    DEF WorkerTurns, Waits, GivesUp, GoesOn, IsHeard, ComesOrGoes, Plain, Recorded
  <2> QED
    BY <1>1, <2>1, <2>2, <2>3 DEF Phase, AtMostTwo
<1>6. ASSUME Expiring(i)', Expiring(i)
      PROVE  kept'[i] \in {"expired", "none"} /\ AllButOneOver(i)'
  <2>1. kept[i] \in {"expired", "none"}
    BY <1>6 DEF Phase
  <2>2. PICK d \in Copies : /\ \A e \in Copies : e # d => Over(<<i, e>>)
                            /\ Over(<<i, d>>) \/ Undecided(i, d)
    BY <1>6 DEF Phase, AllButOneOver
  <2>3. kept'[i] \in {"expired", "none"}
    BY <2>1, <2>2
    DEF WorkerTurns, Waits, GivesUp, GoesOn, IsHeard, ComesOrGoes, Plain, Recorded, Over, Undecided
  <2>4. kept'[i] = kept[i] \/ kept'[i] = "none"
    BY <2>1, <2>2
    DEF WorkerTurns, Waits, GivesUp, GoesOn, IsHeard, ComesOrGoes, Plain, Recorded, Over, Undecided
  <2>5. CASE Over(<<i, c>>)
    <3>1. Over(<<i, c>>)'
      BY <2>1, <2>5
      DEF Over, WorkerTurns, Waits, GivesUp, GoesOn, IsHeard, ComesOrGoes
    <3>2. \A e \in Copies : Over(<<i, e>>) => Over(<<i, e>>)'
      BY <1>1, <3>1 DEF Over
    <3>3. CASE Over(<<i, d>>)
      BY <2>2, <2>3, <3>2, <3>3 DEF AllButOneOver
    <3>4. CASE ~Over(<<i, d>>)
      <4>1. d # c /\ Undecided(i, d) /\ dpc'[<<i, d>>] = dpc[<<i, d>>]
        BY <1>1, <2>2, <2>5, <3>4
      <4>2. kept'[i] = kept[i] \/ Unconfirmed(i)'
        BY <1>0, <2>1, <2>5
        DEF Over, Unconfirmed, WorkerTurns, Waits, GivesUp, GoesOn, IsHeard, ComesOrGoes, Plain,
            Failed, Ended
      <4>3. Undecided(i, d)'
        BY <1>2, <4>1, <4>2 DEF Undecided
      <4> QED
        BY <2>2, <2>3, <3>2, <4>3 DEF AllButOneOver
    <3> QED
      BY <3>3, <3>4
  <2>6. CASE ~Over(<<i, c>>)
    <3>1. c = d /\ Undecided(i, c)
      BY <2>2, <2>6
    <3>2. \A e \in Copies : e # c => Over(<<i, e>>)'
      BY <1>1, <2>2, <3>1 DEF Over
    <3>3. CASE dpc'[<<i, c>>] \in {"gone", "lapse"}
      BY <2>3, <3>2, <3>3 DEF AllButOneOver, Over
    <3>4. CASE dpc'[<<i, c>>] \notin {"gone", "lapse"}
      <4>1. Undecided(i, c)'
        <5>1. CASE Waits(i, c)
          BY <1>2, <2>4, <3>1, <5>1 DEF Undecided, Waits, Plain
        <5>2. CASE GoesOn(i, c)
          BY <1>2, <2>1, <3>1, <3>4, <5>2 DEF Undecided, Unconfirmed, GoesOn, Claimed, Recorded
        <5> QED
          BY <2>6, <3>1, <3>4, <5>1, <5>2 DEF WorkerTurns, GivesUp, IsHeard, ComesOrGoes, Undecided
      <4> QED
        BY <2>3, <3>2, <4>1 DEF AllButOneOver
    <3> QED
      BY <3>3, <3>4
  <2> QED
    BY <2>5, <2>6
<1>7. ASSUME Expiring(i)', ~Expiring(i)
      PROVE  kept'[i] \in {"expired", "none"} /\ AllButOneOver(i)'
  <2>1. kept[i] = "state" /\ kept'[i] = "expired" /\ dpc[<<i, c>>] = "loop" /\ dpc'[<<i, c>>] = "lapse"
    BY <1>1, <1>7
    DEF Expiring, KeptStates, WorkerTurns, Waits, GivesUp, GoesOn, IsHeard, ComesOrGoes, Plain,
        Recorded
  <2>2. \A d \in Copies : d # c => Over(<<i, d>>)' \/ Undecided(i, d)'
    BY <1>1, <2>1 DEF Phase, Over, Undecided
  <2>3. Over(<<i, c>>)'
    BY <2>1 DEF Over
  <2>4. CASE \A d \in Copies : Over(<<i, d>>)'
    BY <2>1, <2>4 DEF AllButOneOver
  <2>5. ASSUME NEW d \in Copies, ~Over(<<i, d>>)' PROVE AllButOneOver(i)'
    <3>1. d # c /\ dpc[<<i, d>>] # "off"
      BY <1>1, <2>3, <2>5 DEF Over
    <3>2. \A e \in Copies : e \notin {c, d} => dpc[<<i, e>>] = "off"
      BY <2>1, <3>1 DEF Phase, AtMostTwo
    <3>3. \A e \in Copies : e # d => Over(<<i, e>>)'
      BY <1>1, <2>3, <3>2 DEF Over
    <3> QED
      BY <2>2, <3>1, <3>3 DEF AllButOneOver
  <2> QED
    BY <2>1, <2>4, <2>5
<1> QED
  BY <1>3, <1>4, <1>5, <1>6, <1>7 DEF Phase

\* PhaseInv is kept.
LEMMA PhaseStep ==
  ASSUME BaseInv, IntentInv, PhaseInv, [WorkspaceNext]_everything
  PROVE  PhaseInv'
<1> SUFFICES ASSUME NEW i \in Intents PROVE Phase(i)'
  BY DEF PhaseInv
<1>0. Phase(i) /\ kept[i] \in KeptStates
  BY DEF PhaseInv, BaseInv, RevokeInv, RevokeTypes
<1>1. CASE Same(i)
  <2>1. \A c \in Copies : dpc'[<<i, c>>] = dpc[<<i, c>>]
    BY <1>1 DEF Same, Stands
  <2>2. /\ intent'[i] = intent[i] /\ kept'[i] = kept[i] /\ AskerAt(i)' = AskerAt(i)
        /\ AllButOneOver(i) => AllButOneOver(i)'
    BY <1>1, <2>1 DEF Same, AllButOneOver, Over, Undecided, Unconfirmed
  <2> QED
    BY <1>0, <2>1, <2>2 DEF Phase, Starting, Expiring, AtMostTwo
<1>2. CASE Spawns(i)
  <2>1. /\ intent'[i] = intent[i] /\ kept'[i] = "state" /\ AskerAt(i)' = "await"
        /\ \A c \in Copies : dpc[<<i, c>>] = "off" /\ dpc'[<<i, c>>] \in {"off", "starting"}
        /\ intent[i].status \in {"created", "ended"}
    BY <1>0, <1>2 DEF Spawns, Phase, Starting
  <2>2. AtMostTwo(i)'
    BY <1>2, <2>1 DEF Spawns, AtMostTwo
  <2> QED
    BY <2>1, <2>2 DEF Phase, Expiring
<1> QED
  BY <1>0, <1>1, <1>2, AnswerKeepsPhase, WorldKeepsPhase, WorkerKeepsPhase, EachRevocation
  DEF RevocationMoves

-----------------------------------------------------------------------------
(* Only what was confirmed is deleted.                                     *)

\* While a worker of a revocation is inside the lock, the others leave the
\* registry alone.
LEMMA HeldStands ==
  ASSUME BaseInv, [WorkspaceNext]_everything, NEW p \in Revokers, Holds(p)
  PROVE  \/ store' = store
         \/ dpc[p] = "unlink" /\ dpc'[p] \in {"promote", "gone"}
<1>1. /\ RevokeInv /\ TypeInv /\ lock = p /\ p \notin Procs /\ p # None
      /\ \A q \in Revokers : Holds(q) => q = p
  BY RevokersDiffer DEF BaseInv, SafeInv, RevokeInv
<1>2. CASE [HandoffNext]_allVars
  BY <1>1, <1>2, LocksApart
<1>3. CASE DisconnectNext
  <2>1. ASSUME NEW i \in Intents, NEW c \in Copies, dpc[<<i, c>>] = "unlink"
        PROVE  <<i, c>> = p
    BY <1>1, <2>1, RevokersDiffer DEF Holds
  <2> QED
    BY <1>1, <1>3, <2>1, DeletionMoves
<1>4. CASE RefreshNext
  BY <1>1, <1>4 DEF RefreshNext, RefreshSends, RefreshFails, RefreshSaves, shared
<1> QED
  BY <1>1, <1>2, <1>3, <1>4, Halves


\* Inside a deletion the account is the one the intent was made for, if there is
\* one, and at the unlink the platform holds a claimed intent, confirmed or by another
\* worker reported.
Deleting(i, c) ==
  /\ dpc[<<i, c>>] \in {"claim", "unlink"} /\ Saved(expect[i].id) => expect[i] \in store
  /\ dpc[<<i, c>>] = "unlink" =>
       /\ Saved(expect[i].id)
       /\ intent[i].status \in {"confirmed", "disconnected"} /\ intent[i].claimed

UnlinkInv == \A i \in Intents, c \in Copies : Deleting(i, c)

\* UnlinkInv is kept.
LEMMA UnlinkStep ==
  ASSUME BaseInv, IntentInv, PhaseInv, UnlinkInv, [WorkspaceNext]_everything
  PROVE  UnlinkInv'
<1> SUFFICES ASSUME NEW i \in Intents, NEW c \in Copies PROVE Deleting(i, c)'
  BY DEF UnlinkInv
<1> DEFINE w == <<i, c>>
<1>0. /\ Deleting(i, c) /\ w \in Revokers /\ RevokeInv
      /\ Holds(w) <=> lock = w
      /\ w # None /\ w # Asker
      /\ \A d \in Copies : d # c => <<i, d>> # w /\ (Holds(<<i, d>>) => ~Holds(w))
  BY RevokersDiffer DEF UnlinkInv, BaseInv, RevokeInv
<1>1. CASE dpc[w] \in {"claim", "unlink"} /\ dpc'[w] = dpc[w]
  <2>1. store' = store /\ lock = w
    BY <1>0, <1>1, HeldStands DEF Holds
  <2>2. intent[i].status # "unused"
    BY <1>1 DEF IntentInv
  <2>3. dpc[w] = "unlink" => ~(\E d \in Copies : dpc[<<i, d>>] = "expire")
    BY <1>0 DEF PhaseInv, Phase, Expiring, AllButOneOver, Over, Undecided
  <2>4. CASE Same(i)
    BY <1>0, <1>1, <2>1, <2>4 DEF Same, Saved, Deleting
  <2>5. CASE Answers(i) /\ \A d \in Copies : Stands(i, d)
    BY <1>0, <1>1, <2>1, <2>2, <2>5 DEF Answers, Plain, Failed, Becomes, Saved, Deleting
  <2>6. CASE /\ Happens(i) /\ expect'[i] = expect[i] /\ AskerAt(i)' = AskerAt(i)
             /\ \A d \in Copies : Stands(i, d)
    BY <1>0, <1>1, <2>1, <2>6 DEF Happens, Becomes, Saved, Deleting, Open
  <2>7. ~Spawns(i)
    BY <1>0, <2>1 DEF Spawns
  <2>8. ASSUME NEW d \in Copies, \A e \in Copies : e # d => Stands(i, e),
               expect'[i] = expect[i], WorkerTurns(i, d)
        PROVE  Deleting(i, c)'
    <3>1. d # c
      BY <1>1, <2>8
      DEF WorkerTurns, Waits, GivesUp, GoesOn, IsHeard, ComesOrGoes
    <3>2. dpc[<<i, d>>] \notin {"claim", "unlink", "promote"}
      BY <1>0, <1>1, <3>1 DEF Holds
    <3>3. ASSUME dpc[w] = "unlink"
          PROVE  intent'[i].status \in {"confirmed", "disconnected"} /\ intent'[i].claimed
      <4>1. /\ dpc[<<i, d>>] # "expire" /\ lock # None
            /\ intent[i].status \in {"confirmed", "disconnected"} /\ intent[i].claimed
        BY <1>0, <2>1, <2>3, <3>3 DEF Deleting
      <4> QED
        BY <1>0, <2>8, <3>2, <3>3, <4>1
        DEF WorkerTurns, Waits, GivesUp, GoesOn, IsHeard, ComesOrGoes, Plain, Failed, Claimed, Becomes
    <3> QED
      BY <1>0, <1>1, <2>1, <2>8, <3>3 DEF Saved, Deleting
  <2> QED
    BY <2>4, <2>5, <2>6, <2>7, <2>8, EachRevocation DEF RevocationMoves
<1>2. CASE dpc'[w] \in {"claim", "unlink"} /\ dpc'[w] # dpc[w]
  <2>1. /\ expect'[i] = expect[i] /\ WorkerTurns(i, c)
    BY <1>2, EachRevocation DEF RevocationMoves, Same, Stands, Spawns
  <2>2. GoesOn(i, c)
    BY <1>2, <2>1 DEF WorkerTurns, Waits, GivesUp, IsHeard, ComesOrGoes
  <2> QED
    BY <1>0, <1>2, <2>1, <2>2 DEF GoesOn, Unchanged, Claimed, Quiet, Saved, Deleting
<1>3. CASE dpc'[w] \notin {"claim", "unlink"}
  BY <1>3 DEF Deleting
<1> QED
  BY <1>1, <1>2, <1>3


-----------------------------------------------------------------------------
(* Assignments come in their order.                                        *)

\* A record's assignment is the one there is when the sign-in is opened.
LEMMA BindingMoves ==
  ASSUME SafeInv, [HandoffNext]_allVars
  PROVE  /\ binding' = binding \/ binding' = binding + 1
         /\ \A h \in Handoffs :
              IF Opens(h) THEN handoff'[h].binding = binding /\ binding' = binding
                          ELSE handoff'[h].binding = handoff[h].binding
<1>0. TypeInv /\ handoff \in [Handoffs -> SignIns] /\ pc \in [Procs -> PcStates]
  BY DEF SafeInv, TypeInv, HandoffTypeOK
<1>1. binding' = binding \/ binding' = binding + 1
  <2>1. CASE Connects \/ HookReads \/ HookWipes
    BY <2>1
    DEF Connects, ConnectBegin, ConnectFindsStale, ConnectPosts, ConnectStarts,
        ConnectCannotSpawn, ConnectEnds, HookReads, HookWipes
  <2>2. ASSUME NEW w \in Workers, NEW h \in Handoffs, Polls(w) \/ Installs(w) \/ RecoverBegins(h)
        PROVE  binding' = binding
    BY <2>2
    DEF Polls, WorkerReadsKey, WorkerChecksMarker, WorkerPolls, WorkerClears, WorkerDenies,
        WorkerCloses, Installs, InstallSuperseded, InstallUnassigned, InstallRejected,
        InstallBegins, WriteReceipt, SaveCredential, PromoteReceipt, RecoverBegins
  <2>3. ASSUME NEW p \in Acks, Acknowledges(p) PROVE binding' = binding
    BY <2>3
    DEF Acknowledges, AckGivesUp, AckOrphaned, AckUnassigned, AckBegins, ClaimAccepted,
        ClaimUnanswered, RetireReceipt, ReadyNotice
  <2>4. CASE Environment \/ UNCHANGED allVars
    BY <2>4
    DEF Environment, SignIn, PlatformEnds, Reassign, Crash, WipeCutShort, StartCutShort, allVars
  <2> QED
    BY <2>1, <2>2, <2>3, <2>4, Pairs DEF HandoffNext, Acks
<1>2. ASSUME NEW h \in Handoffs, Opens(h)
      PROVE  ConnectPosts \/ handoff' = handoff
  <2>1. CASE Connects
    BY <1>0, <1>2, <2>1, ProcsDiffer
    DEF Connects, ConnectBegin, ConnectFindsStale, ConnectStarts, ConnectCannotSpawn,
        ConnectEnds, hvars, Opens
  <2>2. ASSUME NEW w \in Workers, NEW g \in Handoffs, Polls(w) \/ Installs(w) \/ RecoverBegins(g)
        PROVE  FALSE
    BY <1>0, <1>2, <2>2, ProcsDiffer
    DEF Polls, WorkerReadsKey, WorkerChecksMarker, WorkerPolls, WorkerClears, WorkerDenies,
        WorkerCloses, Installs, InstallSuperseded, InstallUnassigned, InstallRejected,
        InstallBegins, WriteReceipt, SaveCredential, PromoteReceipt, RecoverBegins, Goto, Leave,
        Opens
  <2>3. ASSUME NEW p \in Acks, Acknowledges(p) PROVE FALSE
    BY <1>0, <1>2, <2>3, ProcsDiffer
    DEF Acks, Acknowledges, AckGivesUp, AckOrphaned, AckUnassigned, AckBegins, ClaimAccepted,
        ClaimUnanswered, RetireReceipt, ReadyNotice, Acknowledging, Goto, Leave, Opens
  <2>4. CASE HookReads \/ HookWipes
    BY <2>4 DEF HookReads, HookWipes
  <2>5. CASE Environment \/ UNCHANGED allVars
    BY <1>2, <2>5
    DEF Environment, SignIn, PlatformEnds, Reassign, Crash, WipeCutShort, StartCutShort,
        allVars, hvars, Opens
  <2> QED
    BY <2>1, <2>2, <2>3, <2>4, <2>5, Pairs DEF HandoffNext, Acks
<1>3. ASSUME NEW h \in Handoffs, Opens(h), ConnectPosts
      PROVE  handoff'[h].binding = binding /\ binding' = binding
  <2>1. h = task.on /\ handoff[h] \in SignIns /\ task.target \in Handoffs
    BY <1>0, <1>3, ProcsDiffer DEF Opens, TypeInv, ToolInv
  <2>2. handoff'[h] = [handoff[h] EXCEPT !.status = "pending", !.target = task.target,
                                         !.binding = binding]
    BY <1>0, <1>3, <2>1 DEF ConnectPosts
  <2> QED
    BY <1>3, <2>1, <2>2 DEF SignIns, ConnectPosts
<1>4. \A h \in Handoffs : RecordMoves(h)
  BY <1>0, RecordStep DEF Records
<1>5. \A h \in Handoffs : Opens(h) => handoff' # handoff
  BY DEF Opens, SafeInv, StartInv
<1> QED
  BY <1>1, <1>2, <1>3, <1>4, <1>5 DEF RecordMoves

\* The marker comes only from the tool call, which puts its own sign-in there.
LEMMA MarkerMoves ==
  ASSUME [HandoffNext]_allVars
  PROVE  active' \in {active, None} \/ (pc[Tool] = "starting" /\ active' = task.on)
<1>1. CASE Connects \/ HookReads \/ HookWipes
  BY <1>1
  DEF Connects, ConnectBegin, ConnectFindsStale, ConnectPosts, ConnectStarts,
      ConnectCannotSpawn, ConnectEnds, HookReads, HookWipes, WipeForAssignment, CancelHandoffs,
      shared
<1>2. ASSUME NEW w \in Workers, NEW h \in Handoffs, Polls(w) \/ Installs(w) \/ RecoverBegins(h)
      PROVE  active' \in {active, None}
  BY <1>2
  DEF Polls, WorkerReadsKey, WorkerChecksMarker, WorkerPolls, WorkerClears, WorkerDenies,
      WorkerCloses, Installs, InstallSuperseded, InstallUnassigned, InstallRejected,
      InstallBegins, WriteReceipt, SaveCredential, PromoteReceipt, RecoverBegins, ClearMarker,
      CancelHandoffs, shared
<1>3. ASSUME NEW p \in Acks, Acknowledges(p) PROVE active' \in {active, None}
  BY <1>3
  DEF Acknowledges, AckGivesUp, AckOrphaned, AckUnassigned, AckBegins, ClaimAccepted,
      ClaimUnanswered, RetireReceipt, ReadyNotice, WipeForAssignment, CancelHandoffs,
      ClearMarker, shared
<1>4. CASE Environment \/ UNCHANGED allVars
  BY <1>4
  DEF Environment, SignIn, PlatformEnds, Reassign, Crash, WipeCutShort, StartCutShort,
      allVars, shared
<1> QED
  BY <1>1, <1>2, <1>3, <1>4, Pairs DEF HandoffNext, Acks

\* The tool call keeps its task while it starts a sign-in, the hook what it read
\* while it wipes; each comes there in one way.
LEMMA StartingMoves ==
  ASSUME SafeInv, [HandoffNext]_allVars
  PROVE  /\ pc'[Tool] = "starting" =>
              task' = task /\ (pc[Tool] = "starting" \/ (pc[Tool] = "posting" /\ Opens(task.on)))
         /\ pc'[Hook] = "wipe" =>
              \/ pc[Hook] = "wipe" /\ seen' = seen
              \/ HookReads
<1>0. pc \in [Procs -> PcStates] /\ TypeInv
      /\ (pc[Tool] # "idle" => task.on \in Handoffs)
  BY DEF SafeInv, TypeInv, HandoffTypeOK, ToolInv
<1> DEFINE Goal ==
    /\ pc'[Tool] = "starting" =>
         task' = task /\ (pc[Tool] = "starting" \/ (pc[Tool] = "posting" /\ Opens(task.on)))
    /\ pc'[Hook] = "wipe" => pc[Hook] = "wipe" /\ seen' = seen
<1>1. CASE Connects
  <2>1. CASE ConnectPosts
    BY <1>0, <2>1, ProcsDiffer, PostsPending DEF ConnectPosts, Goto, Leave, Opens
  <2> QED
    BY <1>0, <1>1, <2>1, ProcsDiffer
    DEF Connects, ConnectBegin, ConnectFindsStale, ConnectStarts, ConnectCannotSpawn,
        ConnectEnds, hvars, Goto, Leave
<1>2. ASSUME NEW w \in Workers, NEW g \in Handoffs, Polls(w) \/ Installs(w) \/ RecoverBegins(g)
      PROVE  Goal
  BY <1>0, <1>2, ProcsDiffer
  DEF Polls, WorkerReadsKey, WorkerChecksMarker, WorkerPolls, WorkerClears, WorkerDenies,
      WorkerCloses, Installs, InstallSuperseded, InstallUnassigned, InstallRejected,
      InstallBegins, WriteReceipt, SaveCredential, PromoteReceipt, RecoverBegins, Goto, Leave
<1>3. ASSUME NEW p \in Acks, Acknowledges(p) PROVE Goal
  BY <1>0, <1>3, ProcsDiffer
  DEF Acks, Acknowledges, AckGivesUp, AckOrphaned, AckUnassigned, AckBegins, ClaimAccepted,
      ClaimUnanswered, RetireReceipt, ReadyNotice, Acknowledging, AfterAck, Goto, Leave
<1>4. CASE HookReads \/ HookWipes
  BY <1>0, <1>4, ProcsDiffer DEF HookReads, HookWipes, Goto
<1>5. CASE Environment \/ UNCHANGED allVars
  <2>1. task' = task /\ (pc'[Tool] = pc[Tool] \/ pc'[Tool] = "idle")
    BY <1>0, <1>5, EnvironmentMoves
  <2>2. ASSUME NEW p \in Procs, Crash(p) \/ WipeCutShort(p), pc'[Hook] = "wipe"
        PROVE  pc[Hook] = "wipe" /\ seen' = seen
    BY <1>0, <2>2, ProcsDiffer DEF Crash, WipeCutShort, Goto
  <2>3. pc'[Hook] = "wipe" => pc[Hook] = "wipe" /\ seen' = seen
    BY <1>0, <1>5, <2>2, ProcsDiffer
    DEF Environment, SignIn, PlatformEnds, Reassign, StartCutShort, allVars, hvars, Leave, Goto
  <2> QED
    BY <2>1, <2>3
<1> QED
  BY <1>1, <1>2, <1>3, <1>4, <1>5, Pairs DEF HandoffNext, Acks


\* No record is of a later assignment than the current one, and what is saved is
\* of none later than the sign-in that may install has, or is being given.
BindInv ==
  /\ \A h \in Handoffs : handoff[h].binding <= binding
  /\ active # None =>
       /\ handoff[active].status # "unused"
       /\ \A a \in store : a.binding <= handoff[active].binding
  /\ pc[Tool] = "starting" => \A a \in store : a.binding <= handoff[task.on].binding
  /\ pc[Hook] = "wipe" => seen < binding

\* BindInv is kept by a sign-in's step.
LEMMA BindStep ==
  ASSUME SafeInv, BindInv, [HandoffNext]_allVars
  PROVE  BindInv'
<1>0. /\ pc \in [Procs -> PcStates] /\ \A p \in Procs : Inside(p) <=> lock = p
      /\ handoff \in [Handoffs -> SignIns] /\ store \subseteq Account
      /\ active \in Handoffs \union {None} /\ binding \in Bindings
      /\ Bindings \subseteq Nat /\ None \notin Handoffs
      /\ \A h \in Handoffs : handoff[h].binding \in Nat
      /\ \A a \in store : a.from \in Handoffs /\ a.binding \in Nat
      /\ (pc[Tool] # "idle" => task.on \in Handoffs)
  BY ProcsDiffer, AccountsAssumption
  DEF SafeInv, TypeInv, HandoffTypeOK, SharedTypeOK, ToolInv, Account, Bindings, SignIns
<1>1. /\ binding' = binding \/ binding' = binding + 1
      /\ \A h \in Handoffs :
           IF Opens(h) THEN handoff'[h].binding = binding /\ binding' = binding
                       ELSE handoff'[h].binding = handoff[h].binding
  BY BindingMoves
<1>2. /\ \A h \in Handoffs : handoff[h].status # "unused" =>
           handoff'[h].status # "unused" /\ handoff'[h].binding = handoff[h].binding
      /\ pc[Tool] = "starting" =>
           handoff[task.on].status # "unused"
  BY <1>1, OpenedStays DEF SafeInv, StartInv, Opens
<1>3. ASSUME NEW w \in Workers, SaveCredential(w), store' = Upsert(store, Envelope(w))
      PROVE  /\ active = w[1] /\ lock = w /\ Envelope(w).binding = handoff[w[1]].binding
             /\ \A a \in store' : a = Envelope(w) \/ a \in store
  BY <1>0, <1>3, ProcsDiffer
  DEF SaveCredential, SafeInv, InstallInv, Inside, Envelope, Upsert
<1>4. \A a \in store : a.binding <= binding
  BY <1>0 DEF BindInv, SafeInv, StoreInv, FromEnvelope
<1>5. \A h \in Handoffs : handoff'[h].binding <= binding'
  BY <1>0, <1>1 DEF BindInv
<1>6. pc[Tool] \in {"posting", "starting"} => \A a \in store' : a \in store
  BY <1>0, <1>3, RegistryMoves, ProcsDiffer DEF Inside
<1>7. ASSUME active' # None
      PROVE  /\ handoff'[active'].status # "unused"
             /\ \A a \in store' : a.binding <= handoff'[active'].binding
  <2>1. CASE pc[Tool] = "starting" /\ active' = task.on
    BY <1>0, <1>2, <1>6, <2>1 DEF BindInv
  <2>2. CASE active' = active
    <3>1. active \in Handoffs /\ handoff[active].status # "unused"
          /\ \A a \in store : a.binding <= handoff[active].binding
      BY <1>0, <1>7, <2>2 DEF BindInv
    <3>2. handoff'[active].status # "unused" /\ handoff'[active].binding = handoff[active].binding
      BY <1>2, <3>1
    <3>3. \A a \in store' : a.binding <= handoff[active].binding
      BY <1>0, <1>3, <3>1, RegistryMoves
    <3> QED
      BY <2>2, <3>2, <3>3
  <2> QED
    BY <1>7, <2>1, <2>2, MarkerMoves
<1>8. ASSUME pc'[Tool] = "starting"
      PROVE  \A a \in store' : a.binding <= handoff'[task'.on].binding
  <2>1. CASE pc[Tool] = "starting" /\ task' = task
    BY <1>0, <1>2, <1>6, <2>1 DEF BindInv
  <2>2. CASE pc[Tool] = "posting" /\ Opens(task.on) /\ task' = task
    BY <1>0, <1>1, <1>4, <1>6, <2>2
  <2> QED
    BY <1>8, <2>1, <2>2, StartingMoves
<1>9. ASSUME pc'[Hook] = "wipe" PROVE seen' < binding'
  <2>1. CASE pc[Hook] = "wipe" /\ seen' = seen
    BY <1>0, <1>1, <2>1 DEF BindInv, SafeInv, TypeInv, HandoffTypeOK
  <2>2. CASE HookReads
    <3>1. /\ binding' = binding /\ seen' \in Bindings \ {binding}
          /\ {a.binding : a \in store} = {seen'}
      BY <2>2 DEF HookReads
    <3>2. PICK a \in store : seen' = a.binding
      BY <3>1
    <3> QED
      BY <1>0, <1>4, <3>1, <3>2
  <2> QED
    BY <1>9, <2>1, <2>2, StartingMoves
<1> QED
  BY <1>5, <1>7, <1>8, <1>9 DEF BindInv

\* BindInv is kept by every step.
LEMMA BindHolds == WorkspaceSpec => [](BaseInv /\ BindInv)
<1>1. WorkspaceInit => BindInv
  <2> SUFFICES ASSUME WorkspaceInit PROVE BindInv
    OBVIOUS
  <2>1. \A h \in Handoffs : handoff[h].binding = 1
    BY FirstState
  <2> QED
    BY <2>1, FirstState DEF BindInv
<1>2. ASSUME BaseInv, BindInv, [WorkspaceNext]_everything PROVE BindInv'
  <2>1. TypeInv /\ RevokeInv /\ SafeInv
    BY <1>2 DEF BaseInv, SafeInv
  <2>2. CASE Guest
    BY <1>2, <2>2 DEF BindInv, Guest, hvars, Alike
  <2> QED
    BY <1>2, <2>1, <2>2, BindStep, Halves
<1> QED
  BY <1>1, <1>2, BaseHolds, PTL DEF WorkspaceSpec

\* A sign-in empties the registry only where an account of another assignment
\* is seen.
LEMMA WhenEmptied ==
  ASSUME SafeInv, BindInv, [HandoffNext]_allVars, store' = {}, NEW b \in store
  PROVE  \E a \in store : a.binding # binding
<1>0. /\ binding \in Nat /\ active \in Handoffs \union {None} /\ seen \in Nat
      /\ \A a \in store : a.binding \in Nat
      /\ \A h \in Handoffs : handoff[h].binding \in Nat /\ handoff[h].binding <= binding
      /\ None \notin Handoffs
  BY ProcsDiffer, AccountsAssumption
  DEF SafeInv, TypeInv, HandoffTypeOK, SharedTypeOK, Account, Bindings, SignIns, BindInv
<1>1. CASE Connects
  BY <1>1
  DEF Connects, ConnectBegin, ConnectFindsStale, ConnectPosts, ConnectStarts,
      ConnectCannotSpawn, ConnectEnds, shared
<1>2. ASSUME NEW w \in Workers, NEW h \in Handoffs, Polls(w) \/ RecoverBegins(h) PROVE FALSE
  BY <1>2
  DEF Polls, WorkerReadsKey, WorkerChecksMarker, WorkerPolls, WorkerClears, WorkerDenies,
      WorkerCloses, RecoverBegins, shared
<1>3. ASSUME NEW w \in Workers, Installs(w) PROVE \E a \in store : a.binding # binding
  <2> DEFINE h == w[1]
  <2>1. InstallUnassigned(w)
    BY <1>3
    DEF Installs, InstallSuperseded, InstallRejected, InstallBegins, WriteReceipt,
        SaveCredential, Upsert, PromoteReceipt, shared
  <2>2. active = h /\ handoff[h].binding # binding /\ active # None
    BY <1>0, <2>1, Pairs DEF InstallUnassigned
  <2>3. b.binding <= handoff[h].binding
    BY <2>2 DEF BindInv
  <2> QED
    BY <1>0, <2>2, <2>3
<1>4. ASSUME NEW p \in Acks, Acknowledges(p) PROVE \E a \in store : a.binding # binding
  BY <1>4
  DEF Acknowledges, AckGivesUp, AckOrphaned, AckUnassigned, AckBegins, ClaimAccepted,
      ClaimUnanswered, RetireReceipt, ReadyNotice, Matching, shared
<1>5. CASE HookReads \/ HookWipes
  <2>1. pc[Hook] = "wipe" /\ b.binding = seen
    BY <1>5 DEF HookReads, HookWipes, shared
  <2> QED
    BY <1>0, <2>1 DEF BindInv
<1>6. CASE Environment \/ UNCHANGED allVars
  BY <1>6
  DEF Environment, SignIn, PlatformEnds, Reassign, Crash, WipeCutShort, StartCutShort,
      allVars, shared
<1> QED
  BY <1>1, <1>2, <1>3, <1>4, <1>5, <1>6, Pairs DEF HandoffNext, Acks

\* Deletions, in every reachable state.
LEMMA Deletions == WorkspaceSpec => [](BaseInv /\ IntentInv /\ PhaseInv /\ UnlinkInv)
<1>1. WorkspaceInit => IntentInv /\ PhaseInv /\ UnlinkInv
  <2> SUFFICES ASSUME WorkspaceInit PROVE IntentInv /\ PhaseInv /\ UnlinkInv
    OBVIOUS
  <2> QED
    BY NothingUnderWay DEF IntentInv, PhaseInv, Phase, Starting, Expiring, UnlinkInv, Deleting
<1>2. BaseInv /\ IntentInv /\ PhaseInv /\ UnlinkInv /\ [WorkspaceNext]_everything
        => IntentInv' /\ PhaseInv' /\ UnlinkInv'
  BY IntentStep, PhaseStep, UnlinkStep
<1> QED
  BY <1>1, <1>2, BaseHolds, PTL DEF WorkspaceSpec

\* Under one assignment an account leaves this Computer only in the unlink of a
\* revocation that was confirmed, claimed, and asked for that very credential:
\* a sign-in and a refresh take accounts away only when they see another
\* assignment (_delete_confirmed_disconnect).
THEOREM OnlyConfirmedLeaveHolds == WorkspaceSpec => OnlyConfirmedLeave
<1> DEFINE A == \A a \in store :
       LeavesAlone(a) => \E i \in Intents : /\ intent[i].status \in {"confirmed", "disconnected"}
                                            /\ intent[i].claimed
                                            /\ expect[i] = a
<1>1. ASSUME BaseInv, BindInv, UnlinkInv, [WorkspaceNext]_everything PROVE A
  <2> SUFFICES ASSUME NEW a \in store, LeavesAlone(a)
               PROVE  \E i \in Intents : /\ intent[i].status \in {"confirmed", "disconnected"}
                                         /\ intent[i].claimed
                                         /\ expect[i] = a
    OBVIOUS
  <2>1. /\ SafeInv /\ TypeInv /\ RevokeInv /\ Unambiguous(store)
        /\ \A b \in store : b.binding = binding
        /\ ~(\E b \in store' : b.id = a.id)
        /\ a \in Account
    BY <1>1 DEF BaseInv, SafeInv, AccountInv, LeavesAlone, TypeInv, HandoffTypeOK, SharedTypeOK
  <2>2. ASSUME [HandoffNext]_allVars PROVE FALSE
    <3>1. store' # {}
      BY <1>1, <2>1, <2>2, WhenEmptied
    <3>2. \A e : store' = Upsert(store, e) => \E b \in store' : b.id = a.id
      BY DEF Upsert
    <3> QED
      BY <2>1, <2>2, <3>1, <3>2, RegistryMoves
  <2>3. ASSUME RefreshNext PROVE FALSE
    <3>1. RefreshSaves
      BY <2>1, <2>3 DEF RefreshNext, RefreshSends, RefreshFails, shared
    <3>2. base \in store /\ base \in Account /\ base.binding = binding
      BY <2>1, <3>1 DEF RefreshSaves, TypeInv, HandoffTypeOK, SharedTypeOK
    <3>3. PICK t : store' = Upsert(store, [base EXCEPT !.token = t])
      BY <3>1, <3>2 DEF RefreshSaves
    <3>4. \E b \in store' : b.id = a.id
      BY <3>3 DEF Upsert
    <3> QED
      BY <2>1, <3>4
  <2>4. CASE DisconnectNext
    <3>1. PICK i \in Intents, c \in Copies :
            /\ dpc[<<i, c>>] = "unlink"
            /\ store' = {b \in store : b.id # expect[i].id}
      BY <2>1, <2>4, DeletionMoves DEF Deletes
    <3>2. a.id = expect[i].id
      BY <2>1, <3>1
    <3>3. Saved(expect[i].id)
      BY <3>2 DEF Saved
    <3>4. expect[i] \in store /\ intent[i].status \in {"confirmed", "disconnected"} /\ intent[i].claimed
      BY <1>1, <3>1, <3>3 DEF UnlinkInv, Deleting
    <3>5. expect[i] = a
      BY <2>1, <3>2, <3>4 DEF Unambiguous
    <3> QED
      BY <3>4, <3>5
  <2> QED
    BY <1>1, <2>1, <2>2, <2>3, <2>4, Halves
<1>2. BaseInv /\ BindInv /\ UnlinkInv /\ [WorkspaceNext]_everything => [A]_everything
  BY <1>1
<1> QED
  BY <1>2, BindHolds, Deletions, PTL DEF WorkspaceSpec, OnlyConfirmedLeave


-----------------------------------------------------------------------------
(* A sign-in that was cut off stays out.                                   *)

\* A sign-in that a revocation has cut off has no marker, is not the one being
\* started, and has no account.
BarredInv ==
  \A h \in barred :
    /\ h \in Handoffs /\ handoff[h].status # "unused" /\ active # h
    /\ pc[Tool] = "starting" => task.on # h
    /\ \A a \in store : a.from # h

\* BarredInv is kept: the marker is needed to save, and a sign-in that is begun
\* is not one the platform knew before.
LEMMA BarredStep ==
  ASSUME BaseInv, BarredInv, [WorkspaceNext]_everything
  PROVE  BarredInv'
<1>0. /\ SafeInv /\ TypeInv /\ RevokeInv
      /\ \A p \in Procs : Inside(p) <=> lock = p
      /\ None \notin Handoffs /\ Tool \in Procs
  BY ProcsDiffer, AccountsAssumption DEF BaseInv, SafeInv, TypeInv, HandoffTypeOK
<1>1. ASSUME [HandoffNext]_allVars, barred' = barred PROVE BarredInv'
  <2> SUFFICES ASSUME NEW h \in barred
               PROVE  /\ h \in Handoffs /\ handoff'[h].status # "unused" /\ active' # h
                      /\ pc'[Tool] = "starting" => task'.on # h
                      /\ \A a \in store' : a.from # h
    BY <1>1 DEF BarredInv
  <2>1. /\ h \in Handoffs /\ handoff[h].status # "unused" /\ active # h
        /\ pc[Tool] = "starting" => task.on # h
        /\ \A a \in store : a.from # h
    BY DEF BarredInv
  <2>2. handoff'[h].status # "unused"
    BY <1>0, <1>1, <2>1, OpenedStays DEF SafeInv
  <2>3. active' # h
    BY <1>0, <1>1, <2>1, MarkerMoves
  <2>4. pc'[Tool] = "starting" => task'.on # h
    BY <1>0, <1>1, <2>1, StartingMoves DEF SafeInv, StartInv
  <2>5. ASSUME NEW g \in Workers, SaveCredential(g), store' = Upsert(store, Envelope(g))
        PROVE  \A a \in store' : a.from # h
    <3>1. active = g[1]
      BY <1>0, <2>5 DEF SaveCredential, SafeInv, InstallInv
    <3> QED
      BY <2>1, <2>5, <3>1 DEF Upsert, Envelope
  <2>6. \A a \in store' : a.from # h
    BY <1>0, <1>1, <2>1, <2>5, RegistryMoves
  <2> QED
    BY <2>1, <2>2, <2>3, <2>4, <2>6
<1>2. ASSUME Guest, NEW h \in barred
      PROVE  /\ h \in Handoffs /\ handoff'[h].status # "unused" /\ active' # h
             /\ pc'[Tool] = "starting" => task'.on # h
             /\ \A a \in store' : a.from # h
  BY <1>0, <1>2 DEF BarredInv, Guest, hvars, Alike
<1>3. ASSUME DisconnectNext, Remember, Guest PROVE BarredInv'
  <2> SUFFICES ASSUME NEW h \in barred', h \notin barred
               PROVE  /\ h \in Handoffs /\ handoff'[h].status # "unused" /\ active' # h
                      /\ pc'[Tool] = "starting" => task'.on # h
                      /\ \A a \in store' : a.from # h
    BY <1>2, <1>3 DEF BarredInv
  <2>1. h \in BarredNow /\ active' = None /\ lock \notin Procs
    BY <1>0, <1>3, Remembered
  <2>2. pc[Tool] # "starting"
    BY <1>0, <2>1 DEF Inside
  <2> QED
    BY <1>0, <1>3, <2>1, <2>2 DEF BarredNow, Guest, hvars
<1>4. CASE RefreshNext /\ Guest /\ UNCHANGED history
  BY <1>2, <1>4 DEF BarredInv, history
<1> QED
  BY <1>0, <1>1, <1>3, <1>4, Halves DEF history

\* No credential comes back after a deletion but from a sign-in begun after it:
\* what was cut off has lost its marker, and the refresh writes only what it
\* finds (_cancel_pending_handoff_locked, _persist_refreshed_credentials).
THEOREM BarredStayOutHolds == WorkspaceSpec => []BarredStayOut
<1>1. WorkspaceInit => BarredInv
  BY NothingUnderWay DEF BarredInv
<1>2. BaseInv /\ BarredInv /\ [WorkspaceNext]_everything => BarredInv'
  BY BarredStep
<1>3. BarredInv => BarredStayOut
  BY DEF BarredInv, BarredStayOut
<1> QED
  BY <1>1, <1>2, <1>3, BaseHolds, PTL DEF WorkspaceSpec


-----------------------------------------------------------------------------
(* A deletion is remembered.                                               *)

\* While a revocation is being started its workers have come no further than their
\* polls.
Begun(i) == Starting(i) =>
  /\ intent[i].status \in {"created", "ended"} /\ ~intent[i].claimed
  /\ kept[i] \in {"none", "state", "expired"}
  /\ \A c \in Copies : dpc[<<i, c>>] \in
       {"off", "gone", "starting", "loop", "poll", "retract", "lapse", "expire"}

StartingInv == \A i \in Intents : Begun(i)

\* StartingInv is kept.
LEMMA StartingStep ==
  ASSUME BaseInv, IntentInv, PhaseInv, StartingInv, [WorkspaceNext]_everything
  PROVE  StartingInv'
<1> SUFFICES ASSUME NEW i \in Intents PROVE Begun(i)'
  BY DEF StartingInv
<1>0. /\ Begun(i) /\ kept[i] \in KeptStates
      /\ AskerAt(i) = "offer" => \A c \in Copies : dpc[<<i, c>>] = "off"
  BY DEF StartingInv, BaseInv, RevokeInv, RevokeTypes, PhaseInv, Phase
<1>1. CASE Same(i)
  BY <1>0, <1>1 DEF Begun, Same, Stands, Starting
<1>2. CASE Answers(i) /\ \A c \in Copies : Stands(i, c)
  BY <1>0, <1>2 DEF Begun, Answers, Stands, Plain, IntentInv, Starting, Failed, Ended, Becomes
<1>3. CASE /\ Happens(i) /\ expect'[i] = expect[i] /\ AskerAt(i)' = AskerAt(i)
           /\ \A c \in Copies : Stands(i, c)
  BY <1>0, <1>3 DEF Begun, Happens, Stands, Starting, Becomes
<1>4. CASE Spawns(i)
  BY <1>0, <1>4 DEF Begun, Spawns, Starting
<1>5. ASSUME NEW c \in Copies, \A d \in Copies : d # c => Stands(i, d),
             expect'[i] = expect[i], AskerAt(i)' = AskerAt(i), WorkerTurns(i, c)
      PROVE  Begun(i)'
  <2>1. CASE Waits(i, c)
    BY <1>0, <1>5, <2>1 DEF Begun, Waits, Stands, Plain, Starting
  <2>2. CASE GivesUp(i, c)
    BY <1>0, <1>5, <2>2 DEF Begun, GivesUp, Stands, Plain, Starting, Failed, Ended
  <2>3. CASE GoesOn(i, c)
    BY <1>0, <1>5, <2>3 DEF Begun, GoesOn, Stands, Recorded, Starting
  <2>4. CASE IsHeard(i, c)
    BY <1>0, <1>5, <2>4 DEF Begun, IsHeard, Stands, Starting, Failed, Ended
  <2>5. CASE ComesOrGoes(i, c)
    BY <1>0, <1>5, <2>5 DEF Begun, ComesOrGoes, Stands, Starting
  <2> QED
    BY <1>5, <2>1, <2>2, <2>3, <2>4, <2>5 DEF WorkerTurns
<1> QED
  BY <1>1, <1>2, <1>3, <1>4, <1>5, EachRevocation DEF RevocationMoves

\* The history tells of every revocation that had two workers at a time.
BesideInv ==
  \A i \in Intents \ beside : \A c, d \in Copies :
    Living(<<i, c>>) /\ Living(<<i, d>>) => c = d

\* With one worker at a time its directory says how far a deletion has come: it is
\* gone only under a worker that will not delete.
Known(i, c) ==
  /\ kept[i] = "none" /\ dpc[<<i, c>>] \in {"loop", "poll"} =>
       intent[i].status \in {"created", "ended"} /\ ~Starting(i)
  /\ dpc[<<i, c>>] = "delete" => kept[i] # "none"
  /\ dpc[<<i, c>>] \in {"resume", "claim", "unlink", "promote"} => kept[i] = "delete_pending"

\* The receipt stands from before the claim until the platform has closed the intent.
Closing(i) ==
  /\ intent[i].claimed
  /\ \/ intent[i].status \in {"disconnected", "ended"}
     \/ /\ intent[i].status = "confirmed"
        /\ kept[i] \in {"delete_pending", "disconnected"}
        /\ \A c \in Copies : dpc[<<i, c>>] \in
             {"off", "gone", "starting", "resume", "promote", "report"}

MemoryInv ==
  /\ BesideInv /\ revoked \subseteq Intents
  /\ \A i \in Intents \ beside :
       /\ \A c \in Copies : Known(i, c)
       /\ i \in revoked => Closing(i)

\* The history of two workers is kept.
LEMMA BesideStep ==
  ASSUME BaseInv, MemoryInv, [WorkspaceNext]_everything
  PROVE  BesideInv' /\ revoked' \subseteq Intents /\ beside \subseteq beside'
<1>1. TypeInv /\ RevokeInv /\ BesideInv /\ revoked \subseteq Intents
  BY DEF BaseInv, SafeInv, MemoryInv
<1>2. CASE UNCHANGED <<dvars, history>>
  BY <1>1, <1>2 DEF BesideInv, Living, dvars, history
<1>3. CASE Remember
  <2>1. beside' = beside \union
          {i \in Intents : \E c, d \in Copies : c # d /\ Living(<<i, c>>)' /\ Living(<<i, d>>)'}
    BY <1>3 DEF Remember
  <2> QED
    BY <1>1, <1>3, <2>1 DEF BesideInv, Remember
<1> QED
  BY <1>1, <1>2, <1>3, Halves

\* MemoryInv is kept.
LEMMA MemoryStep ==
  ASSUME BaseInv, IntentInv, GoneInv, PhaseInv, UnlinkInv, StartingInv, MemoryInv,
         [WorkspaceNext]_everything
  PROVE  MemoryInv'
<1> SUFFICES ASSUME NEW i \in Intents, i \notin beside'
             PROVE  (\A c \in Copies : Known(i, c)') /\ (i \in revoked' => Closing(i)')
  BY BesideStep DEF MemoryInv
<1>0. /\ i \notin beside /\ kept[i] \in KeptStates
      /\ \A c \in Copies : Known(i, c)
      /\ i \in revoked => Closing(i) /\ ~Saved(expect[i].id)
      /\ \A c, d \in Copies : Living(<<i, c>>) /\ Living(<<i, d>>) => c = d
      /\ \A c, d \in Copies : Living(<<i, c>>)' /\ Living(<<i, d>>)' => c = d
      /\ Begun(i)
      /\ \A c \in Copies : dpc[<<i, c>>] = "unlink" =>
           intent[i].status \in {"confirmed", "disconnected"} /\ intent[i].claimed
  BY BesideStep
  DEF MemoryInv, BesideInv, BaseInv, RevokeInv, RevokeTypes, GoneInv, Gone, UnlinkInv, Deleting,
      StartingInv
<1>1. i \in revoked' =>
        i \in revoked \/ \E c \in Copies : dpc[<<i, c>>] = "unlink" /\ dpc'[<<i, c>>] = "promote"
  BY EachRevocation, Remembered DEF history, BaseInv
<1>2. CASE Same(i)
  BY <1>0, <1>1, <1>2 DEF Known, Closing, Same, Stands, Starting
<1>3. CASE Answers(i) /\ \A d \in Copies : Stands(i, d)
  <2>1. intent[i].status = "unused" => i \notin revoked /\ \A c \in Copies : dpc[<<i, c>>] = "off"
    BY DEF IntentInv
  <2>2. i \in revoked' => i \in revoked
    BY <1>1, <1>3 DEF Stands
  <2>3. ASSUME NEW c \in Copies PROVE Known(i, c)'
    BY <1>0, <1>3, <2>1
    DEF Known, Begun, Answers, Stands, Plain, Starting, Failed, Ended, Open, Becomes
  <2>4. ASSUME i \in revoked PROVE Closing(i)'
    BY <1>0, <1>3, <2>1, <2>4
    DEF Closing, Begun, Answers, Stands, Plain, Starting, Failed, Ended, Open, Becomes
  <2> QED
    BY <2>2, <2>3, <2>4
<1>4. CASE /\ Happens(i) /\ expect'[i] = expect[i] /\ AskerAt(i)' = AskerAt(i)
           /\ \A d \in Copies : Stands(i, d)
  BY <1>0, <1>1, <1>4 DEF Known, Closing, Happens, Stands, Starting, Becomes, Open
<1>5. CASE Spawns(i)
  <2>1. \A c \in Copies : dpc'[<<i, c>>] \in {"off", "starting"}
    BY <1>5 DEF Spawns, PhaseInv, Phase
  <2>2. i \notin revoked'
    BY <1>0, <1>1, <1>5, <2>1 DEF Spawns, Closing, Begun, Starting
  <2> QED
    BY <2>1, <2>2 DEF Known
<1>6. ASSUME NEW c \in Copies, \A d \in Copies : d # c => Stands(i, d),
             expect'[i] = expect[i], AskerAt(i)' = AskerAt(i), WorkerTurns(i, c)
      PROVE  (\A d \in Copies : Known(i, d)') /\ (i \in revoked' => Closing(i)')
  <2>1. \A d \in Copies : d # c => dpc'[<<i, d>>] = dpc[<<i, d>>]
    BY <1>6 DEF Stands
  <2>2. \A d \in Copies : d # c => dpc[<<i, d>>] \in {"off", "gone"}
    <3>1. Living(<<i, c>>) \/ Living(<<i, c>>)'
      BY <1>6 DEF Living, WorkerTurns, Waits, GivesUp, GoesOn, IsHeard, ComesOrGoes
    <3> QED
      BY <1>0, <2>1, <3>1 DEF Living
  <2>3. \A d \in Copies : d # c => Known(i, d)'
    BY <2>1, <2>2 DEF Known
  <2>4. i \in revoked' => i \in revoked \/ (dpc[<<i, c>>] = "unlink" /\ dpc'[<<i, c>>] = "promote")
    BY <1>1, <2>1
  <2>5. Known(i, c)'
    <3>1. CASE Waits(i, c)
      BY <1>0, <1>6, <3>1 DEF Known, Begun, Waits, Plain, Starting
    <3>2. CASE GivesUp(i, c)
      BY <1>0, <1>6, <3>2 DEF Known, GivesUp
    <3>3. CASE GoesOn(i, c)
      BY <1>0, <1>6, <3>3 DEF Known, GoesOn, Recorded, Starting, Claimed
    <3>4. CASE IsHeard(i, c)
      BY <3>4 DEF Known, IsHeard
    <3>5. CASE ComesOrGoes(i, c)
      BY <3>5 DEF Known, ComesOrGoes
    <3> QED
      BY <1>6, <3>1, <3>2, <3>3, <3>4, <3>5 DEF WorkerTurns
  <2>6. ASSUME i \in revoked PROVE Closing(i)'
    <3>0. Closing(i) /\ ~Saved(expect[i].id) /\ Known(i, c)
      BY <1>0, <2>6
    <3>1. intent'[i].claimed
          /\ (intent[i].status \in {"disconnected", "ended"} =>
                intent'[i].status \in {"disconnected", "ended"})
      BY <1>6, <3>0
      DEF Closing, WorkerTurns, Waits, GivesUp, GoesOn, IsHeard, ComesOrGoes, Plain, Failed, Ended,
          Open, Claimed, Becomes
    <3>2. CASE intent[i].status = "confirmed" /\ kept[i] \in {"delete_pending", "disconnected"}
               /\ dpc[<<i, c>>] \in {"off", "gone", "starting", "resume", "promote", "report"}
      <4>1. CASE Waits(i, c) \/ ComesOrGoes(i, c)
        BY <2>1, <2>2, <3>1, <3>2, <4>1 DEF Closing, Waits, ComesOrGoes, Plain
      <4>2. CASE GivesUp(i, c)
        BY <2>1, <2>2, <3>1, <3>2, <4>2 DEF Closing, GivesUp, Plain, Failed, Ended
      <4>3. CASE GoesOn(i, c)
        BY <2>1, <2>2, <3>0, <3>1, <3>2, <4>3 DEF Closing, GoesOn, Recorded, Claimed
      <4>4. CASE IsHeard(i, c)
        BY <3>1, <3>2, <4>4 DEF Closing, IsHeard, Becomes
      <4> QED
        BY <1>6, <4>1, <4>2, <4>3, <4>4 DEF WorkerTurns
    <3> QED
      BY <3>0, <3>1, <3>2 DEF Closing
  <2>7. ASSUME dpc[<<i, c>>] = "unlink", dpc'[<<i, c>>] = "promote" PROVE Closing(i)'
    <3>1. intent'[i] = intent[i] /\ kept'[i] = kept[i]
      BY <1>6, <2>7 DEF WorkerTurns, Waits, GivesUp, GoesOn, IsHeard, ComesOrGoes
    <3>2. kept[i] = "delete_pending" /\ intent[i].claimed
          /\ intent[i].status \in {"confirmed", "disconnected"}
      BY <1>0, <2>7 DEF Known
    <3> QED
      BY <2>1, <2>2, <2>7, <3>1, <3>2 DEF Closing
  <2> QED
    BY <2>3, <2>4, <2>5, <2>6, <2>7
<1> QED
  BY <1>2, <1>3, <1>4, <1>5, <1>6, EachRevocation DEF RevocationMoves

\* Where a revocation never had two workers alive at a time, a deletion is remembered
\* on disk until the platform has closed the intent, whatever dies when
\* (_promote_disconnect_completion_receipt, _resume_retained_disconnect_workers).
THEOREM DeletionIsRememberedHolds == WorkspaceSpec => []DeletionIsRemembered
<1> DEFINE J == /\ BaseInv /\ IntentInv /\ GoneInv /\ PhaseInv /\ UnlinkInv /\ StartingInv
                /\ MemoryInv
<1>1. WorkspaceInit => J
  <2> SUFFICES ASSUME WorkspaceInit PROVE J
    OBVIOUS
  <2>1. BaseInv
    BY FirstStateIsSafe, NothingUnderWay DEF BaseInv
  <2> QED
    BY <2>1, NothingUnderWay
    DEF IntentInv, GoneInv, Gone, PhaseInv, Phase, Expiring, UnlinkInv, Deleting, StartingInv,
        Begun, Starting, MemoryInv, BesideInv, Living, Known
<1>2. J /\ [WorkspaceNext]_everything => J'
  <2> SUFFICES ASSUME J, [WorkspaceNext]_everything PROVE J'
    OBVIOUS
  <2>1. BaseInv' /\ IntentInv' /\ GoneInv' /\ PhaseInv'
    BY BaseStep, IntentStep, GoneStep, PhaseStep
  <2>2. UnlinkInv' /\ StartingInv'
    BY UnlinkStep, StartingStep
  <2>3. MemoryInv'
    BY MemoryStep
  <2> QED
    BY <2>1, <2>2, <2>3
<1>3. J => DeletionIsRemembered
  BY DEF MemoryInv, Closing, DeletionIsRemembered
<1> QED
  BY <1>1, <1>2, <1>3, PTL DEF WorkspaceSpec

-----------------------------------------------------------------------------
(* What a sign-in promises, with revocations and refreshes beside it.      *)

\* What the sign-ins alone promise they promise still: no other sign-in can
\* install while an install waits for its acknowledgement, no Google account is
\* saved twice, and no sign-in is announced twice.
THEOREM SignInsKeepTheirWord ==
  WorkspaceSpec => [](NoSignInDuringSync /\ OneAccountEach /\ OneReadyNotice)
<1>1. BaseInv => NoSignInDuringSync
  BY DEF BaseInv, SafeInv, InstallInv
<1>2. BaseInv => OneAccountEach
  BY AdmittedIsUnambiguous DEF BaseInv, AccountInv, OneAccountEach
<1>3. BaseInv => OneReadyNotice
  BY DEF BaseInv, NoticeInv, OneReadyNotice
<1> QED
  BY <1>1, <1>2, <1>3, BaseHolds, PTL

\* The platform hears "installed" only of a credential that is on disk, though
\* a revocation may empty the registry and a refresh rewrites it.
THEOREM WorkspaceClaims == WorkspaceSpec => ClaimMeansSaved
<1> DEFINE A == \A h \in Handoffs :
       handoff[h].status # "claimed" /\ handoff'[h].status = "claimed"
         => \E a \in store' : a.from = h
<1>1. ASSUME BaseInv, [WorkspaceNext]_everything PROVE A \/ UNCHANGED allVars
  <2>1. CASE [HandoffNext]_allVars
    BY <1>1, <2>1, SavedBeforeClaimed DEF BaseInv
  <2>2. CASE Guest
    BY <2>2 DEF Guest, hvars
  <2> QED
    BY <1>1, <2>1, <2>2, Halves DEF BaseInv, SafeInv
<1>2. BaseInv /\ [WorkspaceNext]_everything => [A]_allVars
  BY <1>1
<1> QED
  BY <1>2, BaseHolds, PTL DEF WorkspaceSpec, ClaimMeansSaved

\* An account that is new to the registry, and no refreshed copy of one that was
\* there, comes from the sign-in whose marker stands, while the plugin is not
\* between its checks and its button.
NewFromTheActive ==
  [][\A a \in store' :
       (\A b \in store : ~Alike(a, b))
         => a.from = active /\ pc[Tool] \notin {"posting", "starting", "button"}]_everything

THEOREM WorkspaceInstalls == WorkspaceSpec => NewFromTheActive
<1> DEFINE A == \A a \in store' :
       (\A b \in store : ~Alike(a, b))
         => a.from = active /\ pc[Tool] \notin {"posting", "starting", "button"}
<1>1. ASSUME BaseInv, [WorkspaceNext]_everything PROVE A
  <2>1. CASE [HandoffNext]_allVars
    BY <1>1, <2>1, FromTheActive DEF BaseInv, Alike
  <2>2. CASE Guest
    BY <2>2 DEF Guest
  <2> QED
    BY <1>1, <2>1, <2>2, Halves DEF BaseInv, SafeInv
<1>2. BaseInv /\ [WorkspaceNext]_everything => [A]_everything
  BY <1>1
<1> QED
  BY <1>2, BaseHolds, PTL DEF WorkspaceSpec, NewFromTheActive

\* With revocations and refreshes beside it the user is told a failure of a saved
\* credential only when a write raised after the credential was on disk, or the
\* sign-in had two workers (_poll_and_install, run_worker).
THEOREM WorkspaceFailures == WorkspaceSpec => []FailedMeansUnsaved
<1>1. WorkspaceInit => BaseInv /\ FailedInv
  BY FirstStateIsSafe, NothingUnderWay DEF BaseInv
<1>2. ASSUME BaseInv, FailedInv, [WorkspaceNext]_everything PROVE FailedInv'
  <2>1. CASE [HandoffNext]_allVars
    BY <1>2, <2>1, FailedStep DEF BaseInv
  <2>2. CASE Guest
    BY <1>2, <2>2, GuestKeepsOutcomes DEF BaseInv
  <2> QED
    BY <1>2, <2>1, <2>2, Halves DEF BaseInv, SafeInv
<1>3. BaseInv /\ FailedInv /\ [WorkspaceNext]_everything => (BaseInv /\ FailedInv)'
  BY <1>2, BaseStep
<1>4. FailedInv => FailedMeansUnsaved
  BY DEF FailedInv, FailedMeansUnsaved, Smooth
<1> QED
  BY <1>1, <1>3, <1>4, PTL DEF WorkspaceSpec
=============================================================================
