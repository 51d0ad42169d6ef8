----------------------------- MODULE HatProofs ------------------------------
(* The proofs of a Hat's credential store, of its skills, and of the cursor   *)
(* over the mailbox.  Each begins with the specification of its part alone,  *)
(* without fairness, and the inductive invariant of that part.               *)
EXTENDS HatStore, HatSkills, MailCursor, FiniteSetTheorems, FunctionTheorems, TLAPS

-----------------------------------------------------------------------------
(* The store of a Hat's credentials.                                        *)

StoreSpec == StoreInit /\ [][StoreNext]_storeVars

\* Where a process has the lock of a directory, and where it holds or awaits it.
InStore == {"keys", "half", "writing"}
InMove  == {"moving", "sealing"}
Locks(p) == IF p = Renamer THEN task[p].pc \in InMove ELSE task[p].pc \in InStore

SaverStates == {"idle", "chosen", "waiting", "done", "failed"} \union InStore
RenamerStates == {"idle", "checking", "waiting", "done", "failed"} \union InMove

\* A lock is held by the process that says so, on the directory it opened; the
\* directories a rename works on are where it left them.
LocksSound ==
  /\ \A p \in Owners, d \in Dirs : lock[d] = p <=> Locks(p) /\ task[p].inode = d
  /\ \A p \in Savers : /\ task[p].pc \in SaverStates
                       /\ task[p].pc \in {"waiting"} \union InStore => task[p].inode # 0
  /\ task[Renamer].pc \in RenamerStates
DirsSound ==
  /\ at["old"] # 0 => at["old"] # at["new"]
  /\ \A path \in Handles : at[path] <= made
  /\ \A d \in Dirs : d > made => dir[d] = Blank
RenameSound ==
  LET r == task[Renamer] IN
  /\ r.pc \in {"checking", "waiting"} \union InMove => handle = "new"
  /\ r.pc \in {"waiting", "moving"} => r.inode # 0 /\ at["old"] = r.inode
  /\ r.pc = "sealing" => r.inode # 0 /\ at["new"] = r.inode

\* While no save is strained: every save writes the store it read, which nobody
\* writes in between, and a rename carries every credential there is.
SavesSound ==
  \A p \in Savers, path \in Handles : task[p].path = path =>
    /\ task[p].pc \in {"waiting"} \union InStore => at[path] = task[p].inode
    /\ task[p].pc \in InStore => task[p].names = Contents(path) \union {NameOf[p]}
    /\ task[p].pc = "writing" => dir[task[p].inode].key = "both"
\* What was reported is among the names, and the old store still has them.
Carried(names) ==
  /\ told["new"] = {} /\ told["old"] \subseteq names
  /\ told["old"] \subseteq Contents("new")
  /\ told["old"] # {} => dir[at["new"]].handle = "old"
CarriesSound ==
  LET r == task[Renamer] IN
  /\ r.pc = "moving" => r.names = Contents("old")
  /\ r.pc \in InMove /\ r.names # {} => dir[r.inode].key = "both"
  /\ r.pc = "sealing" => Carried(r.names) /\ at["old"] = 0 /\ ~UnderWay("old")

\* Whatever is under way, and whatever was reported, is so under the Hat's handle,
\* unless the rename has not been done.
HomeSound == \A path \in Handles : UnderWay(path) \/ told[path] # {} => Home(path)

\* What was reported is where it was saved.
ReadableThere ==
  task[Renamer].pc = "sealing" \/
    \A path \in Handles : \A n \in told[path] : n \in Contents(path) /\ Readable(at[path], path)

StoreInv ==
  /\ StoreTypeOK /\ LocksSound /\ DirsSound /\ RenameSound
  /\ strained \/ (SavesSound /\ CarriesSound /\ ReadableThere /\ HomeSound)

\* The processes, the directories and the credentials' names, apart.
LEMMA StoreIds ==
  /\ NoOne \notin Owners /\ Renamer \in Owners /\ Savers \subseteq Owners
  /\ Renamer \notin Savers /\ 0 \notin Dirs /\ Dirs \subseteq 0 .. MaxDirs
  /\ \A p \in Savers : NameOf[p] \in CredentialNames
BY StoreAssumption DEF NoOne, Owners, Renamer, Dirs, CredentialNames

TaskStates == {"idle", "chosen", "checking", "waiting", "keys", "half", "writing",
               "moving", "sealing", "done", "failed"}
Tasks == [pc : TaskStates, path : Handles, inode : 0 .. MaxDirs, names : SUBSET CredentialNames]
DirRecords == [key : {"none", "private", "both"}, sealed : BOOLEAN,
               handle : Handles, names : SUBSET CredentialNames]

\* The types, with the sets of records named.
LEMMA StoreTypes ==
  StoreTypeOK <=>
    /\ at \in [Handles -> 0 .. MaxDirs] /\ made \in 0 .. MaxDirs
    /\ dir \in [Dirs -> DirRecords]
    /\ lock \in [Dirs -> Owners \union {NoOne}]
    /\ handle \in Handles \union {"retired"}
    /\ task \in [Owners -> Tasks]
    /\ told \in [Handles -> SUBSET CredentialNames] /\ sent \subseteq CredentialNames
    /\ strained \in BOOLEAN /\ faults \in 0 .. MaxFaults
BY DEF StoreTypeOK, Tasks, TaskStates, DirRecords

\* What a step that only moves a process on does to its task.
LEMMA MovesTask ==
  ASSUME task \in [Owners -> Tasks], NEW p \in Owners, NEW pc \in TaskStates, Moves(p, pc)
  PROVE  /\ task' \in [Owners -> Tasks]
         /\ task'[p].pc = pc /\ task'[p].path = task[p].path
         /\ task'[p].inode = task[p].inode /\ task'[p].names = task[p].names
         /\ \A q \in Owners \ {p} : task'[q] = task[q]
<1>1. task[p] \in Tasks /\ task' = [task EXCEPT ![p] = [task[p] EXCEPT !.pc = pc]]
  BY DEF Moves
<1>2. [task[p] EXCEPT !.pc = pc] \in Tasks
  BY <1>1 DEF Tasks
<1> QED
  BY <1>1, <1>2 DEF Tasks

\* A directory is made where there is none.
LEMMA MakesDirTypes ==
  ASSUME at \in [Handles -> 0 .. MaxDirs], made \in 0 .. MaxDirs, NEW path \in Handles,
         MakesDir(path)
  PROVE  /\ at' \in [Handles -> 0 .. MaxDirs] /\ made' \in 0 .. MaxDirs
         /\ Made(path) \in Dirs /\ at'[path] = Made(path)
         /\ \A q \in Handles \ {path} : at'[q] = at[q]
         /\ IF at[path] = 0 THEN made' = made + 1 /\ Made(path) = made + 1
            ELSE made' = made /\ Made(path) = at[path] /\ at' = at
BY StoreAssumption DEF MakesDir, Made, Dirs

\* A process that lets go of its locks frees those and no other.
LEMMA ReleasedTypes ==
  ASSUME lock \in [Dirs -> Owners \union {NoOne}], NEW p \in Owners
  PROVE  /\ Released(p) \in [Dirs -> Owners \union {NoOne}]
         /\ \A d \in Dirs : Released(p)[d] = IF lock[d] = p THEN NoOne ELSE lock[d]
BY DEF Released

\* A fault is counted within the bound.
LEMMA FaultTypes ==
  ASSUME faults \in 0 .. MaxFaults, Fault
  PROVE  faults' \in 0 .. MaxFaults
BY StoreAssumption DEF Fault

\* A directory moves back to the old place, or the saves are strained.
LEMMA MovesBackFacts ==
  ASSUME StoreTypeOK, MovesBack
  PROVE  /\ at' \in [Handles -> 0 .. MaxDirs] /\ strained' \in BOOLEAN
         /\ \/ /\ at["new"] # 0 /\ at["old"] = 0 /\ at'["old"] = at["new"] /\ at'["new"] = 0
               /\ strained' = (strained \/ UnderWay("new"))
            \/ strained' = TRUE /\ at' = at
<1>1. at \in [Handles -> 0 .. MaxDirs] /\ strained \in BOOLEAN /\ UnderWay("new") \in BOOLEAN
  BY StoreTypes DEF UnderWay
<1>2. "old" \in Handles /\ "new" \in Handles /\ 0 \in 0 .. MaxDirs
  BY StoreAssumption DEF Handles
<1>3. CASE at["new"] # 0 /\ at["old"] = 0
  <2>1. at' = [at EXCEPT !["old"] = at["new"], !["new"] = 0] /\ strained' = (strained \/ UnderWay("new"))
    BY <1>3 DEF MovesBack
  <2>2. at'["old"] = at["new"] /\ at'["new"] = 0 /\ at' \in [Handles -> 0 .. MaxDirs]
    BY <1>1, <1>2, <2>1
  <2> QED
    BY <1>1, <1>3, <2>1, <2>2
<1>4. CASE ~(at["new"] # 0 /\ at["old"] = 0)
  BY <1>1, <1>4 DEF MovesBack
<1> QED
  BY <1>3, <1>4

\* Where the contents of a directory come from.
LEMMA ContentsType ==
  ASSUME StoreTypeOK, NEW path \in Handles
  PROVE  Contents(path) \subseteq CredentialNames
<1>1. at[path] \in Dirs => dir[at[path]] \in DirRecords
  BY StoreTypes
<1>2. at[path] # 0 => at[path] \in Dirs
  BY StoreTypes, StoreAssumption DEF Dirs
<1> QED
  BY <1>1, <1>2 DEF Contents, DirRecords

\* A store is empty and unlocked at first.
LEMMA StoreBegins == StoreInit => StoreInv
<1> SUFFICES ASSUME StoreInit PROVE StoreInv
  OBVIOUS
<1>1. StoreTypeOK
  <2>1. [pc |-> "idle", path |-> "old", inode |-> 0, names |-> {}] \in Tasks
    BY StoreAssumption DEF Tasks, TaskStates, Handles
  <2>2. Blank \in DirRecords
    BY DEF Blank, DirRecords, Handles
  <2>3. /\ at \in [Handles -> 0 .. MaxDirs] /\ made \in 0 .. MaxDirs /\ faults \in 0 .. MaxFaults
        /\ lock \in [Dirs -> Owners \union {NoOne}]
    BY StoreAssumption DEF StoreInit
  <2>4. dir \in [Dirs -> DirRecords] /\ task \in [Owners -> Tasks]
    BY <2>1, <2>2 DEF StoreInit
  <2>5. handle \in Handles /\ told \in [Handles -> SUBSET CredentialNames] /\ sent = {}
        /\ strained = FALSE
    BY DEF StoreInit, Handles
  <2> QED
    BY <2>3, <2>4, <2>5, StoreTypes
<1>2. \A p \in Owners : task[p].pc = "idle" /\ ~Locks(p)
  BY DEF StoreInit, Locks, InMove, InStore
<1>3. LocksSound
  BY <1>2, StoreIds DEF StoreInit, LocksSound, SaverStates, RenamerStates, InStore, InMove
<1>4. DirsSound
  BY DEF StoreInit, DirsSound, Handles
<1>5. RenameSound
  BY <1>2, StoreIds DEF RenameSound, InMove
<1>6. SavesSound /\ CarriesSound /\ ReadableThere /\ HomeSound
  BY <1>2, StoreIds DEF StoreInit, SavesSound, CarriesSound, ReadableThere, HomeSound,
                        UnderWay, InStore, InMove
<1> QED
  BY <1>1, <1>3, <1>4, <1>5, <1>6 DEF StoreInv

\* Every step keeps the types.
LEMMA StoreTypeStep ==
  ASSUME StoreInv, [StoreNext]_storeVars
  PROVE  StoreTypeOK'
<1>0. /\ at \in [Handles -> 0 .. MaxDirs] /\ made \in 0 .. MaxDirs
      /\ dir \in [Dirs -> DirRecords]
      /\ lock \in [Dirs -> Owners \union {NoOne}]
      /\ handle \in Handles \union {"retired"}
      /\ task \in [Owners -> Tasks]
      /\ told \in [Handles -> SUBSET CredentialNames] /\ sent \subseteq CredentialNames
      /\ strained \in BOOLEAN /\ faults \in 0 .. MaxFaults
      /\ StoreTypeOK
  BY StoreTypes DEF StoreInv
<1>a. ASSUME at' \in [Handles -> 0 .. MaxDirs], made' \in 0 .. MaxDirs,
             dir' \in [Dirs -> DirRecords], lock' \in [Dirs -> Owners \union {NoOne}],
             handle' \in Handles \union {"retired"}, task' \in [Owners -> Tasks],
             told' \in [Handles -> SUBSET CredentialNames], sent' \subseteq CredentialNames,
             strained' \in BOOLEAN, faults' \in 0 .. MaxFaults
      PROVE  StoreTypeOK'
  BY <1>a DEF StoreTypeOK, Tasks, TaskStates, DirRecords
<1>b. \A p \in Owners : task[p].path \in Handles /\ task[p].inode \in 0 .. MaxDirs
                        /\ task[p].names \subseteq CredentialNames
  BY <1>0 DEF Tasks
<1>c. \A path \in Handles : at[path] # 0 => at[path] \in Dirs
  BY <1>0, StoreAssumption DEF Dirs
<1>1. ASSUME NEW p \in Savers, SaveBegins(p) PROVE StoreTypeOK'
  <2> DEFINE t == [task[p] EXCEPT !.pc = "chosen", !.path = handle]
  <2>1. task' = [task EXCEPT ![p] = t]
    BY <1>1 DEF SaveBegins
  <2>2. t \in Tasks
    <3>1. task[p] \in Tasks /\ handle \in Handles
      BY <1>0, <1>1, StoreIds DEF SaveBegins
    <3> QED
      BY <3>1 DEF Tasks, TaskStates
  <2> HIDE DEF t
  <2>3. task' \in [Owners -> Tasks]
    BY <1>0, <2>1, <2>2
  <2> QED
    BY <1>0, <1>1, <1>a, <2>3 DEF SaveBegins
<1>2. ASSUME NEW p \in Savers, SaveOpens(p) PROVE StoreTypeOK'
  <2> DEFINE t == [task[p] EXCEPT !.pc = "waiting", !.inode = Made(task[p].path)]
  <2>1. task' = [task EXCEPT ![p] = t] /\ MakesDir(task[p].path)
    BY <1>2 DEF SaveOpens
  <2>2. at' \in [Handles -> 0 .. MaxDirs] /\ made' \in 0 .. MaxDirs /\ Made(task[p].path) \in 0 .. MaxDirs
    BY <1>0, <1>b, <2>1, MakesDirTypes, StoreIds
  <2>3. t \in Tasks
    <3>1. task[p] \in Tasks
      BY <1>0, StoreIds
    <3> QED
      BY <3>1, <2>2 DEF Tasks, TaskStates
  <2> HIDE DEF t
  <2>4. task' \in [Owners -> Tasks]
    BY <1>0, <2>1, <2>3
  <2> QED
    BY <1>0, <1>2, <1>a, <2>2, <2>4 DEF SaveOpens
<1>3. ASSUME NEW p \in Savers, SaveReads(p) PROVE StoreTypeOK'
  <2> DEFINE path == task[p].path
             t == [task[p] EXCEPT !.pc = "keys", !.names = Contents(path) \union {NameOf[p]}]
  <2>1. CASE Readable(at[path], path)
    <3>1. task' = [task EXCEPT ![p] = t] /\ lock' = [lock EXCEPT ![task[p].inode] = p]
      BY <1>3, <2>1 DEF SaveReads
    <3>2. t \in Tasks
      <4>1. task[p] \in Tasks /\ Contents(path) \union {NameOf[p]} \subseteq CredentialNames
        BY <1>0, <1>b, StoreIds, ContentsType
      <4> QED
        BY <4>1 DEF Tasks, TaskStates
    <3> HIDE DEF t
    <3>3. task' \in [Owners -> Tasks] /\ lock' \in [Dirs -> Owners \union {NoOne}]
      BY <1>0, <3>1, <3>2, StoreIds
    <3> QED
      BY <1>0, <1>3, <1>a, <3>3 DEF SaveReads
  <2>2. CASE ~Readable(at[path], path)
    <3>1. task' \in [Owners -> Tasks] /\ lock' = lock
      BY <1>0, <1>3, <2>2, MovesTask, StoreIds DEF SaveReads, TaskStates
    <3> QED
      BY <1>0, <1>3, <1>a, <3>1 DEF SaveReads
  <2> QED
    BY <2>1, <2>2
<1>4. ASSUME NEW p \in Savers, SaveFindsKeys(p) PROVE StoreTypeOK'
  <2> DEFINE d == Made(task[p].path)
  <2>1. d \in Dirs /\ at' \in [Handles -> 0 .. MaxDirs] /\ made' \in 0 .. MaxDirs
    BY <1>0, <1>b, <1>4, MakesDirTypes, StoreIds DEF SaveFindsKeys
  <2>2. /\ \E pc \in {"writing", "half", "failed"} : Moves(p, pc)
        /\ dir' = dir \/ dir' = [dir EXCEPT ![d] = [dir[d] EXCEPT !.key = "private"]]
        /\ lock' = lock \/ lock' = Released(p)
    BY <1>4 DEF SaveFindsKeys
  <2> HIDE DEF d
  <2>3. task' \in [Owners -> Tasks]
    BY <1>0, <2>2, MovesTask, StoreIds DEF TaskStates
  <2>4. dir' \in [Dirs -> DirRecords]
    <3>1. dir[d] \in DirRecords
      BY <1>0, <2>1
    <3>2. [dir[d] EXCEPT !.key = "private"] \in DirRecords
      BY <3>1 DEF DirRecords
    <3> QED
      BY <1>0, <2>2, <3>2
  <2>5. lock' \in [Dirs -> Owners \union {NoOne}]
    BY <1>0, <2>2, ReleasedTypes, StoreIds
  <2> QED
    BY <1>0, <1>4, <1>a, <2>1, <2>3, <2>4, <2>5 DEF SaveFindsKeys
<1>5. ASSUME NEW p \in Savers, SaveWritesPublicKey(p) PROVE StoreTypeOK'
  <2> DEFINE d == at[task[p].path]
  <2>1. /\ \E pc \in {"writing", "failed"} : Moves(p, pc)
        /\ dir' = dir \/ (d # 0 /\ dir' = [dir EXCEPT ![d] = [dir[d] EXCEPT !.key = "both"]])
        /\ lock' = lock \/ lock' = Released(p)
    BY <1>5 DEF SaveWritesPublicKey
  <2>2. d # 0 => d \in Dirs
    BY <1>b, <1>c, StoreIds
  <2> HIDE DEF d
  <2>3. task' \in [Owners -> Tasks]
    BY <1>0, <2>1, MovesTask, StoreIds DEF TaskStates
  <2>4. dir' \in [Dirs -> DirRecords]
    <3>1. CASE d # 0
      <4>1. dir[d] \in DirRecords
        BY <1>0, <2>2, <3>1
      <4>2. [dir[d] EXCEPT !.key = "both"] \in DirRecords
        BY <4>1 DEF DirRecords
      <4> QED
        BY <1>0, <2>1, <4>2
    <3> QED
      BY <1>0, <2>1, <3>1
  <2>5. lock' \in [Dirs -> Owners \union {NoOne}]
    BY <1>0, <2>1, ReleasedTypes, StoreIds
  <2> QED
    BY <1>0, <1>5, <1>a, <2>3, <2>4, <2>5 DEF SaveWritesPublicKey
<1>6. ASSUME NEW p \in Savers, SaveWrites(p) PROVE StoreTypeOK'
  <2> DEFINE d == at[task[p].path]
             r == [dir[d] EXCEPT !.sealed = TRUE, !.handle = task[p].path, !.names = task[p].names]
  <2>1. /\ \E pc \in {"done", "failed"} : Moves(p, pc)
        /\ \/ dir' = dir /\ told' = told
           \/ /\ d # 0 /\ dir' = [dir EXCEPT ![d] = r]
              /\ told' = [told EXCEPT ![task[p].path] = @ \union {NameOf[p]}]
        /\ lock' = Released(p)
    BY <1>6 DEF SaveWrites
  <2>2. d # 0 => d \in Dirs
    BY <1>b, <1>c, StoreIds
  <2>3. task' \in [Owners -> Tasks]
    BY <1>0, <2>1, MovesTask, StoreIds DEF TaskStates
  <2>4. d # 0 => r \in DirRecords
    <3> SUFFICES ASSUME d # 0 PROVE r \in DirRecords
      OBVIOUS
    <3>1. dir[d] \in DirRecords /\ task[p].path \in Handles /\ task[p].names \subseteq CredentialNames
      BY <1>0, <1>b, <2>2, StoreIds
    <3> QED
      BY <3>1 DEF DirRecords
  <2> HIDE DEF d, r
  <2>5. dir' \in [Dirs -> DirRecords]
    BY <1>0, <2>1, <2>2, <2>4
  <2>6. lock' \in [Dirs -> Owners \union {NoOne}] /\ told' \in [Handles -> SUBSET CredentialNames]
    BY <1>0, <1>b, <2>1, ReleasedTypes, StoreIds
  <2> QED
    BY <1>0, <1>6, <1>a, <2>3, <2>5, <2>6 DEF SaveWrites
<1>7. ASSUME NEW p \in Savers, SaveDies(p) PROVE StoreTypeOK'
  BY <1>0, <1>7, <1>a, MovesTask, ReleasedTypes, FaultTypes, StoreIds DEF SaveDies, TaskStates
<1>8. ASSUME NEW n \in CredentialNames, RemoveSecret(n) PROVE StoreTypeOK'
  <2> DEFINE d == at[handle]
             r == [dir[d] EXCEPT !.names = @ \ {n}]
  <2>1. d \in Dirs /\ dir' = [dir EXCEPT ![d] = r]
    BY <1>0, <1>c, <1>8 DEF RemoveSecret, Contents
  <2>2. r \in DirRecords
    <3>1. dir[d] \in DirRecords
      BY <1>0, <2>1
    <3>2. dir[d].names \ {n} \subseteq CredentialNames
      BY <3>1 DEF DirRecords
    <3> QED
      BY <3>1, <3>2 DEF DirRecords
  <2> HIDE DEF d, r
  <2>3. dir' \in [Dirs -> DirRecords]
    BY <1>0, <2>1, <2>2
  <2>4. told' \in [Handles -> SUBSET CredentialNames]
    BY <1>0, <1>8 DEF RemoveSecret
  <2> QED
    BY <1>0, <1>8, <1>a, <2>3, <2>4 DEF RemoveSecret
<1>9. CASE RenameStarts
  <2> DEFINE t == [pc |-> "checking", path |-> "old", inode |-> 0, names |-> {}]
  <2>1. t \in Tasks
    BY StoreAssumption DEF Tasks, TaskStates, Handles
  <2>2. task' \in [Owners -> Tasks]
    BY <1>0, <1>9, <2>1, StoreIds DEF RenameStarts
  <2> QED
    BY <1>0, <1>9, <1>a, <2>2 DEF RenameStarts, Handles
<1>10. CASE RenameChecks
  <2> DEFINE pc == IF at["old"] = 0 THEN "done" ELSE IF at["new"] # 0 THEN "failed" ELSE "waiting"
             t == [task[Renamer] EXCEPT !.inode = at["old"], !.pc = pc]
  <2>1. task' = [task EXCEPT ![Renamer] = t]
    BY <1>10 DEF RenameChecks
  <2>2. t \in Tasks
    <3>1. task[Renamer] \in Tasks /\ pc \in TaskStates /\ at["old"] \in 0 .. MaxDirs
      BY <1>0, StoreIds DEF TaskStates, Handles
    <3> HIDE DEF pc
    <3> QED
      BY <3>1 DEF Tasks
  <2> HIDE DEF t
  <2>3. task' \in [Owners -> Tasks]
    BY <1>0, <2>1, <2>2
  <2>4. strained' \in BOOLEAN
    BY <1>0, <1>10 DEF RenameChecks, UnderWay
  <2> QED
    BY <1>0, <1>10, <1>a, <2>3, <2>4 DEF RenameChecks
<1>11. CASE RenameReads
  <2>1. CASE Readable(at["old"], "old")
    <3> DEFINE t == [task[Renamer] EXCEPT !.pc = "moving", !.names = Contents("old")]
    <3>1. task' = [task EXCEPT ![Renamer] = t] /\ lock' = [lock EXCEPT ![task[Renamer].inode] = Renamer]
      BY <1>11, <2>1 DEF RenameReads
    <3>2. t \in Tasks
      <4>1. task[Renamer] \in Tasks /\ Contents("old") \subseteq CredentialNames
        BY <1>0, StoreIds, ContentsType DEF Handles
      <4> QED
        BY <4>1 DEF Tasks, TaskStates
    <3> HIDE DEF t
    <3>3. task' \in [Owners -> Tasks] /\ lock' \in [Dirs -> Owners \union {NoOne}]
      BY <1>0, <3>1, <3>2, StoreIds
    <3> QED
      BY <1>0, <1>11, <1>a, <3>3 DEF RenameReads
  <2>2. CASE ~Readable(at["old"], "old")
    <3>1. task' \in [Owners -> Tasks] /\ lock' = lock
      BY <1>0, <1>11, <2>2, MovesTask, StoreIds DEF RenameReads, TaskStates
    <3> QED
      BY <1>0, <1>11, <1>a, <3>1 DEF RenameReads
  <2> QED
    BY <2>1, <2>2
<1>12. CASE RenameMoves
  <2>1. /\ \E pc \in {"sealing", "failed"} : Moves(Renamer, pc)
        /\ at' = [at EXCEPT !["new"] = at["old"], !["old"] = 0] \/ at' = at
        /\ lock' = lock \/ lock' = Released(Renamer)
        /\ strained' = strained \/ strained' = (strained \/ UnderWay("old"))
    BY <1>12 DEF RenameMoves
  <2>2. task' \in [Owners -> Tasks]
    BY <1>0, <2>1, MovesTask, StoreIds DEF TaskStates
  <2>3. at' \in [Handles -> 0 .. MaxDirs]
    BY <1>0, <2>1, StoreAssumption DEF Handles
  <2>4. lock' \in [Dirs -> Owners \union {NoOne}]
    BY <1>0, <2>1, ReleasedTypes, StoreIds
  <2>5. strained' \in BOOLEAN
    <3>1. UnderWay("old") \in BOOLEAN
      BY DEF UnderWay
    <3> QED
      BY <1>0, <2>1, <3>1
  <2> QED
    BY <1>0, <1>12, <1>a, <2>2, <2>3, <2>4, <2>5 DEF RenameMoves
<1>13. CASE RenameSeals
  <2> DEFINE d == at["new"]
             r == [key |-> "both", sealed |-> TRUE, handle |-> "new", names |-> task[Renamer].names]
  <2>1. /\ \E pc \in {"done", "failed"} : Moves(Renamer, pc)
        /\ dir' = dir \/ (d # 0 /\ dir' = [dir EXCEPT ![d] = r])
        /\ told' = told \/ told' = [told EXCEPT !["new"] = @ \union told["old"], !["old"] = {}]
        /\ lock' = Released(Renamer)
        /\ MovesBack \/ UNCHANGED <<at, strained>>
    BY <1>13 DEF RenameSeals
  <2>2. r \in DirRecords
    BY <1>b, StoreIds DEF DirRecords, Handles
  <2> HIDE DEF d, r
  <2>3. dir' \in [Dirs -> DirRecords] /\ lock' \in [Dirs -> Owners \union {NoOne}]
    BY <1>0, <2>1, <2>2, ReleasedTypes, StoreIds
  <2>4. task' \in [Owners -> Tasks]
    BY <1>0, <2>1, MovesTask, StoreIds DEF TaskStates
  <2>5. told' \in [Handles -> SUBSET CredentialNames]
    BY <1>0, <2>1 DEF Handles
  <2>6. at' \in [Handles -> 0 .. MaxDirs] /\ strained' \in BOOLEAN
    BY <1>0, <2>1, MovesBackFacts
  <2> QED
    BY <1>0, <1>13, <1>a, <2>3, <2>4, <2>5, <2>6 DEF RenameSeals
<1>14. CASE RenameRollsBack
  <2> DEFINE r == [key |-> "both", sealed |-> TRUE, handle |-> "old", names |-> task[Renamer].names]
  <2>1. /\ Moves(Renamer, "failed") /\ lock' = Released(Renamer) /\ Fault /\ MovesBack
        /\ dir' = [dir EXCEPT ![at["new"]] = r] \/ dir' = dir
    BY <1>14 DEF RenameRollsBack
  <2>2. r \in DirRecords
    BY <1>b, StoreIds DEF DirRecords, Handles
  <2> HIDE DEF r
  <2>3. dir' \in [Dirs -> DirRecords] /\ lock' \in [Dirs -> Owners \union {NoOne}]
    BY <1>0, <2>1, <2>2, ReleasedTypes, StoreIds
  <2>4. task' \in [Owners -> Tasks]
    BY <1>0, <2>1, MovesTask, StoreIds DEF TaskStates
  <2>5. at' \in [Handles -> 0 .. MaxDirs] /\ strained' \in BOOLEAN
    BY <1>0, <2>1, MovesBackFacts
  <2> QED
    BY <1>0, <1>14, <1>a, <2>1, <2>3, <2>4, <2>5, FaultTypes DEF RenameRollsBack
<1>15. CASE RenameDies
  <2>1. strained' \in BOOLEAN
    BY <1>0, <1>15 DEF RenameDies
  <2> QED
    BY <1>0, <1>15, <1>a, <2>1, MovesTask, ReleasedTypes, FaultTypes, StoreIds DEF RenameDies, TaskStates
<1>16. CASE Retire
  <2>1. strained' \in BOOLEAN
    BY <1>0, <1>16 DEF Retire, UnderWay
  <2>2. at' \in [Handles -> 0 .. MaxDirs] /\ told' \in [Handles -> SUBSET CredentialNames]
    BY <1>16, StoreAssumption DEF Retire
  <2> QED
    BY <1>0, <1>16, <1>a, <2>1, <2>2 DEF Retire
<1>17. ASSUME NEW names \in SUBSET CredentialNames, SendTransfer(names) PROVE StoreTypeOK'
  BY <1>0, <1>17, <1>a DEF SendTransfer
<1>18. CASE UNCHANGED storeVars
  BY <1>0, <1>18, <1>a DEF storeVars
<1> QED
  BY <1>1, <1>2, <1>3, <1>4, <1>5, <1>6, <1>7, <1>8, <1>9, <1>10, <1>11, <1>12, <1>13, <1>14,
     <1>15, <1>16, <1>17, <1>18 DEF StoreNext, SaveStep, RenameStep

----------------------------------------------------------------------------
\* What becomes of the locks when one process moves: it keeps what it has, lets
\* go, or takes the free lock of the directory it opened.
LEMMA LocksKept ==
  ASSUME StoreTypeOK, LocksSound, task' \in [Owners -> Tasks], NEW p \in Owners,
         \A q \in Owners \ {p} : task'[q] = task[q],
         \/ /\ lock' = lock /\ (Locks(p)' <=> Locks(p))
            /\ task'[p].inode = task[p].inode \/ ~Locks(p)
         \/ lock' = Released(p) /\ ~Locks(p)'
         \/ /\ task[p].inode \in Dirs /\ lock[task[p].inode] = NoOne
            /\ lock' = [lock EXCEPT ![task[p].inode] = p]
            /\ Locks(p)' /\ ~Locks(p) /\ task'[p].inode = task[p].inode
  PROVE  (\A q \in Owners, d \in Dirs : lock[d] = q <=> Locks(q) /\ task[q].inode = d)'
<1>1. \A q \in Owners \ {p} : Locks(q)' <=> Locks(q)
  BY DEF Locks
<1>2. \A q \in Owners, d \in Dirs : lock[d] = q <=> Locks(q) /\ task[q].inode = d
  BY DEF LocksSound
<1>3. lock \in [Dirs -> Owners \union {NoOne}]
  BY StoreTypes
<1>4. SUFFICES ASSUME NEW q \in Owners, NEW d \in Dirs
               PROVE  lock'[d] = q <=> Locks(q)' /\ task'[q].inode = d
  OBVIOUS
<1>5. CASE lock' = lock /\ (Locks(p)' <=> Locks(p)) /\ (task'[p].inode = task[p].inode \/ ~Locks(p))
  BY <1>1, <1>2, <1>5
<1>6. CASE lock' = Released(p) /\ ~Locks(p)'
  <2>1. lock'[d] = IF lock[d] = p THEN NoOne ELSE lock[d]
    BY <1>3, <1>6, ReleasedTypes
  <2> QED
    BY <1>1, <1>2, <1>6, <2>1, StoreIds
<1>7. CASE /\ task[p].inode \in Dirs /\ lock[task[p].inode] = NoOne
           /\ lock' = [lock EXCEPT ![task[p].inode] = p]
           /\ Locks(p)' /\ ~Locks(p) /\ task'[p].inode = task[p].inode
  <2>1. lock'[d] = IF task[p].inode = d THEN p ELSE lock[d]
    BY <1>3, <1>7
  <2>2. CASE task[p].inode = d
    BY <1>1, <1>2, <1>7, <2>1, <2>2, StoreIds
  <2>3. CASE task[p].inode # d
    BY <1>1, <1>2, <1>7, <2>1, <2>3, StoreIds
  <2> QED
    BY <2>2, <2>3
<1> QED
  BY <1>5, <1>6, <1>7

\* What each step does to the task of the process that takes it.
LEMMA BeginsFacts ==
  ASSUME StoreTypeOK, NEW p \in Savers, SaveBegins(p)
  PROVE  /\ task[p].pc = "idle" /\ task'[p].pc = "chosen" /\ task'[p].path = handle
         /\ \A q \in Owners \ {p} : task'[q] = task[q]
<1>1. task[p] \in Tasks /\ task \in [Owners -> Tasks] /\ p \in Owners
  BY StoreTypes, StoreIds
<1>2. task' = [task EXCEPT ![p] = [task[p] EXCEPT !.pc = "chosen", !.path = handle]]
  BY DEF SaveBegins
<1> QED
  BY <1>1, <1>2 DEF SaveBegins, Tasks

\* A save opens the store, and waits for the lock of its directory.
LEMMA OpensFacts ==
  ASSUME StoreTypeOK, NEW p \in Savers, SaveOpens(p)
  PROVE  /\ task[p].pc = "chosen" /\ task'[p].pc = "waiting"
         /\ task'[p].inode = Made(task[p].path) /\ task'[p].path = task[p].path
         /\ \A q \in Owners \ {p} : task'[q] = task[q]
         /\ task[p].path \in Handles
<1>1. task[p] \in Tasks /\ task \in [Owners -> Tasks] /\ p \in Owners
  BY StoreTypes, StoreIds
<1>2. task' = [task EXCEPT ![p] = [task[p] EXCEPT !.pc = "waiting", !.inode = Made(task[p].path)]]
  BY DEF SaveOpens
<1> QED
  BY <1>1, <1>2 DEF SaveOpens, Tasks

\* A save that has the lock reads the names there, or fails.
LEMMA ReadsFacts ==
  ASSUME StoreTypeOK, NEW p \in Savers, SaveReads(p)
  PROVE  /\ task[p].pc = "waiting" /\ lock[task[p].inode] = NoOne
         /\ task'[p].inode = task[p].inode /\ task'[p].path = task[p].path
         /\ \A q \in Owners \ {p} : task'[q] = task[q]
         /\ \/ /\ lock' = [lock EXCEPT ![task[p].inode] = p] /\ task'[p].pc = "keys"
               /\ task'[p].names = Contents(task[p].path) \union {NameOf[p]}
            \/ lock' = lock /\ task'[p].pc = "failed"
<1>1. task[p] \in Tasks /\ task \in [Owners -> Tasks] /\ p \in Owners
  BY StoreTypes, StoreIds
<1> DEFINE names == Contents(task[p].path) \union {NameOf[p]}
<1>2. CASE Readable(at[task[p].path], task[p].path)
  <2>1. /\ task' = [task EXCEPT ![p] = [task[p] EXCEPT !.pc = "keys", !.names = names]]
        /\ lock' = [lock EXCEPT ![task[p].inode] = p]
    BY <1>2 DEF SaveReads
  <2> HIDE DEF names
  <2>2. /\ task'[p].pc = "keys" /\ task'[p].names = names /\ task'[p].inode = task[p].inode
        /\ task'[p].path = task[p].path /\ \A q \in Owners \ {p} : task'[q] = task[q]
    BY <1>1, <2>1 DEF Tasks
  <2> QED
    BY <2>1, <2>2 DEF SaveReads, names
<1>3. CASE ~Readable(at[task[p].path], task[p].path)
  BY <1>1, <1>3, MovesTask DEF SaveReads, TaskStates
<1> QED
  BY <1>2, <1>3

\* A save finds the key pair, or writes the first half of one, or fails.
LEMMA FindsKeysFacts ==
  ASSUME StoreTypeOK, NEW p \in Savers, SaveFindsKeys(p)
  PROVE  /\ task[p].pc = "keys" /\ task[p].path \in Handles /\ MakesDir(task[p].path)
         /\ Made(task[p].path) \in Dirs
         /\ task'[p].inode = task[p].inode /\ task'[p].path = task[p].path
         /\ task'[p].names = task[p].names
         /\ \A q \in Owners \ {p} : task'[q] = task[q]
         /\ \/ /\ dir[Made(task[p].path)].key = "both" /\ task'[p].pc = "writing"
               /\ dir' = dir /\ lock' = lock
            \/ /\ dir[Made(task[p].path)].key = "none" /\ task'[p].pc = "half" /\ lock' = lock
               /\ dir' = [dir EXCEPT ![Made(task[p].path)].key = "private"]
            \/ task'[p].pc = "failed" /\ dir' = dir /\ lock' = Released(p)
<1>1. task[p] \in Tasks /\ task \in [Owners -> Tasks] /\ p \in Owners
  BY StoreTypes, StoreIds
<1>2. Made(task[p].path) \in Dirs /\ MakesDir(task[p].path)
  BY DEF SaveFindsKeys, MakesDir
<1>3. \E pc \in {"writing", "half", "failed"} : Moves(p, pc)
  BY DEF SaveFindsKeys
<1>4. /\ task'[p].path = task[p].path /\ task'[p].inode = task[p].inode
      /\ task'[p].names = task[p].names
      /\ \A q \in Owners \ {p} : task'[q] = task[q]
  BY <1>1, <1>3, MovesTask DEF TaskStates
<1>5. \A pc \in {"writing", "half", "failed"} : Moves(p, pc) => task'[p].pc = pc
  BY <1>1, MovesTask DEF TaskStates
<1> HIDE DEF Moves
<1> QED
  BY <1>1, <1>2, <1>4, <1>5 DEF SaveFindsKeys, Tasks

\* A save writes the other half of the pair where the path leads now, or fails.
LEMMA WritesKeyFacts ==
  ASSUME StoreTypeOK, NEW p \in Savers, SaveWritesPublicKey(p)
  PROVE  /\ task[p].pc = "half"
         /\ task'[p].inode = task[p].inode /\ task'[p].path = task[p].path
         /\ task'[p].names = task[p].names
         /\ \A q \in Owners \ {p} : task'[q] = task[q]
         /\ \/ /\ at[task[p].path] # 0 /\ task'[p].pc = "writing" /\ lock' = lock
               /\ dir' = [dir EXCEPT ![at[task[p].path]].key = "both"]
            \/ task'[p].pc = "failed" /\ dir' = dir /\ lock' = Released(p)
<1>1. task[p] \in Tasks /\ task \in [Owners -> Tasks] /\ p \in Owners
  BY StoreTypes, StoreIds
<1>3. \E pc \in {"writing", "failed"} : Moves(p, pc)
  BY DEF SaveWritesPublicKey
<1>4. /\ task'[p].path = task[p].path /\ task'[p].inode = task[p].inode
      /\ task'[p].names = task[p].names
      /\ \A q \in Owners \ {p} : task'[q] = task[q]
  BY <1>1, <1>3, MovesTask DEF TaskStates
<1>5. \A pc \in {"writing", "failed"} : Moves(p, pc) => task'[p].pc = pc
  BY <1>1, MovesTask DEF TaskStates
<1> QED
  BY <1>4, <1>5 DEF SaveWritesPublicKey

\* A save seals its names where the path leads now, or finds nothing there.
LEMMA WritesFacts ==
  ASSUME StoreTypeOK, NEW p \in Savers, SaveWrites(p)
  PROVE  /\ task[p].pc = "writing" /\ task'[p].pc \in {"done", "failed"}
         /\ \A q \in Owners \ {p} : task'[q] = task[q]
         /\ lock' = Released(p)
         /\ \/ /\ at[task[p].path] # 0
               /\ told'[task[p].path] = told[task[p].path] \union {NameOf[p]}
               /\ \A q \in Handles \ {task[p].path} : told'[q] = told[q]
               /\ dir' = [dir EXCEPT ![at[task[p].path]] =
                            [key |-> dir[at[task[p].path]].key, sealed |-> TRUE,
                             handle |-> task[p].path, names |-> task[p].names]]
            \/ at[task[p].path] = 0 /\ dir' = dir /\ told' = told
<1>1. task[p] \in Tasks /\ task \in [Owners -> Tasks] /\ p \in Owners
  BY StoreTypes, StoreIds
<1>2. \E pc \in {"done", "failed"} : Moves(p, pc)
  BY DEF SaveWrites
<1>3. task'[p].pc \in {"done", "failed"} /\ \A q \in Owners \ {p} : task'[q] = task[q]
  BY <1>1, <1>2, MovesTask DEF TaskStates
<1>4. CASE at[task[p].path] # 0
  <2> DEFINE d == at[task[p].path]
             r == [dir[d] EXCEPT !.sealed = TRUE, !.handle = task[p].path, !.names = task[p].names]
  <2>1. dir' = [dir EXCEPT ![d] = r]
    BY <1>4 DEF SaveWrites
  <2>4. /\ told'[task[p].path] = told[task[p].path] \union {NameOf[p]}
        /\ \A q \in Handles \ {task[p].path} : told'[q] = told[q]
    <3>1. told' = [told EXCEPT ![task[p].path] = @ \union {NameOf[p]}]
      BY <1>4 DEF SaveWrites
    <3>2. told \in [Handles -> SUBSET CredentialNames] /\ task[p].path \in Handles
      BY <1>1, StoreTypes DEF Tasks
    <3> QED
      BY <3>1, <3>2
  <2>2. dir[d] \in DirRecords
    BY <1>1, <1>4, StoreTypes, StoreAssumption DEF Tasks, Dirs
  <2>3. r = [key |-> dir[d].key, sealed |-> TRUE, handle |-> task[p].path, names |-> task[p].names]
    <3> DEFINE x == dir[d]
               h == task[p].path
               n == task[p].names
    <3>1. x \in DirRecords /\ h \in Handles /\ n \in SUBSET CredentialNames
      BY <1>1, <2>2 DEF Tasks
    <3> HIDE DEF x, h, n
    <3> DEFINE y == [x EXCEPT !.sealed = TRUE, !.handle = h, !.names = n]
    <3>2. y \in DirRecords
      BY <3>1 DEF DirRecords
    <3>3. y.key = x.key /\ y.sealed = TRUE /\ y.handle = h /\ y.names = n
      BY <3>1 DEF DirRecords
    <3> HIDE DEF y
    <3>4. y = [key |-> x.key, sealed |-> TRUE, handle |-> h, names |-> n]
      BY <3>2, <3>3 DEF DirRecords
    <3> QED
      BY <3>4 DEF y, x, h, n
  <2>5. lock' = Released(p) /\ task[p].pc = "writing"
    BY DEF SaveWrites
  <2> QED
    BY <1>3, <1>4, <2>1, <2>3, <2>4, <2>5
<1>5. CASE at[task[p].path] = 0
  BY <1>3, <1>5 DEF SaveWrites
<1> QED
  BY <1>4, <1>5

\* A save that dies lets go of the lock.
LEMMA SaveDiesFacts ==
  ASSUME StoreTypeOK, NEW p \in Savers, SaveDies(p)
  PROVE  /\ task'[p].pc = "failed" /\ lock' = Released(p)
         /\ \A q \in Owners \ {p} : task'[q] = task[q]
BY StoreTypes, StoreIds, MovesTask DEF SaveDies, TaskStates

\* A removal takes one name out of a store nobody has locked.
LEMMA RemovesFacts ==
  ASSUME StoreTypeOK, NEW n \in CredentialNames, RemoveSecret(n)
  PROVE  /\ at[handle] \in Dirs /\ lock[at[handle]] = NoOne
         /\ dir' = [dir EXCEPT ![at[handle]] =
                      [key |-> dir[at[handle]].key, sealed |-> dir[at[handle]].sealed,
                       handle |-> dir[at[handle]].handle,
                       names |-> dir[at[handle]].names \ {n}]]
<1>1. at[handle] \in Dirs
  BY StoreTypes, StoreAssumption DEF RemoveSecret, Contents, Dirs
<1>2. dir[at[handle]] \in DirRecords
  BY <1>1, StoreTypes
<1>3. dir' = [dir EXCEPT ![at[handle]] = [dir[at[handle]] EXCEPT !.names = @ \ {n}]]
  BY DEF RemoveSecret
<1>4. [dir[at[handle]] EXCEPT !.names = @ \ {n}] =
        [key |-> dir[at[handle]].key, sealed |-> dir[at[handle]].sealed,
         handle |-> dir[at[handle]].handle, names |-> dir[at[handle]].names \ {n}]
  BY <1>2 DEF DirRecords
<1> QED
  BY <1>1, <1>3, <1>4 DEF RemoveSecret

\* A rename starts by looking at what is there.
LEMMA RenameStartsFacts ==
  ASSUME StoreTypeOK, RenameStarts
  PROVE  /\ task[Renamer].pc = "idle" /\ task'[Renamer].pc = "checking"
         /\ \A q \in Savers : task'[q] = task[q]
BY StoreTypes, StoreIds DEF RenameStarts

\* A rename goes on only if the old store is there.
LEMMA RenameChecksFacts ==
  ASSUME StoreTypeOK, RenameChecks
  PROVE  /\ task[Renamer].pc = "checking" /\ task'[Renamer].inode = at["old"]
         /\ task'[Renamer].pc \in {"done", "failed", "waiting"}
         /\ task'[Renamer].pc = "waiting" => at["old"] # 0
         /\ task'[Renamer].pc = "done" => at["old"] = 0
         /\ \A q \in Savers : task'[q] = task[q]
<1> DEFINE pc == IF at["old"] = 0 THEN "done" ELSE IF at["new"] # 0 THEN "failed" ELSE "waiting"
<1>1. task' = [task EXCEPT ![Renamer] = [task[Renamer] EXCEPT !.inode = at["old"], !.pc = pc]]
  BY DEF RenameChecks
<1>2. task[Renamer] \in Tasks /\ task \in [Owners -> Tasks]
  BY StoreTypes, StoreIds
<1>3. /\ pc \in {"done", "failed", "waiting"}
      /\ pc = "waiting" => at["old"] # 0
      /\ pc = "done" => at["old"] = 0
  OBVIOUS
<1> HIDE DEF pc
<1> QED
  BY <1>1, <1>2, <1>3, StoreIds DEF RenameChecks, Tasks

\* A rename that has the lock reads the old store, or fails.
LEMMA RenameReadsFacts ==
  ASSUME StoreTypeOK, RenameReads
  PROVE  /\ task[Renamer].pc = "waiting" /\ lock[task[Renamer].inode] = NoOne
         /\ task'[Renamer].inode = task[Renamer].inode
         /\ \A q \in Savers : task'[q] = task[q]
         /\ \/ /\ Readable(at["old"], "old")
               /\ lock' = [lock EXCEPT ![task[Renamer].inode] = Renamer]
               /\ task'[Renamer].pc = "moving" /\ task'[Renamer].names = Contents("old")
            \/ lock' = lock /\ task'[Renamer].pc = "failed"
<1>1. task[Renamer] \in Tasks /\ task \in [Owners -> Tasks] /\ Renamer \in Owners
  BY StoreTypes, StoreIds
<1> DEFINE names == Contents("old")
<1>2. CASE Readable(at["old"], "old")
  <2>1. /\ task' = [task EXCEPT ![Renamer] = [task[Renamer] EXCEPT !.pc = "moving", !.names = names]]
        /\ lock' = [lock EXCEPT ![task[Renamer].inode] = Renamer]
    BY <1>2 DEF RenameReads
  <2> HIDE DEF names
  <2>2. /\ task'[Renamer].pc = "moving" /\ task'[Renamer].names = names
        /\ task'[Renamer].inode = task[Renamer].inode
        /\ \A q \in Savers : task'[q] = task[q]
    BY <1>1, <2>1, StoreIds DEF Tasks
  <2> QED
    BY <1>2, <2>1, <2>2 DEF RenameReads, names
<1>3. CASE ~Readable(at["old"], "old")
  BY <1>1, <1>3, MovesTask, StoreIds DEF RenameReads, TaskStates
<1> QED
  BY <1>2, <1>3

\* A rename moves the directory, or fails and lets go of the lock.
LEMMA RenameMovesFacts ==
  ASSUME StoreTypeOK, RenameMoves
  PROVE  /\ task[Renamer].pc = "moving"
         /\ task'[Renamer].inode = task[Renamer].inode
         /\ task'[Renamer].names = task[Renamer].names
         /\ \A q \in Savers : task'[q] = task[q]
         /\ \/ /\ at["old"] # 0 /\ at["new"] = 0 /\ at'["new"] = at["old"] /\ at'["old"] = 0
               /\ strained' = (strained \/ UnderWay("old"))
               /\ task'[Renamer].pc = "sealing" /\ lock' = lock
            \/ /\ task'[Renamer].pc = "failed" /\ lock' = Released(Renamer) /\ at' = at
               /\ strained' = strained
<1>1. task[Renamer] \in Tasks /\ task \in [Owners -> Tasks] /\ Renamer \in Owners
  BY StoreTypes, StoreIds
<1>3. \E pc \in {"sealing", "failed"} : Moves(Renamer, pc)
  BY DEF RenameMoves
<1>4. /\ task'[Renamer].inode = task[Renamer].inode /\ task'[Renamer].names = task[Renamer].names
      /\ \A q \in Savers : task'[q] = task[q]
  BY <1>1, <1>3, MovesTask, StoreIds DEF TaskStates
<1>5. \A pc \in {"sealing", "failed"} : Moves(Renamer, pc) => task'[Renamer].pc = pc
  BY <1>1, MovesTask DEF TaskStates
<1>6. at' = [at EXCEPT !["new"] = at["old"], !["old"] = 0] => at'["new"] = at["old"] /\ at'["old"] = 0
  BY StoreTypes DEF Handles
<1> QED
  BY <1>4, <1>5, <1>6 DEF RenameMoves

\* A rename seals what it read under the new handle.
LEMMA RenameSealsFacts ==
  ASSUME StoreTypeOK, RenameSeals
  PROVE  /\ task[Renamer].pc = "sealing" /\ task'[Renamer].pc \in {"done", "failed"}
         /\ \A q \in Savers : task'[q] = task[q]
         /\ lock' = Released(Renamer)
         /\ \/ /\ at["new"] # 0 /\ at' = at /\ strained' = strained
               /\ task'[Renamer].pc = "done"
               /\ dir' = [dir EXCEPT ![at["new"]] = [key |-> "both", sealed |-> TRUE,
                             handle |-> "new", names |-> task[Renamer].names]]
               /\ told'["new"] = told["new"] \union told["old"] /\ told'["old"] = {}
            \/ /\ dir' = dir /\ told' = told /\ task'[Renamer].pc = "failed"
               /\ MovesBack
<1>1. task[Renamer] \in Tasks /\ task \in [Owners -> Tasks] /\ Renamer \in Owners
      /\ told \in [Handles -> SUBSET CredentialNames]
  BY StoreTypes, StoreIds
<1>3. \E pc \in {"done", "failed"} : Moves(Renamer, pc)
  BY DEF RenameSeals
<1>4. /\ task'[Renamer].pc \in {"done", "failed"}
      /\ \A q \in Savers : task'[q] = task[q]
  BY <1>1, <1>3, MovesTask, StoreIds DEF TaskStates
<1>5. \A pc \in {"done", "failed"} : Moves(Renamer, pc) => task'[Renamer].pc = pc
  BY <1>1, MovesTask DEF TaskStates
<1>6. told' = [told EXCEPT !["new"] = @ \union told["old"], !["old"] = {}]
        => told'["new"] = told["new"] \union told["old"] /\ told'["old"] = {}
  BY <1>1 DEF Handles
<1> QED
  BY <1>4, <1>5, <1>6 DEF RenameSeals

\* A rename that fails to seal moves the directory back and seals it as it was.
LEMMA RollsBackFacts ==
  ASSUME StoreTypeOK, RenameRollsBack
  PROVE  /\ task[Renamer].pc = "sealing" /\ task'[Renamer].pc = "failed"
         /\ \A q \in Savers : task'[q] = task[q]
         /\ lock' = Released(Renamer) /\ told' = told
         /\ MovesBack
         /\ \/ dir' = dir
            \/ /\ at["new"] # 0
               /\ dir' = [dir EXCEPT ![at["new"]] = [key |-> "both", sealed |-> TRUE,
                             handle |-> "old", names |-> task[Renamer].names]]
<1>1. task[Renamer] \in Tasks /\ task \in [Owners -> Tasks] /\ Renamer \in Owners
  BY StoreTypes, StoreIds
<1>3. Moves(Renamer, "failed")
  BY DEF RenameRollsBack
<1>4. /\ task'[Renamer].pc = "failed"
      /\ \A q \in Savers : task'[q] = task[q]
  BY <1>1, <1>3, MovesTask, StoreIds DEF TaskStates
<1> QED
  BY <1>4 DEF RenameRollsBack

\* A rename that dies lets go of the lock.
LEMMA RenameDiesFacts ==
  ASSUME StoreTypeOK, RenameDies
  PROVE  /\ task'[Renamer].pc = "failed"
         /\ \A q \in Savers : task'[q] = task[q]
         /\ lock' = Released(Renamer)
BY StoreTypes, StoreIds, MovesTask DEF RenameDies, TaskStates

\* Every step keeps the locks sound.
LEMMA LocksStep ==
  ASSUME StoreInv, [StoreNext]_storeVars
  PROVE  LocksSound'
<1>0. /\ StoreTypeOK /\ LocksSound /\ task' \in [Owners -> Tasks] /\ at \in [Handles -> 0 .. MaxDirs]
      /\ made \in 0 .. MaxDirs
      /\ (\A q \in Owners, d \in Dirs : lock[d] = q <=> Locks(q) /\ task[q].inode = d)
  BY StoreTypeStep, StoreTypes DEF StoreInv, StoreTypeOK, Tasks, TaskStates, LocksSound
<1>i. \A q \in Owners : task[q].inode \in 0 .. MaxDirs
  BY <1>0, StoreTypes DEF Tasks
<1>n. \A p \in Savers : p # Renamer /\ p \in Owners
  BY StoreIds
<1>a. ASSUME NEW p \in Savers, \A q \in Owners \ {p} : task'[q] = task[q],
             task'[p].pc \in SaverStates,
             task'[p].pc \in {"waiting"} \union InStore => task'[p].inode # 0,
             \/ /\ lock' = lock /\ (task'[p].pc \in InStore <=> task[p].pc \in InStore)
                /\ task'[p].inode = task[p].inode \/ task[p].pc \notin InStore
             \/ lock' = Released(p) /\ task'[p].pc \notin InStore
             \/ /\ task[p].inode \in Dirs /\ lock[task[p].inode] = NoOne
                /\ lock' = [lock EXCEPT ![task[p].inode] = p]
                /\ task'[p].pc \in InStore /\ task[p].pc \notin InStore
                /\ task'[p].inode = task[p].inode
      PROVE  LocksSound'
  <2>1. (Locks(p) <=> task[p].pc \in InStore) /\ (Locks(p)' <=> task'[p].pc \in InStore)
    BY <1>n DEF Locks
  <2>2. (\A q \in Owners, d \in Dirs : lock[d] = q <=> Locks(q) /\ task[q].inode = d)'
    BY <1>0, <1>a, <1>n, <2>1, LocksKept
  <2>3. \A q \in Savers : /\ task'[q].pc \in SaverStates
                          /\ task'[q].pc \in {"waiting"} \union InStore => task'[q].inode # 0
    BY <1>0, <1>a, <1>n DEF LocksSound
  <2>4. task'[Renamer].pc \in RenamerStates
    BY <1>0, <1>a, <1>n, StoreIds DEF LocksSound
  <2> QED
    BY <2>2, <2>3, <2>4 DEF LocksSound
<1>b. ASSUME \A q \in Savers : task'[q] = task[q],
             task'[Renamer].pc \in RenamerStates,
             \/ /\ lock' = lock /\ (task'[Renamer].pc \in InMove <=> task[Renamer].pc \in InMove)
                /\ task'[Renamer].inode = task[Renamer].inode \/ task[Renamer].pc \notin InMove
             \/ lock' = Released(Renamer) /\ task'[Renamer].pc \notin InMove
             \/ /\ task[Renamer].inode \in Dirs /\ lock[task[Renamer].inode] = NoOne
                /\ lock' = [lock EXCEPT ![task[Renamer].inode] = Renamer]
                /\ task'[Renamer].pc \in InMove /\ task[Renamer].pc \notin InMove
                /\ task'[Renamer].inode = task[Renamer].inode
      PROVE  LocksSound'
  <2>1. (Locks(Renamer) <=> task[Renamer].pc \in InMove) /\ (Locks(Renamer)' <=> task'[Renamer].pc \in InMove)
    BY DEF Locks
  <2>2. \A q \in Owners \ {Renamer} : task'[q] = task[q]
    BY <1>b DEF Owners
  <2>3. (\A q \in Owners, d \in Dirs : lock[d] = q <=> Locks(q) /\ task[q].inode = d)'
    BY <1>0, <1>b, <2>1, <2>2, LocksKept, StoreIds
  <2>4. \A q \in Savers : /\ task'[q].pc \in SaverStates
                          /\ task'[q].pc \in {"waiting"} \union InStore => task'[q].inode # 0
    BY <1>0, <1>b DEF LocksSound
  <2> QED
    BY <1>b, <2>3, <2>4 DEF LocksSound
<1>d. \A p \in Owners : task[p].inode # 0 => task[p].inode \in Dirs
  BY <1>i, StoreAssumption DEF Dirs
<1>1. ASSUME NEW p \in Savers, SaveBegins(p) PROVE LocksSound'
  BY <1>0, <1>1, <1>a, BeginsFacts DEF SaveBegins, SaverStates, InStore
<1>2. ASSUME NEW p \in Savers, SaveOpens(p) PROVE LocksSound'
  <2>1. Made(task[p].path) # 0
    BY <1>0, <1>2, OpensFacts, StoreIds DEF SaveOpens, MakesDir
  <2> QED
    BY <1>0, <1>2, <1>a, <2>1, OpensFacts DEF SaveOpens, SaverStates, InStore
<1>3. ASSUME NEW p \in Savers, SaveReads(p) PROVE LocksSound'
  <2>1. task[p].inode \in Dirs /\ task[p].inode # 0
    BY <1>0, <1>3, <1>d, <1>n, ReadsFacts DEF LocksSound
  <2> QED
    BY <1>0, <1>3, <1>a, <2>1, ReadsFacts DEF SaverStates, InStore
<1>4. ASSUME NEW p \in Savers, SaveFindsKeys(p) PROVE LocksSound'
  <2>1. task[p].inode # 0
    BY <1>0, <1>4, FindsKeysFacts DEF LocksSound, InStore
  <2> QED
    BY <1>0, <1>4, <1>a, <2>1, FindsKeysFacts DEF SaverStates, InStore
<1>5. ASSUME NEW p \in Savers, SaveWritesPublicKey(p) PROVE LocksSound'
  <2>1. task[p].inode # 0
    BY <1>0, <1>5, WritesKeyFacts DEF LocksSound, InStore
  <2> QED
    BY <1>0, <1>5, <1>a, <2>1, WritesKeyFacts DEF SaverStates, InStore
<1>6. ASSUME NEW p \in Savers, SaveWrites(p) PROVE LocksSound'
  BY <1>0, <1>6, <1>a, WritesFacts DEF SaverStates, InStore
<1>7. ASSUME NEW p \in Savers, SaveDies(p) PROVE LocksSound'
  BY <1>0, <1>7, <1>a, SaveDiesFacts DEF SaverStates, InStore
<1>8. ASSUME task' = task, lock' = lock PROVE LocksSound'
  BY <1>0, <1>8 DEF LocksSound, Locks
<1>9. CASE RenameStarts
  BY <1>0, <1>9, <1>b, RenameStartsFacts DEF RenameStarts, RenamerStates, InMove
<1>10. CASE RenameChecks
  BY <1>0, <1>10, <1>b, RenameChecksFacts DEF RenameChecks, RenamerStates, InMove
<1>11. CASE RenameReads
  <2>1. task[Renamer].inode \in Dirs
    BY <1>0, <1>11, <1>d, RenameReadsFacts, StoreIds DEF StoreInv, RenameSound
  <2> QED
    BY <1>0, <1>11, <1>b, <2>1, RenameReadsFacts DEF RenamerStates, InMove
<1>12. CASE RenameMoves
  BY <1>0, <1>12, <1>b, RenameMovesFacts DEF RenamerStates, InMove
<1>13. CASE RenameSeals
  BY <1>0, <1>13, <1>b, RenameSealsFacts DEF RenamerStates, InMove
<1>14. CASE RenameRollsBack
  BY <1>0, <1>14, <1>b, RollsBackFacts DEF RenamerStates, InMove
<1>15. CASE RenameDies
  BY <1>0, <1>15, <1>b, RenameDiesFacts DEF RenamerStates, InMove
<1> QED
  BY <1>1, <1>2, <1>3, <1>4, <1>5, <1>6, <1>7, <1>8, <1>9, <1>10, <1>11, <1>12, <1>13, <1>14,
     <1>15 DEF StoreNext, SaveStep, RenameStep, RemoveSecret, Retire, SendTransfer, storeVars

\* Every step keeps the directories apart.
LEMMA DirsStep ==
  ASSUME StoreInv, [StoreNext]_storeVars
  PROVE  DirsSound'
<1>0. /\ StoreTypeOK /\ DirsSound /\ at \in [Handles -> 0 .. MaxDirs] /\ made \in 0 .. MaxDirs
      /\ dir \in [Dirs -> DirRecords]
      /\ \A p \in Savers : task[p].path \in Handles
  BY StoreTypes, StoreIds DEF StoreInv, Tasks
<1>a. ASSUME at' = at, made' = made, NEW d \in 0 .. MaxDirs, NEW r,
             dir' = dir \/ (d \in Dirs /\ d <= made /\ dir' = [dir EXCEPT ![d] = r])
      PROVE  DirsSound'
  <2>1. \A e \in Dirs : e > made => dir'[e] = Blank
    <3> SUFFICES ASSUME NEW e \in Dirs, e > made PROVE dir'[e] = Blank
      OBVIOUS
    <3>1. dir[e] = Blank /\ (d <= made => e # d)
      BY <1>0 DEF DirsSound, Dirs
    <3> QED
      BY <1>0, <1>a, <3>1
  <2> QED
    BY <1>0, <1>a, <2>1 DEF DirsSound
<1>u. ASSUME at' = at, made' = made, dir' = dir PROVE DirsSound'
  BY <1>0, <1>u DEF DirsSound
<1>b. ASSUME NEW path \in Handles, MakesDir(path)
      PROVE  /\ at'["old"] # 0 => at'["old"] # at'["new"]
             /\ \A q \in Handles : at'[q] <= made'
             /\ made' >= made /\ made' \in 0 .. MaxDirs /\ Made(path) \in Dirs /\ Made(path) <= made'
  BY <1>0, <1>b, MakesDirTypes, StoreAssumption DEF DirsSound, Handles, Dirs
<1>m. \A path \in Handles : at[path] <= made /\ (at[path] # 0 => at[path] \in Dirs)
  BY <1>0, StoreAssumption DEF DirsSound, Dirs
<1>2. ASSUME NEW p \in Savers, SaveOpens(p) PROVE DirsSound'
  <2>1. MakesDir(task[p].path) /\ dir' = dir
    BY <1>2 DEF SaveOpens
  <2> QED
    BY <1>0, <1>b, <2>1 DEF DirsSound, Dirs
<1>4. ASSUME NEW p \in Savers, SaveFindsKeys(p) PROVE DirsSound'
  <2> DEFINE m == Made(task[p].path)
  <2>1. /\ MakesDir(task[p].path)
        /\ \E r : dir' = dir \/ dir' = [dir EXCEPT ![m] = r]
    BY <1>0, <1>4 DEF SaveFindsKeys
  <2>2. /\ at'["old"] # 0 => at'["old"] # at'["new"]
        /\ \A q \in Handles : at'[q] <= made'
        /\ made' >= made /\ made' \in 0 .. MaxDirs /\ m \in Dirs /\ m <= made'
    BY <1>0, <1>b, <2>1
  <2> HIDE DEF m
  <2>3. \A d \in Dirs : d > made' => dir'[d] = Blank
    <3> SUFFICES ASSUME NEW d \in Dirs, d > made' PROVE dir'[d] = Blank
      OBVIOUS
    <3>1. d # m /\ d > made
      BY <1>0, <2>2 DEF Dirs
    <3> QED
      BY <1>0, <2>1, <3>1 DEF DirsSound
  <2> QED
    BY <2>2, <2>3 DEF DirsSound
<1>5. ASSUME NEW p \in Savers, SaveWritesPublicKey(p) PROVE DirsSound'
  BY <1>0, <1>5, <1>a, <1>m, WritesKeyFacts DEF SaveWritesPublicKey
<1>6. ASSUME NEW p \in Savers, SaveWrites(p) PROVE DirsSound'
  <2>1. at' = at /\ made' = made /\ at[task[p].path] \in 0 .. MaxDirs
    BY <1>0, <1>6 DEF SaveWrites
  <2>2. CASE dir' = dir
    BY <1>u, <2>1, <2>2
  <2>3. ASSUME NEW r, at[task[p].path] # 0, dir' = [dir EXCEPT ![at[task[p].path]] = r]
        PROVE  DirsSound'
    BY <1>0, <1>a, <1>m, <2>1, <2>3
  <2>4. dir' = dir \/ \E r : at[task[p].path] # 0 /\ dir' = [dir EXCEPT ![at[task[p].path]] = r]
    BY <1>6 DEF SaveWrites
  <2> QED
    BY <2>2, <2>3, <2>4
<1>8. ASSUME NEW n \in CredentialNames, RemoveSecret(n) PROVE DirsSound'
  <2>1. handle \in Handles
    BY <1>8 DEF RemoveSecret
  <2> QED
    BY <1>0, <1>8, <1>a, <1>m, <2>1, RemovesFacts DEF RemoveSecret
<1>12. CASE RenameMoves
  <2>1. made' = made /\ dir' = dir
    BY <1>12 DEF RenameMoves
  <2>2. CASE at' = at
    BY <1>u, <2>1, <2>2
  <2>3. CASE at'["new"] = at["old"] /\ at'["old"] = 0
    BY <1>0, <1>m, <2>1, <2>3 DEF DirsSound, Handles
  <2> QED
    BY <1>0, <1>12, <2>2, <2>3, RenameMovesFacts
<1>v. ASSUME MovesBack, made' = made,
             dir' = dir \/ (\E r : at["new"] # 0 /\ dir' = [dir EXCEPT ![at["new"]] = r])
      PROVE  DirsSound'
  <2>1. \A d \in Dirs : d > made => dir'[d] = Blank
    <3>1. CASE dir' = dir
      BY <1>0, <1>v, <3>1 DEF DirsSound
    <3>2. ASSUME NEW x, at["new"] # 0, dir' = [dir EXCEPT ![at["new"]] = x],
                 NEW d \in Dirs, d > made
          PROVE  dir'[d] = Blank
      <4>1. d # at["new"] /\ dir[d] = Blank
        BY <1>0, <1>m, <3>2 DEF DirsSound, Dirs, Handles
      <4> QED
        BY <1>0, <3>2, <4>1
    <3> QED
      BY <1>v, <3>1, <3>2
  <2>2. CASE at' = at
    BY <1>0, <1>v, <2>1, <2>2 DEF DirsSound
  <2>3. CASE at["old"] = 0 /\ at'["old"] = at["new"] /\ at'["new"] = 0
    BY <1>0, <1>m, <1>v, <2>1, <2>3 DEF DirsSound, Handles
  <2> QED
    BY <1>0, <1>v, <2>2, <2>3, MovesBackFacts
<1>13. CASE RenameSeals
  <2>1. made' = made
    BY <1>13 DEF RenameSeals
  <2>2. CASE MovesBack /\ dir' = dir
    BY <1>v, <2>1, <2>2
  <2>3. ASSUME NEW r, at' = at, at["new"] # 0, dir' = [dir EXCEPT ![at["new"]] = r]
        PROVE  DirsSound'
    BY <1>0, <1>a, <1>m, <2>1, <2>3 DEF Handles
  <2> QED
    BY <1>0, <1>13, <2>2, <2>3, RenameSealsFacts
<1>14. CASE RenameRollsBack
  <2>1. made' = made /\ MovesBack
        /\ (dir' = dir \/ (\E r : at["new"] # 0 /\ dir' = [dir EXCEPT ![at["new"]] = r]))
    BY <1>0, <1>14, RollsBackFacts DEF RenameRollsBack
  <2> QED
    BY <1>v, <2>1
<1>16. CASE Retire
  BY <1>0, <1>16 DEF Retire, DirsSound, Handles
<1> QED
  BY <1>u, <1>2, <1>4, <1>5, <1>6, <1>8, <1>12, <1>13, <1>14, <1>16
     DEF StoreNext, SaveStep, RenameStep, SaveBegins, SaveReads, SaveDies, RenameStarts,
         RenameChecks, RenameReads, RenameDies, SendTransfer, storeVars

\* A directory that is there stays where it is when another is made.
LEMMA MakesDirKeeps ==
  ASSUME StoreTypeOK, NEW path \in Handles, MakesDir(path)
  PROVE  \A q \in Handles : at[q] # 0 => at'[q] = at[q]
BY StoreTypes, MakesDirTypes

\* Every step leaves a rename where it was.
LEMMA RenameSoundStep ==
  ASSUME StoreInv, [StoreNext]_storeVars
  PROVE  RenameSound'
<1>0. StoreTypeOK /\ RenameSound /\ LocksSound
  BY DEF StoreInv
<1>n. Renamer \notin Savers /\ Renamer \in Owners
  BY StoreIds
<1>h. "old" \in Handles /\ "new" \in Handles
  BY DEF Handles
<1>a. ASSUME task'[Renamer] = task[Renamer], handle' = handle,
             \A q \in Handles : at[q] # 0 => at'[q] = at[q]
      PROVE  RenameSound'
  BY <1>0, <1>a, <1>h DEF RenameSound
<1>b. ASSUME task'[Renamer].pc \in {"done", "failed"}
      PROVE  RenameSound'
  BY <1>b DEF RenameSound, InMove
<1>1. ASSUME NEW p \in Savers, SaveBegins(p) PROVE RenameSound'
  BY <1>0, <1>1, <1>a, <1>n, BeginsFacts DEF SaveBegins
<1>2. ASSUME NEW p \in Savers, SaveOpens(p) PROVE RenameSound'
  <2>1. \A q \in Handles : at[q] # 0 => at'[q] = at[q]
    BY <1>0, <1>2, OpensFacts, MakesDirKeeps DEF SaveOpens
  <2> QED
    BY <1>0, <1>2, <1>a, <1>n, <2>1, OpensFacts DEF SaveOpens
<1>3. ASSUME NEW p \in Savers, SaveReads(p) PROVE RenameSound'
  BY <1>0, <1>3, <1>a, <1>n, ReadsFacts DEF SaveReads
<1>4. ASSUME NEW p \in Savers, SaveFindsKeys(p) PROVE RenameSound'
  <2>1. \A q \in Handles : at[q] # 0 => at'[q] = at[q]
    BY <1>0, <1>4, FindsKeysFacts, MakesDirKeeps
  <2> QED
    BY <1>0, <1>4, <1>a, <1>n, <2>1, FindsKeysFacts DEF SaveFindsKeys
<1>5. ASSUME NEW p \in Savers, SaveWritesPublicKey(p) PROVE RenameSound'
  BY <1>0, <1>5, <1>a, <1>n, WritesKeyFacts DEF SaveWritesPublicKey
<1>6. ASSUME NEW p \in Savers, SaveWrites(p) PROVE RenameSound'
  <2>1. at' = at /\ handle' = handle
    BY <1>6 DEF SaveWrites
  <2>2. task'[Renamer] = task[Renamer]
    BY <1>0, <1>6, <1>n, WritesFacts
  <2> QED
    BY <1>a, <2>1, <2>2
<1>7. ASSUME NEW p \in Savers, SaveDies(p) PROVE RenameSound'
  BY <1>0, <1>7, <1>a, <1>n, SaveDiesFacts DEF SaveDies
<1>8. ASSUME at' = at, handle' = handle, task' = task PROVE RenameSound'
  BY <1>8, <1>a
<1>9. CASE RenameStarts
  BY <1>0, <1>9, RenameStartsFacts DEF RenameStarts, RenameSound, InMove
<1>10. CASE RenameChecks
  BY <1>0, <1>10, RenameChecksFacts DEF RenameChecks, RenameSound, InMove
<1>11. CASE RenameReads
  BY <1>0, <1>11, RenameReadsFacts DEF RenameReads, RenameSound, InMove
<1>12. CASE RenameMoves
  BY <1>0, <1>12, RenameMovesFacts DEF RenameMoves, RenameSound, InMove
<1>13. CASE RenameSeals
  BY <1>0, <1>13, <1>b, RenameSealsFacts
<1>14. CASE RenameRollsBack
  BY <1>0, <1>14, <1>b, RollsBackFacts
<1>15. CASE RenameDies
  BY <1>0, <1>15, <1>b, RenameDiesFacts
<1>16. CASE Retire
  BY <1>16 DEF Retire, RenameSound, InMove
<1> QED
  BY <1>1, <1>2, <1>3, <1>4, <1>5, <1>6, <1>7, <1>8, <1>9, <1>10, <1>11, <1>12, <1>13, <1>14,
     <1>15, <1>16 DEF StoreNext, SaveStep, RenameStep, RemoveSecret, SendTransfer, storeVars

\* Two processes never hold the lock of one directory.
LEMMA LocksExclude ==
  ASSUME StoreTypeOK, LocksSound, NEW p \in Owners, NEW q \in Owners, p # q, Locks(p),
         task[p].inode # 0,
         Locks(q) \/ lock[task[p].inode] = NoOne
  PROVE  task[p].inode \in Dirs /\ lock[task[p].inode] = p /\ task[p].inode # task[q].inode
<1>1. task[p].inode \in Dirs
  BY StoreTypes, StoreAssumption DEF Tasks, Dirs
<1>2. \A o \in Owners, d \in Dirs : lock[d] = o <=> Locks(o) /\ task[o].inode = d
  BY DEF LocksSound
<1>3. lock[task[p].inode] = p
  BY <1>1, <1>2
<1>4. lock[task[p].inode] # NoOne
  BY <1>3, StoreIds
<1>5. task[q].inode = task[p].inode => lock[task[p].inode] = q
  BY <1>1, <1>2, <1>4
<1> QED
  BY <1>1, <1>3, <1>5

\* A path that leads to the same directory with the same record holds the same.
LEMMA SameStore ==
  ASSUME NEW path \in Handles, at'[path] = at[path],
         at[path] # 0 => dir'[at[path]] = dir[at[path]]
  PROVE  /\ Contents(path)' = Contents(path)
         /\ Readable(at[path], path)' <=> Readable(at[path], path)
BY DEF Contents, Readable

Calm == SavesSound /\ CarriesSound /\ ReadableThere

\* While no save is strained, every step of a save and every removal keeps what
\* was reported where it can be read.
LEMMA SavesStep ==
  ASSUME StoreInv, ~strained, ~strained', StoreTypeOK', LocksSound', RenameSound',
         NEW p \in Savers, SaveBegins(p) \/ SaveStep(p) \/ SaveDies(p)
  PROVE  Calm'
<1>0. /\ StoreTypeOK /\ LocksSound /\ DirsSound /\ RenameSound
      /\ SavesSound /\ CarriesSound /\ ReadableThere
      /\ dir \in [Dirs -> DirRecords] /\ at \in [Handles -> 0 .. MaxDirs]
      /\ \A q \in Owners : task[q].path \in Handles
  BY StoreTypes DEF StoreInv, Tasks
<1>n. Renamer \notin Savers /\ Renamer \in Owners /\ p \in Owners /\ Savers \subseteq Owners
  BY StoreIds
<1>h. "old" \in Handles /\ "new" \in Handles /\ \A path \in Handles : path \in {"old", "new"}
  BY DEF Handles
<1>d. \A path \in Handles : at[path] # 0 => at[path] \in Dirs
  BY <1>0, StoreAssumption DEF Dirs
<1>r. task[Renamer].pc # "sealing" =>
        \A path \in Handles : \A n \in told[path] : n \in Contents(path) /\ Readable(at[path], path)
  BY <1>0 DEF ReadableThere
<1>p. PICK path0 \in Handles : path0 = task[p].path
  BY <1>0, <1>n
<1>q. PICK d : d = task[p].inode
  OBVIOUS
\* A step of p that leaves the stores alone, but may make a directory.
<1>a. ASSUME \A q \in Owners \ {p} : task'[q] = task[q],
             \/ /\ task'[p].path = task[p].path
                /\ task[p].pc \in {"chosen", "waiting", "keys", "half", "writing"}
             \/ task'[p].pc \in {"done", "failed"}
             \/ task'[p].pc = "chosen" /\ task'[p].path = handle,
             \/ task'[p].pc \in {"chosen", "done", "failed"}
             \/ task'[p].pc = "waiting" /\ task'[p].path = path0 /\ at'[path0] = task'[p].inode
             \/ /\ task'[p].pc \in InStore /\ task'[p].path = path0 /\ at'[path0] = task'[p].inode
                /\ task'[p].names = Contents(path0)' \union {NameOf[p]}
                /\ task'[p].pc = "writing" => dir'[task'[p].inode].key = "both",
             \A path \in Handles : at[path] # 0 => at'[path] = at[path],
             told' = told,
             \A path \in Handles : at[path] # 0 =>
                /\ Contents(path)' = Contents(path)
                /\ Contents(path) # {} => (Readable(at[path], path) => Readable(at[path], path)'),
             \A e \in Dirs : dir[e].key = "both" => dir'[e].key = "both",
             \A e \in Dirs : dir'[e].handle = dir[e].handle,
             at["old"] = 0 => (task[p].path = "old" /\ UnderWay("old")) \/ at'["old"] = 0
      PROVE  Calm'
  <2>1. SavesSound'
    <3> SUFFICES ASSUME NEW q \in Savers,
                        NEW path \in Handles, task'[q].path = path
                 PROVE  /\ task'[q].pc \in {"waiting"} \union InStore => at'[path] = task'[q].inode
                        /\ task'[q].pc \in InStore =>
                             task'[q].names = Contents(path)' \union {NameOf[q]}
                        /\ task'[q].pc = "writing" => dir'[task'[q].inode].key = "both"
      BY DEF SavesSound
    <3>1. CASE q = p
      BY <1>a, <3>1 DEF InStore
    <3>2. CASE q # p /\ task[q].pc \in {"waiting"} \union InStore
      <4>1. task'[q] = task[q] /\ task[q].inode # 0 /\ at[path] = task[q].inode
            /\ task[q].path = path
        BY <1>0, <1>a, <1>n, <3>2 DEF SavesSound, LocksSound
      <4>2. at'[path] = at[path] /\ task[q].inode \in Dirs
            /\ Contents(path)' = Contents(path)
        BY <1>a, <1>d, <4>1
      <4>3. /\ task[q].pc \in InStore => task[q].names = Contents(path) \union {NameOf[q]}
            /\ task[q].pc = "writing" => dir[task[q].inode].key = "both"
        BY <1>0, <4>1 DEF SavesSound
      <4> QED
        BY <1>a, <4>1, <4>2, <4>3
    <3>3. CASE q # p /\ task[q].pc \notin {"waiting"} \union InStore
      BY <1>a, <1>n, <3>3 DEF InStore
    <3> QED
      BY <3>1, <3>2, <3>3
  <2> DEFINE r == task[Renamer]
  <2>r. task'[Renamer] = r /\ told' = told
    BY <1>a, <1>n
  <2>2. r.pc = "moving" => r.names = Contents("old")'
    BY <1>0, <1>a, <1>h DEF CarriesSound, RenameSound
  <2>3. r.pc \in InMove /\ r.names # {} => dir'[r.inode].key = "both"
    <3> SUFFICES ASSUME r.pc \in InMove, r.names # {} PROVE dir'[r.inode].key = "both"
      OBVIOUS
    <3>1. dir[r.inode].key = "both" /\ r.inode \in Dirs
      BY <1>0, <1>d, <1>h DEF CarriesSound, RenameSound, InMove
    <3> QED
      BY <1>a, <3>1
  <2>4. r.pc = "sealing" => Carried(r.names)' /\ at'["old"] = 0 /\ ~UnderWay("old")'
    <3> SUFFICES ASSUME r.pc = "sealing"
                 PROVE  Carried(r.names)' /\ at'["old"] = 0 /\ ~UnderWay("old")'
      OBVIOUS
    <3>1. Carried(r.names) /\ at["old"] = 0 /\ ~UnderWay("old") /\ handle = "new" /\ at["new"] # 0
      BY <1>0 DEF CarriesSound, RenameSound, InMove
    <3>4. Carried(r.names)'
      <4>1. at'["new"] = at["new"] /\ at["new"] \in Dirs /\ Contents("new")' = Contents("new")
        BY <1>a, <1>d, <1>h, <3>1
      <4> QED
        BY <1>a, <2>r, <3>1, <4>1 DEF Carried
    <3>2. at'["old"] = 0
      BY <1>a, <3>1
    <3>3. ~UnderWay("old")'
      <4> SUFFICES ASSUME NEW q \in Savers, task'[q].path = "old",
                          task'[q].pc \in {"chosen", "waiting", "keys", "half", "writing"}
                   PROVE  FALSE
        BY DEF UnderWay
      <4>1. CASE q # p
        BY <1>a, <1>n, <3>1, <4>1 DEF UnderWay
      <4>2. CASE q = p
        BY <1>a, <3>1, <4>2 DEF UnderWay
      <4> QED
        BY <4>1, <4>2
    <3> QED
      BY <3>2, <3>3, <3>4
  <2>5. CarriesSound'
    BY <2>r, <2>2, <2>3, <2>4 DEF CarriesSound
  <2>6. ReadableThere'
    <3> SUFFICES ASSUME r.pc # "sealing", NEW path \in Handles, NEW n \in told[path]
                 PROVE  n \in Contents(path)' /\ Readable(at[path], path)'
      BY <2>r DEF ReadableThere
    <3>1. n \in Contents(path) /\ Readable(at[path], path)
      BY <1>r
    <3>2. at[path] # 0
      BY <3>1 DEF Contents
    <3> QED
      BY <1>a, <3>1, <3>2
  <2> QED
    BY <2>1, <2>5, <2>6 DEF Calm
<1>u. ASSUME at' = at, dir' = dir
      PROVE  /\ \A path \in Handles : at[path] # 0 => at'[path] = at[path]
             /\ \A path \in Handles : /\ Contents(path)' = Contents(path)
                                      /\ Readable(at[path], path) => Readable(at[path], path)'
             /\ \A e \in Dirs : dir[e].key = "both" => dir'[e].key = "both"
             /\ \A e \in Dirs : dir'[e].handle = dir[e].handle
             /\ at["old"] = 0 => at'["old"] = 0
  BY <1>u, SameStore
<1>1. CASE SaveBegins(p)
  <2>1. at' = at /\ dir' = dir /\ told' = told
    BY <1>1 DEF SaveBegins
  <2> QED
    BY <1>0, <1>p, <1>q, <1>1, <1>a, <1>u, <2>1, BeginsFacts
<1>w. ASSUME task[p].pc \in {"waiting"} \union InStore
      PROVE  /\ at[task[p].path] = task[p].inode /\ task[p].inode \in Dirs /\ task[p].inode # 0
             /\ task[p].path \in Handles
  BY <1>0, <1>p, <1>q, <1>d, <1>n, <1>w DEF SavesSound, LocksSound
<1>2. CASE SaveOpens(p)
  <2>0. /\ MakesDir(task[p].path) /\ dir' = dir /\ told' = told
        /\ task[p].path \in Handles
    BY <1>0, <1>p, <1>q, <1>n, <1>2 DEF SaveOpens
  <2>1. \A q \in Handles : at[q] # 0 => at'[q] = at[q]
    BY <1>0, <1>p, <1>q, <2>0, MakesDirKeeps
  <2>2. \A q \in Handles \ {task[p].path} : at'[q] = at[q]
    BY <1>0, <1>p, <1>q, <2>0, StoreTypes, MakesDirTypes
  <2>3. at'[path0] = Made(path0)
    BY <1>0, <1>p, <1>q, <2>0, StoreTypes, MakesDirTypes
  <2>4. \A path \in Handles : at[path] # 0 =>
          /\ Contents(path)' = Contents(path)
          /\ Readable(at[path], path) => Readable(at[path], path)'
    BY <2>0, <2>1, SameStore
  <2>5. task[p].path = "old" => UnderWay("old")
    BY <1>0, <1>p, <1>q, <1>2, OpensFacts DEF UnderWay
  <2>6. at["old"] = 0 => (task[p].path = "old" /\ UnderWay("old")) \/ at'["old"] = 0
    BY <1>h, <2>2, <2>5
  <2> QED
    BY <1>0, <1>p, <1>q, <1>2, <1>a, <2>0, <2>1, <2>3, <2>4, <2>6, OpensFacts
<1>3. CASE SaveReads(p)
  <2>1. at' = at /\ dir' = dir /\ told' = told
    BY <1>3 DEF SaveReads
  <2>2. at[task[p].path] = task[p].inode
    BY <1>0, <1>p, <1>q, <1>3, <1>w, ReadsFacts
  <2>3. Contents(path0)' = Contents(path0)
    BY <1>0, <1>p, <1>q, <1>n, <1>u, <2>1
  <2> QED
    BY <1>0, <1>p, <1>q, <1>3, <1>a, <1>u, <2>1, <2>2, <2>3, ReadsFacts DEF InStore
<1>4. CASE SaveFindsKeys(p)
  <2>0. task[p].pc = "keys" /\ MakesDir(task[p].path) /\ told' = told
    BY <1>4 DEF SaveFindsKeys, MakesDir
  <2>1. /\ at[path0] = d /\ d \in Dirs /\ d # 0 /\ task[p].path \in Handles
        /\ task[p].names = Contents(path0) \union {NameOf[p]}
    BY <1>0, <1>p, <1>q, <1>w, <2>0 DEF InStore, SavesSound
  <2>2. Made(task[p].path) = d /\ at' = at
    BY <1>0, <1>p, <1>q, <2>0, <2>1 DEF MakesDir, Made
  <2>3. CASE dir' = dir
    <3>1. Contents(path0)' = Contents(path0)
      BY <1>u, <2>1, <2>2, <2>3
    <3> QED
      <4>1. /\ \A q \in Owners \ {p} : task'[q] = task[q]
            /\ task'[p].path = path0 /\ task'[p].inode = d /\ task'[p].names = task[p].names
            /\ task'[p].pc \in {"writing", "half", "failed"}
            /\ task'[p].pc = "writing" => dir'[d].key = "both"
        BY <1>0, <1>p, <1>q, <1>4, <2>2, <2>3, FindsKeysFacts
      <4> QED
        BY <1>a, <1>p, <1>q, <1>u, <2>0, <2>1, <2>2, <2>3, <3>1, <4>1 DEF InStore
  <2>4. CASE dir[d].key = "none" /\ dir' = [dir EXCEPT ![d].key = "private"] /\ task'[p].pc = "half"
    <3>1. \A e \in Dirs : /\ e # d => dir'[e] = dir[e]
                          /\ dir'[e].sealed = dir[e].sealed /\ dir'[e].names = dir[e].names
                          /\ dir'[e].handle = dir[e].handle
      <4>1. dir[d] \in DirRecords /\ dir' = [dir EXCEPT ![d] = [dir[d] EXCEPT !.key = "private"]]
        BY <1>0, <1>p, <1>q, <2>1, <2>4
      <4> QED
        BY <1>0, <1>p, <1>q, <2>1, <4>1 DEF DirRecords
    <3>2. \A path \in Handles : Contents(path)' = Contents(path)
      BY <1>d, <2>2, <3>1 DEF Contents
    <3>3. \A path \in Handles : Contents(path) # {} =>
            (Readable(at[path], path) => Readable(at[path], path)')
      <4> SUFFICES ASSUME NEW path \in Handles, Contents(path) # {}, Readable(at[path], path)
                   PROVE  Readable(at[path], path)'
        OBVIOUS
      <4>1. at[path] # 0 /\ dir[at[path]].sealed /\ dir[at[path]].key = "both"
        BY DEF Contents, Readable
      <4>2. dir'[at[path]] = dir[at[path]]
        BY <1>d, <2>4, <3>1, <4>1
      <4> QED
        BY <2>2, <4>2 DEF Readable
    <3>4. \A e \in Dirs : /\ dir[e].key = "both" => dir'[e].key = "both"
                          /\ dir'[e].handle = dir[e].handle
      BY <2>4, <3>1
    <3> QED
      BY <1>0, <1>p, <1>q, <1>4, <1>a, <2>0, <2>1, <2>2, <2>4, <3>2, <3>3, <3>4, FindsKeysFacts DEF InStore
  <2> QED
    BY <1>0, <1>p, <1>q, <1>4, <2>2, <2>3, <2>4, FindsKeysFacts
<1>5. CASE SaveWritesPublicKey(p)
  <2>0. task[p].pc = "half" /\ told' = told /\ at' = at
    BY <1>5 DEF SaveWritesPublicKey
  <2>1. /\ at[path0] = d /\ d \in Dirs /\ d # 0 /\ task[p].path \in Handles
        /\ task[p].names = Contents(path0) \union {NameOf[p]}
    BY <1>0, <1>p, <1>q, <1>w, <2>0 DEF InStore, SavesSound
  <2>3. CASE dir' = dir /\ task'[p].pc = "failed"
    <3>1. Contents(path0)' = Contents(path0)
      BY <1>u, <2>0, <2>1, <2>3
    <3> QED
      BY <1>0, <1>p, <1>q, <1>5, <1>a, <1>u, <2>0, <2>1, <2>3, <3>1, WritesKeyFacts DEF InStore
  <2>4. CASE dir' = [dir EXCEPT ![d].key = "both"] /\ task'[p].pc = "writing"
    <3>1. \A e \in Dirs : /\ e # d => dir'[e] = dir[e]
                          /\ dir'[e].sealed = dir[e].sealed /\ dir'[e].names = dir[e].names
                          /\ dir'[e].handle = dir[e].handle
                          /\ e = d => dir'[e].key = "both"
      <4>1. dir[d] \in DirRecords /\ dir' = [dir EXCEPT ![d] = [dir[d] EXCEPT !.key = "both"]]
        BY <1>0, <1>p, <1>q, <2>1, <2>4
      <4> QED
        BY <1>0, <1>p, <1>q, <2>1, <4>1 DEF DirRecords
    <3>2. \A path \in Handles : Contents(path)' = Contents(path)
      BY <1>d, <2>0, <3>1 DEF Contents
    <3>4. \A e \in Dirs : /\ dir[e].key = "both" => dir'[e].key = "both"
                          /\ dir'[e].handle = dir[e].handle
      BY <2>4, <3>1
    <3>3. \A path \in Handles : Readable(at[path], path) => Readable(at[path], path)'
      BY <1>d, <2>0, <3>1, <3>4 DEF Readable
    <3> QED
      BY <1>0, <1>p, <1>q, <1>5, <1>a, <2>0, <2>1, <2>4, <3>1, <3>2, <3>3, <3>4, WritesKeyFacts DEF InStore
  <2> QED
    BY <1>0, <1>p, <1>q, <1>5, <2>1, <2>3, <2>4, WritesKeyFacts
<1>7. CASE SaveDies(p)
  <2>1. at' = at /\ dir' = dir /\ told' = told
    BY <1>7 DEF SaveDies
  <2>2. task[p].pc \in {"chosen", "waiting", "keys", "half", "writing"}
    BY <1>7 DEF SaveDies
  <2> QED
    BY <1>0, <1>p, <1>q, <1>7, <1>a, <1>u, <2>1, <2>2, SaveDiesFacts
<1>6. CASE SaveWrites(p)
  <2>0. task[p].pc = "writing" /\ at' = at
    BY <1>6 DEF SaveWrites
  <2> DEFINE rec == [key |-> dir[d].key, sealed |-> TRUE, handle |-> path0, names |-> task[p].names]
  <2>1. /\ at[path0] = d /\ d \in Dirs /\ d # 0 /\ path0 = task[p].path
        /\ task[p].names = Contents(path0) \union {NameOf[p]} /\ dir[d].key = "both"
    BY <1>0, <1>p, <1>q, <1>w, <2>0 DEF InStore, SavesSound
  <2>2. /\ dir' = [dir EXCEPT ![d] = rec]
        /\ told'[path0] = told[path0] \union {NameOf[p]}
        /\ \A q \in Handles \ {path0} : told'[q] = told[q]
    BY <1>0, <1>p, <1>6, <2>1, WritesFacts
  <2>3. dir'[d] = rec /\ \A e \in Dirs \ {d} : dir'[e] = dir[e]
    BY <1>0, <1>p, <1>q, <2>1, <2>2
  <2>4. rec.key = "both" /\ rec.sealed = TRUE /\ rec.handle = path0
        /\ rec.names = Contents(path0) \union {NameOf[p]}
    BY <2>1
  <2>5. /\ \A q \in Owners \ {p} : task'[q] = task[q]
        /\ task'[p].pc \in {"done", "failed"}
    BY <1>0, <1>p, <1>q, <1>6, WritesFacts
  <2> HIDE DEF rec
  <2>6. Locks(p) /\ task[p].inode # 0
    BY <1>n, <1>p, <1>q, <2>0, <2>1 DEF Locks, InStore
  <2>7. \A q \in Owners \ {p} : Locks(q) => task[q].inode # d
    BY <1>0, <1>p, <1>q, <1>n, <2>6, LocksExclude
  <2>8. \A q \in Savers \ {p} : task[q].pc \in InStore => Locks(q)
    BY <1>n DEF Locks
  <2>9. SavesSound'
    <3> SUFFICES ASSUME NEW q \in Savers,
                        NEW path \in Handles, task'[q].path = path
                 PROVE  /\ task'[q].pc \in {"waiting"} \union InStore => at'[path] = task'[q].inode
                        /\ task'[q].pc \in InStore =>
                             task'[q].names = Contents(path)' \union {NameOf[q]}
                        /\ task'[q].pc = "writing" => dir'[task'[q].inode].key = "both"
      BY DEF SavesSound
    <3>1. CASE q = p
      BY <2>5, <3>1 DEF InStore
    <3>2. CASE q # p
      <4>1. task'[q] = task[q] /\ q \in Owners /\ task[q].path = path
        BY <1>0, <1>p, <1>q, <1>n, <2>5, <3>2
      <4>2. /\ task[q].pc \in {"waiting"} \union InStore => at[path] = task[q].inode
            /\ task[q].pc \in InStore => task[q].names = Contents(path) \union {NameOf[q]}
            /\ task[q].pc = "writing" => dir[task[q].inode].key = "both"
        BY <1>0, <1>p, <1>q, <4>1 DEF SavesSound
      <4>3. task[q].pc \in InStore => task[q].inode # d /\ task[q].inode \in Dirs
        BY <1>0, <1>p, <1>q, <1>d, <2>7, <2>8, <3>2, <4>1, <4>2 DEF LocksSound
      <4>4. task[q].pc \in InStore => Contents(path)' = Contents(path)
        BY <2>0, <2>3, <4>1, <4>2, <4>3, SameStore
      <4> QED
        BY <2>0, <2>3, <4>1, <4>2, <4>3, <4>4 DEF InStore
    <3> QED
      BY <3>1, <3>2
  <2> DEFINE r == task[Renamer]
  <2>r. task'[Renamer] = r
    BY <1>n, <1>p, <1>q, <2>5
  <2>10. r.pc \in InMove => r.inode # d /\ r.inode \in Dirs
    BY <1>0, <1>p, <1>q, <1>d, <1>h, <1>n, <2>7 DEF Locks, RenameSound, InMove
  <2>11. r.pc # "sealing"
    <3> SUFFICES ASSUME r.pc = "sealing" PROVE FALSE
      OBVIOUS
    <3>1. at["old"] = 0 /\ at["new"] = r.inode
      BY <1>0 DEF CarriesSound, RenameSound
    <3> QED
      BY <1>h, <2>1, <2>10, <3>1 DEF InMove
  <2>12. CarriesSound'
    <3>1. r.pc = "moving" => r.names = Contents("old")'
      <4>1. r.pc = "moving" => at["old"] = r.inode /\ r.names = Contents("old")
        BY <1>0 DEF CarriesSound, RenameSound
      <4> QED
        BY <1>h, <2>0, <2>3, <2>10, <4>1, SameStore DEF InMove
    <3>2. r.pc \in InMove /\ r.names # {} => dir'[r.inode].key = "both"
      BY <1>0, <1>p, <1>q, <2>3, <2>10 DEF CarriesSound
    <3> QED
      BY <2>r, <2>11, <3>1, <3>2 DEF CarriesSound
  <2>13. ReadableThere'
    <3> SUFFICES ASSUME NEW q \in Handles, NEW n \in told'[q]
                 PROVE  n \in Contents(q)' /\ Readable(at[q], q)'
      BY DEF ReadableThere
    <3>1. Contents(path0)' = Contents(path0) \union {NameOf[p]} /\ Readable(at[path0], path0)'
      BY <2>0, <2>1, <2>3, <2>4 DEF Contents, Readable
    <3>2. CASE q = path0
      BY <1>r, <2>2, <2>11, <3>1, <3>2
    <3>3. CASE q # path0
      <4>1. n \in Contents(q) /\ Readable(at[q], q)
        BY <1>r, <2>2, <2>11, <3>3
      <4>2. at[q] # 0
        BY <4>1 DEF Contents
      <4>3. at[q] # d
        BY <1>0, <1>p, <1>q, <1>h, <2>1, <3>3, <4>2 DEF DirsSound
      <4>4. dir'[at[q]] = dir[at[q]] /\ at'[q] = at[q]
        BY <1>d, <2>0, <2>3, <4>2, <4>3
      <4> QED
        BY <4>1, <4>4, SameStore
    <3> QED
      BY <3>2, <3>3
  <2> QED
    BY <2>9, <2>12, <2>13 DEF Calm
<1> QED
  BY <1>1, <1>2, <1>3, <1>4, <1>5, <1>6, <1>7 DEF SaveStep

\* The same for a rename, a removal, the retirement of the Hat and a transfer.
LEMMA CarriesStep ==
  ASSUME StoreInv, ~strained, ~strained', StoreTypeOK', LocksSound', RenameSound',
         \/ \E n \in CredentialNames : RemoveSecret(n)
         \/ RenameStarts \/ RenameStep \/ RenameRollsBack \/ RenameDies
         \/ Retire
         \/ \E names \in SUBSET CredentialNames : SendTransfer(names)
         \/ UNCHANGED storeVars
  PROVE  Calm'
<1>0. /\ StoreTypeOK /\ LocksSound /\ DirsSound /\ RenameSound
      /\ SavesSound /\ CarriesSound /\ ReadableThere
      /\ dir \in [Dirs -> DirRecords] /\ at \in [Handles -> 0 .. MaxDirs]
      /\ \A q \in Owners : task[q].path \in Handles
  BY StoreTypes DEF StoreInv, Tasks
<1>n. Renamer \notin Savers /\ Renamer \in Owners /\ Savers \subseteq Owners
  BY StoreIds
<1>h. "old" \in Handles /\ "new" \in Handles /\ \A path \in Handles : path \in {"old", "new"}
  BY DEF Handles
<1>d. \A path \in Handles : at[path] # 0 => at[path] \in Dirs
  BY <1>0, StoreAssumption DEF Dirs
<1>r. task[Renamer].pc # "sealing" =>
        \A path \in Handles : \A n \in told[path] : n \in Contents(path) /\ Readable(at[path], path)
  BY <1>0 DEF ReadableThere
<1>u. ASSUME at' = at, dir' = dir
      PROVE  \A path \in Handles : /\ Contents(path)' = Contents(path)
                                   /\ Readable(at[path], path) <=> Readable(at[path], path)'
  BY <1>u, SameStore
\* What a save relies on, when its task and the directories stay.
<1>s. ASSUME at' = at, dir' = dir, \A q \in Savers : task'[q] = task[q]
      PROVE  SavesSound' /\ (UnderWay("old")' <=> UnderWay("old"))
  <2>1. SavesSound'
    <3> SUFFICES ASSUME NEW q \in Savers, NEW path \in Handles, task'[q].path = path
                 PROVE  /\ task'[q].pc \in {"waiting"} \union InStore => at'[path] = task'[q].inode
                        /\ task'[q].pc \in InStore =>
                             task'[q].names = Contents(path)' \union {NameOf[q]}
                        /\ task'[q].pc = "writing" => dir'[task'[q].inode].key = "both"
      BY DEF SavesSound
    <3> QED
      BY <1>0, <1>u, <1>s DEF SavesSound
  <2> QED
    BY <1>s, <2>1 DEF UnderWay
\* No save is under way: nothing to rely on.
<1>e. ASSUME ~UnderWay("old"), ~UnderWay("new"), \A q \in Savers : task'[q] = task[q]
      PROVE  SavesSound' /\ ~UnderWay("old")'
  <2>1. \A q \in Savers : task'[q].pc \notin {"waiting"} \union InStore
    BY <1>0, <1>e, <1>h, <1>n DEF UnderWay, InStore
  <2> QED
    BY <1>e, <2>1 DEF SavesSound, UnderWay, InStore
\* A rename that is over, or has not got its lock, carries nothing.
<1>c. ASSUME task'[Renamer].pc \notin InMove PROVE CarriesSound'
  BY <1>c DEF CarriesSound, InMove
<1>k. ASSUME at' = at, dir' = dir, told' = told, task[Renamer].pc # "sealing"
      PROVE  ReadableThere'
  <2> SUFFICES ASSUME NEW path \in Handles, NEW n \in told[path]
               PROVE  n \in Contents(path)' /\ Readable(at[path], path)'
    BY <1>k DEF ReadableThere
  <2> QED
    BY <1>k, <1>u, <1>r
<1>1. ASSUME NEW n \in CredentialNames, RemoveSecret(n) PROVE Calm'
  <2> DEFINE d == at[handle]
             rec == [key |-> dir[d].key, sealed |-> dir[d].sealed,
                     handle |-> dir[d].handle, names |-> dir[d].names \ {n}]
  <2>1. /\ at' = at /\ task' = task /\ handle \in Handles /\ handle' = handle
        /\ told'[handle] = told[handle] \ {n}
        /\ \A q \in Handles \ {handle} : told'[q] = told[q]
        /\ d \in Dirs /\ lock[d] = NoOne
        /\ dir' = [dir EXCEPT ![d] = rec]
    BY <1>0, <1>1, RemovesFacts, StoreTypes DEF RemoveSecret
  <2>2. dir'[d] = rec /\ \A e \in Dirs \ {d} : dir'[e] = dir[e]
    BY <1>0, <2>1
  <2>3. rec.key = dir[d].key /\ rec.sealed = dir[d].sealed /\ rec.handle = dir[d].handle
        /\ rec.names = dir[d].names \ {n}
    OBVIOUS
  <2> HIDE DEF rec
  <2>4. \A q \in Owners : Locks(q) => task[q].inode # d
    BY <1>0, <2>1, StoreIds DEF LocksSound
  <2>5. \A path \in Handles : at[path] # d =>
          /\ Contents(path)' = Contents(path)
          /\ Readable(at[path], path)' <=> Readable(at[path], path)
    BY <1>d, <2>1, <2>2, SameStore
  <2>6. \A e \in Dirs : dir'[e].key = dir[e].key
    BY <2>2, <2>3
  <2>7. SavesSound'
    <3> SUFFICES ASSUME NEW q \in Savers, NEW path \in Handles, task[q].path = path
                 PROVE  /\ task[q].pc \in {"waiting"} \union InStore => at[path] = task[q].inode
                        /\ task[q].pc \in InStore =>
                             task[q].names = Contents(path)' \union {NameOf[q]}
                        /\ task[q].pc = "writing" => dir'[task[q].inode].key = "both"
      BY <2>1 DEF SavesSound
    <3>1. /\ task[q].pc \in {"waiting"} \union InStore => at[path] = task[q].inode
          /\ task[q].pc \in InStore => task[q].names = Contents(path) \union {NameOf[q]}
          /\ task[q].pc = "writing" => dir[task[q].inode].key = "both"
      BY <1>0 DEF SavesSound
    <3>2. task[q].pc \in InStore => Locks(q) /\ task[q].inode # 0
      BY <1>0, <1>n DEF Locks, LocksSound
    <3>3. task[q].pc \in InStore => at[path] # d /\ task[q].inode \in Dirs
      BY <1>d, <1>n, <2>4, <3>1, <3>2
    <3>4. task[q].pc \in InStore => Contents(path)' = Contents(path)
      BY <2>5, <3>3
    <3>5. task[q].pc = "writing" => dir'[task[q].inode].key = "both"
      BY <2>6, <3>1, <3>3 DEF InStore
    <3> QED
      BY <3>1, <3>4, <3>5
  <2>8. CarriesSound'
    <3> DEFINE r == task[Renamer]
    <3>1. r.pc \in InMove => r.inode # d /\ r.inode \in Dirs
      BY <1>0, <1>d, <1>h, <1>n, <2>4 DEF Locks, RenameSound, InMove
    <3>2. r.pc = "moving" => r.names = Contents("old")'
      <4>1. r.pc = "moving" => at["old"] = r.inode /\ r.names = Contents("old")
        BY <1>0 DEF CarriesSound, RenameSound
      <4>2. r.pc = "moving" => at["old"] # d
        BY <3>1, <4>1 DEF InMove
      <4>3. at["old"] # d => Contents("old")' = Contents("old")
        BY <1>h, <2>5
      <4> QED
        BY <4>1, <4>2, <4>3
    <3>3. r.pc \in InMove /\ r.names # {} => dir'[r.inode].key = "both"
      BY <1>0, <2>6, <3>1 DEF CarriesSound
    <3>4. r.pc = "sealing" => Carried(r.names)' /\ at'["old"] = 0 /\ ~UnderWay("old")'
      <4> SUFFICES ASSUME r.pc = "sealing"
                   PROVE  Carried(r.names)' /\ at'["old"] = 0 /\ ~UnderWay("old")'
        OBVIOUS
      <4>1. Carried(r.names) /\ at["old"] = 0 /\ ~UnderWay("old") /\ at["new"] = r.inode
        BY <1>0 DEF CarriesSound, RenameSound
      <4>2. at["new"] # d /\ Contents("new")' = Contents("new") /\ dir'[at["new"]] = dir[at["new"]]
        BY <1>h, <2>2, <2>5, <3>1, <4>1 DEF InMove
      <4>3. told'["new"] \subseteq told["new"] /\ told'["old"] \subseteq told["old"]
        BY <1>h, <2>1
      <4> QED
        BY <2>1, <4>1, <4>2, <4>3 DEF Carried, UnderWay
    <3> QED
      BY <2>1, <3>2, <3>3, <3>4 DEF CarriesSound
  <2>9. ReadableThere'
    <3> SUFFICES ASSUME task[Renamer].pc # "sealing", NEW path \in Handles, NEW m \in told'[path]
                 PROVE  m \in Contents(path)' /\ Readable(at[path], path)'
      BY <2>1 DEF ReadableThere
    <3>1. /\ m \in told[path] /\ (path = handle => m # n)
          /\ m \in Contents(path) /\ Readable(at[path], path)
      BY <1>r, <2>1
    <3>4. at[path] = d => path = handle
      <4>1. at[path] # 0
        BY <3>1 DEF Contents
      <4> QED
        BY <1>0, <1>h, <2>1, <4>1 DEF DirsSound
    <3>2. CASE at[path] # d
      BY <2>5, <3>1, <3>2
    <3>3. CASE at[path] = d
      <4>1. m \in Contents(path)'
        BY <1>n, <2>1, <2>2, <2>3, <3>1, <3>3, <3>4, StoreIds DEF Contents
      <4>2. Readable(at[path], path)'
        BY <2>1, <2>2, <2>3, <3>1, <3>3 DEF Readable
      <4> QED
        BY <4>1, <4>2
    <3> QED
      BY <3>2, <3>3
  <2> QED
    BY <2>7, <2>8, <2>9 DEF Calm
<1>2. CASE RenameStarts
  <2>1. at' = at /\ dir' = dir /\ told' = told
    BY <1>2 DEF RenameStarts
  <2>2. /\ \A q \in Savers : task'[q] = task[q]
        /\ task'[Renamer].pc = "checking" /\ task[Renamer].pc = "idle"
    BY <1>0, <1>2, RenameStartsFacts
  <2> QED
    BY <1>s, <1>c, <1>k, <2>1, <2>2 DEF Calm, InMove
<1>3. CASE RenameChecks
  <2>1. at' = at /\ dir' = dir /\ told' = told
    BY <1>3 DEF RenameChecks
  <2>2. /\ \A q \in Savers : task'[q] = task[q]
        /\ task'[Renamer].pc \in {"done", "failed", "waiting"} /\ task[Renamer].pc = "checking"
    BY <1>0, <1>3, RenameChecksFacts
  <2> QED
    BY <1>s, <1>c, <1>k, <2>1, <2>2 DEF Calm, InMove
<1>4. CASE RenameReads
  <2>1. at' = at /\ dir' = dir /\ told' = told
    BY <1>4 DEF RenameReads
  <2>2. /\ \A q \in Savers : task'[q] = task[q]
        /\ task[Renamer].pc = "waiting" /\ task'[Renamer].inode = task[Renamer].inode
    BY <1>0, <1>4, RenameReadsFacts
  <2>3. CASE /\ Readable(at["old"], "old")
             /\ task'[Renamer].pc = "moving" /\ task'[Renamer].names = Contents("old")
    <3>1. at["old"] # 0 /\ at["old"] = task[Renamer].inode
      BY <1>0, <2>2 DEF RenameSound
    <3>2. Contents("old") # {} => dir[at["old"]].key = "both"
      BY <2>3, <3>1 DEF Contents, Readable
    <3>3. Contents("old")' = Contents("old")
      BY <1>h, <1>u, <2>1
    <3>4. CarriesSound'
      BY <2>1, <2>2, <2>3, <3>1, <3>2, <3>3 DEF CarriesSound
    <3> QED
      BY <1>s, <1>k, <2>1, <2>2, <3>4 DEF Calm
  <2>4. CASE task'[Renamer].pc = "failed"
    BY <1>s, <1>c, <1>k, <2>1, <2>2, <2>4 DEF Calm, InMove
  <2> QED
    BY <1>0, <1>4, <2>3, <2>4, RenameReadsFacts
<1>5. CASE RenameMoves
  <2>1. dir' = dir /\ told' = told
    BY <1>5 DEF RenameMoves
  <2>2. /\ \A q \in Savers : task'[q] = task[q]
        /\ task[Renamer].pc = "moving"
    BY <1>0, <1>5, RenameMovesFacts
  <2>3. CASE /\ at["old"] # 0 /\ at["new"] = 0 /\ at'["new"] = at["old"] /\ at'["old"] = 0
             /\ strained' = (strained \/ UnderWay("old"))
             /\ task'[Renamer].pc = "sealing"
             /\ task'[Renamer].inode = task[Renamer].inode /\ task'[Renamer].names = task[Renamer].names
    <3>1. ~UnderWay("old")
      BY <2>3
    <3>2. /\ task[Renamer].names = Contents("old")
          /\ task[Renamer].names # {} => dir[task[Renamer].inode].key = "both"
      BY <1>0, <2>2 DEF CarriesSound, InMove
    <3>3. Carried(task[Renamer].names)'
      <4>1. told["new"] = {} /\ told["old"] \subseteq Contents("old")
        BY <1>h, <1>r, <2>2, <2>3 DEF Contents
      <4>2. told["old"] # {} => dir[at["old"]].handle = "old"
        BY <1>h, <1>r, <2>2, <2>3 DEF Contents, Readable
      <4>3. Contents("new")' = Contents("old")
        BY <2>1, <2>3 DEF Contents
      <4> QED
        BY <2>1, <2>3, <3>2, <4>1, <4>2, <4>3 DEF Carried
    <3>4. \A q \in Savers : task[q].pc \notin {"waiting"} \union InStore
      <4> SUFFICES ASSUME NEW q \in Savers, task[q].pc \in {"waiting"} \union InStore PROVE FALSE
        OBVIOUS
      <4>1. task[q].path = "new"
        BY <1>0, <1>h, <1>n, <3>1 DEF UnderWay, InStore
      <4> QED
        BY <1>0, <1>h, <2>3, <4>1 DEF SavesSound, LocksSound
    <3>5. SavesSound' /\ ~UnderWay("old")'
      BY <2>2, <3>1, <3>4 DEF SavesSound, UnderWay, InStore
    <3>6. CarriesSound'
      BY <2>1, <2>3, <3>2, <3>3, <3>5 DEF CarriesSound
    <3>7. ReadableThere'
      BY <2>3 DEF ReadableThere
    <3> QED
      BY <3>5, <3>6, <3>7 DEF Calm
  <2>4. CASE task'[Renamer].pc = "failed" /\ at' = at
    BY <1>s, <1>c, <1>k, <2>1, <2>2, <2>4 DEF Calm, InMove
  <2> QED
    BY <1>0, <1>5, <2>3, <2>4, RenameMovesFacts
\* A rename that fails moves the directory back as it was, or sealed as it was.
<1>b. ASSUME MovesBack, task[Renamer].pc = "sealing", told' = told,
             \A q \in Savers : task'[q] = task[q],
             \/ dir' = dir
             \/ dir' = [dir EXCEPT ![at["new"]] = [key |-> "both", sealed |-> TRUE,
                             handle |-> "old", names |-> task[Renamer].names]]
      PROVE  SavesSound' /\ ReadableThere'
  <2> DEFINE d == at["new"]
             rec == [key |-> "both", sealed |-> TRUE, handle |-> "old", names |-> task[Renamer].names]
  <2>1. /\ d # 0 /\ at["old"] = 0 /\ at'["old"] = d /\ at'["new"] = 0 /\ ~UnderWay("new")
    BY <1>0, <1>b, MovesBackFacts
  <2>2. /\ ~UnderWay("old") /\ Carried(task[Renamer].names) /\ d = task[Renamer].inode
        /\ task[Renamer].names # {} => dir[d].key = "both"
    BY <1>0, <1>b DEF CarriesSound, RenameSound, InMove
  <2>3. d \in Dirs
    BY <1>d, <1>h, <2>1
  <2>4. told["new"] = {} /\ \A n \in told["old"] : n \in Contents("old")' /\ Readable(at["old"], "old")'
    <3>1. CASE dir' = dir
      BY <2>1, <2>2, <3>1 DEF Carried, Contents, Readable
    <3>2. CASE dir' = [dir EXCEPT ![d] = rec]
      <4>1. dir'[d] = rec
        BY <1>0, <2>3, <3>2
      <4>2. rec.key = "both" /\ rec.sealed = TRUE /\ rec.handle = "old" /\ rec.names = task[Renamer].names
        OBVIOUS
      <4> HIDE DEF rec
      <4>3. Contents("old")' = task[Renamer].names /\ Readable(at["old"], "old")'
        BY <2>1, <4>1, <4>2 DEF Contents, Readable
      <4> QED
        BY <2>2, <4>3 DEF Carried
    <3> QED
      BY <1>b, <3>1, <3>2
  <2>5. ReadableThere'
    BY <1>b, <1>h, <2>4 DEF ReadableThere
  <2> QED
    BY <1>b, <1>e, <2>1, <2>2, <2>5
<1>6. CASE RenameSeals
  <2>2. /\ \A q \in Savers : task'[q] = task[q]
        /\ task[Renamer].pc = "sealing" /\ task'[Renamer].pc \in {"done", "failed"}
    BY <1>0, <1>6, RenameSealsFacts
  <2> DEFINE d == at["new"]
             rec == [key |-> "both", sealed |-> TRUE, handle |-> "new", names |-> task[Renamer].names]
  <2>3. /\ d = task[Renamer].inode /\ d # 0 /\ d \in Dirs
        /\ Carried(task[Renamer].names)
        /\ task[Renamer].names # {} => dir[d].key = "both"
    BY <1>0, <1>d, <1>h, <2>2 DEF RenameSound, CarriesSound, InMove
  <2>4. CASE /\ dir' = [dir EXCEPT ![d] = rec] /\ at' = at
             /\ told'["new"] = told["new"] \union told["old"] /\ told'["old"] = {}
    <3>1. dir'[d] = rec /\ \A e \in Dirs \ {d} : dir'[e] = dir[e]
      BY <1>0, <2>3, <2>4
    <3>2. rec.key = "both" /\ rec.sealed = TRUE /\ rec.handle = "new" /\ rec.names = task[Renamer].names
      OBVIOUS
    <3> HIDE DEF rec
    <3>3. Contents("new")' = task[Renamer].names /\ Readable(at["new"], "new")'
      BY <2>4, <2>3, <3>1, <3>2 DEF Contents, Readable
    <3>4. SavesSound'
      <4> SUFFICES ASSUME NEW q \in Savers, NEW path \in Handles, task[q].path = path
                   PROVE  /\ task[q].pc \in {"waiting"} \union InStore => at[path] = task[q].inode
                          /\ task[q].pc \in InStore =>
                               task[q].names = Contents(path)' \union {NameOf[q]}
                          /\ task[q].pc = "writing" => dir'[task[q].inode].key = "both"
        BY <2>4, <2>2 DEF SavesSound
      <4>1. /\ task[q].pc \in {"waiting"} \union InStore => at[path] = task[q].inode
            /\ task[q].pc \in InStore => task[q].names = Contents(path) \union {NameOf[q]}
            /\ task[q].pc = "writing" => dir[task[q].inode].key = "both"
        BY <1>0 DEF SavesSound
      <4>2. task[q].pc \in InStore => Locks(q) /\ task[q].inode # 0
        BY <1>0, <1>n DEF Locks, LocksSound
      <4>3. Locks(Renamer)
        BY <2>2 DEF Locks, InMove
      <4>4. task[q].pc \in InStore => task[q].inode # d /\ task[q].inode \in Dirs
        BY <1>0, <1>d, <1>n, <2>3, <4>1, <4>2, <4>3, LocksExclude
      <4>5. task[q].pc \in InStore => Contents(path)' = Contents(path)
        BY <2>4, <3>1, <4>1, <4>4, SameStore
      <4> QED
        BY <3>1, <4>1, <4>4, <4>5 DEF InStore
    <3>5. ReadableThere'
      BY <1>h, <2>4, <2>3, <3>3 DEF ReadableThere, Carried
    <3> QED
      BY <1>c, <2>2, <3>4, <3>5 DEF Calm, InMove
  <2>5. CASE dir' = dir /\ told' = told /\ MovesBack
    BY <1>b, <1>c, <2>2, <2>5 DEF Calm, InMove
  <2> QED
    BY <1>0, <1>6, <2>4, <2>5, RenameSealsFacts
<1>7. CASE RenameRollsBack
  <2>1. /\ told' = told /\ MovesBack
        /\ \A q \in Savers : task'[q] = task[q]
        /\ task[Renamer].pc = "sealing" /\ task'[Renamer].pc = "failed"
        /\ \/ dir' = dir
           \/ dir' = [dir EXCEPT ![at["new"]] = [key |-> "both", sealed |-> TRUE,
                             handle |-> "old", names |-> task[Renamer].names]]
    BY <1>0, <1>7, RollsBackFacts
  <2> QED
    BY <1>b, <1>c, <2>1 DEF Calm, InMove
<1>8. CASE RenameDies
  <2>1. at' = at /\ dir' = dir /\ told' = told /\ task[Renamer].pc # "sealing"
    BY <1>8 DEF RenameDies
  <2>2. /\ \A q \in Savers : task'[q] = task[q]
        /\ task'[Renamer].pc = "failed"
    BY <1>0, <1>8, RenameDiesFacts
  <2> QED
    BY <1>s, <1>c, <1>k, <2>1, <2>2 DEF Calm, InMove
<1>9. CASE Retire
  <2>1. /\ ~UnderWay("old") /\ ~UnderWay("new") /\ task' = task
        /\ told' = [path \in Handles |-> {}]
        /\ task'[Renamer].pc \in {"idle", "done", "failed"}
    BY <1>9 DEF Retire
  <2>2. ReadableThere'
    BY <2>1 DEF ReadableThere
  <2> QED
    BY <1>c, <1>e, <2>1, <2>2 DEF Calm, InMove
<1>10. ASSUME at' = at, dir' = dir, told' = told, task' = task PROVE Calm'
  <2>1. CarriesSound'
    BY <1>0, <1>h, <1>u, <1>10 DEF CarriesSound, Carried, UnderWay
  <2>2. ReadableThere'
    BY <1>0, <1>u, <1>10 DEF ReadableThere
  <2> QED
    BY <1>s, <1>10, <2>1, <2>2 DEF Calm
<1> QED
  BY <1>1, <1>2, <1>3, <1>4, <1>5, <1>6, <1>7, <1>8, <1>9, <1>10
     DEF RenameStep, SendTransfer, storeVars

\* While no save is strained, every step keeps saves and what they reported under
\* the Hat's handle, or under the one a rename has not moved.
LEMMA HomeStep ==
  ASSUME StoreInv, ~strained, ~strained', [StoreNext]_storeVars
  PROVE  HomeSound'
<1>0. /\ StoreTypeOK /\ HomeSound /\ RenameSound /\ CarriesSound /\ ReadableThere
      /\ told \in [Handles -> SUBSET CredentialNames]
  BY StoreTypes DEF StoreInv
<1>n. Renamer \notin Savers /\ Renamer \in Owners /\ Savers \subseteq Owners
  BY StoreIds
<1>h. "old" \in Handles /\ "new" \in Handles /\ \A path \in Handles : path \in {"old", "new"}
  BY DEF Handles
\* The handle and the rename stay.
<1>a. ASSUME handle' = handle, task'[Renamer].pc = task[Renamer].pc,
             \A path \in Handles : UnderWay(path)' => UnderWay(path) \/ path = handle,
             \A path \in Handles : told'[path] # {} => told[path] # {} \/ UnderWay(path)
      PROVE  HomeSound'
  BY <1>0, <1>a DEF HomeSound, Home
\* The rename is not done: nothing is claimed of the handle.
<1>b. ASSUME task'[Renamer].pc \notin {"idle", "done"} PROVE HomeSound'
  BY <1>b DEF HomeSound, Home
\* One save moves on.
<1>c. ASSUME NEW p \in Savers, \A q \in Owners \ {p} : task'[q] = task[q],
             \/ task'[p].path = task[p].path /\ task[p].pc \notin {"idle", "done", "failed"}
             \/ task'[p].pc \in {"done", "failed"}
             \/ task'[p].path = handle,
             task[p].pc \in TaskStates
      PROVE  /\ task'[Renamer] = task[Renamer]
             /\ \/ task[p].pc \in {"chosen", "waiting", "keys", "half", "writing"}
                \/ task'[p].pc \in {"done", "failed"} \/ task'[p].path = handle
                => \A path \in Handles : UnderWay(path)' => UnderWay(path) \/ path = handle
  BY <1>c, <1>n DEF UnderWay
<1>t. \A p \in Savers : task[p].pc \in TaskStates
  BY <1>0, <1>n, StoreTypes DEF Tasks
<1>1. ASSUME NEW p \in Savers, SaveBegins(p) PROVE HomeSound'
  <2>1. handle' = handle /\ told' = told
    BY <1>1 DEF SaveBegins
  <2> QED
    BY <1>0, <1>1, <1>a, <1>c, <1>t, <2>1, BeginsFacts
<1>2. ASSUME NEW p \in Savers, SaveOpens(p) PROVE HomeSound'
  <2>1. handle' = handle /\ told' = told
    BY <1>2 DEF SaveOpens
  <2> QED
    BY <1>0, <1>2, <1>a, <1>c, <1>t, <2>1, OpensFacts
<1>3. ASSUME NEW p \in Savers, SaveReads(p) PROVE HomeSound'
  <2>1. handle' = handle /\ told' = told
    BY <1>3 DEF SaveReads
  <2> QED
    BY <1>0, <1>3, <1>a, <1>c, <1>t, <2>1, ReadsFacts
<1>4. ASSUME NEW p \in Savers, SaveFindsKeys(p) PROVE HomeSound'
  <2>1. handle' = handle /\ told' = told
    BY <1>4 DEF SaveFindsKeys
  <2> QED
    BY <1>0, <1>4, <1>a, <1>c, <1>t, <2>1, FindsKeysFacts
<1>5. ASSUME NEW p \in Savers, SaveWritesPublicKey(p) PROVE HomeSound'
  <2>1. handle' = handle /\ told' = told
    BY <1>5 DEF SaveWritesPublicKey
  <2> QED
    BY <1>0, <1>5, <1>a, <1>c, <1>t, <2>1, WritesKeyFacts
<1>6. ASSUME NEW p \in Savers, SaveWrites(p) PROVE HomeSound'
  <2>1. handle' = handle
    BY <1>6 DEF SaveWrites
  <2>2. /\ task[p].pc = "writing" /\ task'[p].pc \in {"done", "failed"}
        /\ \A q \in Owners \ {p} : task'[q] = task[q]
        /\ \A q \in Handles \ {task[p].path} : told'[q] = told[q]
    BY <1>0, <1>6, WritesFacts
  <2>3. task[p].path \in Handles => UnderWay(task[p].path)
    BY <2>2 DEF UnderWay
  <2>4. \A path \in Handles : told'[path] # {} => told[path] # {} \/ UnderWay(path)
    BY <2>2, <2>3
  <2> QED
    BY <1>a, <1>c, <1>t, <2>1, <2>2, <2>4
<1>7. ASSUME NEW p \in Savers, SaveDies(p) PROVE HomeSound'
  <2>1. handle' = handle /\ told' = told
    BY <1>7 DEF SaveDies
  <2> QED
    BY <1>0, <1>7, <1>a, <1>c, <1>t, <2>1, SaveDiesFacts
<1>8. ASSUME NEW n \in CredentialNames, RemoveSecret(n) PROVE HomeSound'
  <2>1. handle' = handle /\ task' = task /\ told' = [told EXCEPT ![handle] = @ \ {n}]
    BY <1>8 DEF RemoveSecret
  <2>2. \A path \in Handles : told'[path] # {} => told[path] # {}
    <3> SUFFICES ASSUME NEW path \in Handles PROVE told'[path] # {} => told[path] # {}
      OBVIOUS
    <3>1. told \in [Handles -> SUBSET CredentialNames]
      BY <1>0 DEF StoreTypeOK
    <3>2. CASE path = handle
      BY <2>1, <3>1, <3>2
    <3>3. CASE path # handle
      BY <2>1, <3>1, <3>3
    <3> QED
      BY <3>2, <3>3
  <2>3. \A path \in Handles : UnderWay(path)' => UnderWay(path)
    BY <2>1 DEF UnderWay
  <2> QED
    BY <1>a, <2>1, <2>2, <2>3
<1>9. CASE RenameStarts
  BY <1>0, <1>9, <1>b, RenameStartsFacts
<1>10. CASE RenameChecks
  <2>1. /\ task[Renamer].pc = "checking" /\ task'[Renamer].pc \in {"done", "failed", "waiting"}
        /\ task'[Renamer].pc = "done" => at["old"] = 0
        /\ \A q \in Savers : task'[q] = task[q]
    BY <1>0, <1>10, RenameChecksFacts
  <2>2. handle = "new" /\ handle' = handle /\ told' = told
    BY <1>0, <1>10, <2>1 DEF RenameChecks, RenameSound
  <2>3. CASE at["old"] = 0
    <3>1. ~UnderWay("old")
      BY <1>10, <2>3 DEF RenameChecks
    <3>2. told["old"] = {}
      BY <1>0, <1>h, <2>1, <2>3 DEF ReadableThere, Contents
    <3>3. ~UnderWay("old")'
      BY <2>1, <3>1 DEF UnderWay
    <3> QED
      BY <1>h, <2>2, <3>2, <3>3 DEF HomeSound, Home
  <2> QED
    BY <1>b, <2>1, <2>3
<1>11. CASE RenameReads
  BY <1>0, <1>11, <1>b, RenameReadsFacts
<1>12. CASE RenameMoves
  BY <1>0, <1>12, <1>b, RenameMovesFacts
<1>13. CASE RenameSeals
  <2>1. /\ task[Renamer].pc = "sealing" /\ \A q \in Savers : task'[q] = task[q]
        /\ task'[Renamer].pc \in {"done", "failed"}
        /\ task'[Renamer].pc = "done" => told'["old"] = {}
    BY <1>0, <1>13, RenameSealsFacts
  <2>2. handle = "new" /\ handle' = handle /\ ~UnderWay("old")
    BY <1>0, <1>13, <2>1 DEF RenameSeals, RenameSound, CarriesSound, InMove
  <2>3. ~UnderWay("old")'
    BY <2>1, <2>2 DEF UnderWay
  <2>4. CASE task'[Renamer].pc = "done"
    BY <1>h, <2>1, <2>2, <2>3, <2>4 DEF HomeSound, Home
  <2> QED
    BY <1>b, <2>1, <2>4
<1>14. CASE RenameRollsBack
  BY <1>0, <1>14, <1>b, RollsBackFacts
<1>15. CASE RenameDies
  BY <1>0, <1>15, <1>b, RenameDiesFacts
<1>16. CASE Retire
  <2>1. /\ strained' = (strained \/ UnderWay("old") \/ UnderWay("new"))
        /\ task' = task /\ told' = [path \in Handles |-> {}]
    BY <1>16 DEF Retire
  <2>2. ~UnderWay("old") /\ ~UnderWay("new")
    BY <2>1, Zenon
  <2>3. \A path \in Handles : told'[path] = {} /\ ~UnderWay(path)'
    BY <1>h, <2>1, <2>2 DEF UnderWay
  <2> QED
    BY <2>3 DEF HomeSound
<1>17. ASSUME handle' = handle, task' = task, told' = told PROVE HomeSound'
  BY <1>17, <1>a DEF UnderWay
<1>18. (\E names \in SUBSET CredentialNames : SendTransfer(names)) \/ UNCHANGED storeVars
         => handle' = handle /\ task' = task /\ told' = told
  BY DEF SendTransfer, storeVars
<1> QED
  BY <1>1, <1>2, <1>3, <1>4, <1>5, <1>6, <1>7, <1>8, <1>9, <1>10, <1>11, <1>12, <1>13, <1>14,
     <1>15, <1>16, <1>17, <1>18 DEF StoreNext, SaveStep, RenameStep

\* A save that was strained stays so.
LEMMA StrainStays ==
  ASSUME [StoreNext]_storeVars, strained
  PROVE  strained'
BY DEF StoreNext, SaveStep, RenameStep, SaveBegins, SaveOpens, SaveReads, SaveFindsKeys,
       SaveWritesPublicKey, SaveWrites, SaveDies, RemoveSecret, RenameStarts, RenameChecks,
       RenameReads, RenameMoves, RenameSeals, RenameRollsBack, RenameDies, Retire, SendTransfer,
       MovesBack, storeVars

\* Every step of the store keeps the invariant.
LEMMA StoreStep ==
  ASSUME StoreInv, [StoreNext]_storeVars
  PROVE  StoreInv'
<1>1. StoreTypeOK' /\ LocksSound' /\ DirsSound' /\ RenameSound'
  BY StoreTypeStep, LocksStep, DirsStep, RenameSoundStep
<1>2. CASE strained'
  BY <1>1, <1>2 DEF StoreInv
<1>3. CASE ~strained'
  <2>1. ~strained
    BY <1>3, StrainStays
  <2>2. Calm'
    BY <1>1, <1>3, <2>1, SavesStep, CarriesStep DEF StoreNext
  <2>3. HomeSound'
    BY <1>3, <2>1, HomeStep
  <2> QED
    BY <1>1, <2>2, <2>3 DEF StoreInv, Calm
<1> QED
  BY <1>2, <1>3

\* The store's invariant holds throughout.
LEMMA StoreAlways == StoreSpec => []StoreInv
BY StoreBegins, StoreStep, PTL DEF StoreSpec

\* For any number of savers, directories and faults: the store's variables stay in
\* their sets (hats/secrets.py).
THEOREM StoreTypeOKHolds == StoreSpec => []StoreTypeOK
<1>1. StoreInv => StoreTypeOK
  BY DEF StoreInv
<1> QED
  BY <1>1, StoreAlways, PTL

\* For any number of savers, directories and faults: a credential the agent was told
\* is saved can be read under the Hat's handle, or under the one before while the
\* rename is under way and after it failed (hats/tool.py); unless a save was under
\* way across a rename, or a crash cut the rename off (hats/secrets.py).
THEOREM SavedIsReadableHolds == StoreSpec => []SavedIsReadable
<1>1. StoreInv => SavedIsReadable
  BY DEF StoreInv, HomeSound, ReadableThere, SavedIsReadable
<1> QED
  BY <1>1, StoreAlways, PTL

-----------------------------------------------------------------------------
(* The skills of a Hat.                                                     *)

SkillSpec == SkillInit /\ [][SkillNext]_skillVars

WearStates == {"idle", "waiting", "staging", "swapping", "placing", "cleaning",
               "recording", "installed", "done", "failed", "recovery", "dead"}
WearRecords == [pc : WearStates,
                head : Versions, desired : SUBSET Skills,
                staged : [Skills -> Versions], backup : [Skills -> Versions],
                installed : SUBSET Skills, moving : SUBSET Skills,
                before : [Skills -> Versions], previous : SUBSET Skills]
Holding == {"staging", "swapping", "placing", "cleaning", "recording"}

\* One call at a time has the installation lock; one that has not got it yet
\* has staged and moved nothing.
LockSound ==
  /\ \A v, w \in Wears : Installing(v) /\ Installing(w) => v = w
  /\ \A w \in Wears : wear[w].pc \in {"idle", "waiting"} =>
       wear[w].staged = Missing /\ wear[w].backup = Missing /\ wear[w].installed = {}

\* What an installation has done so far, skill by skill: what it has installed is
\* staged, what it moved away is in the backups, and it has not touched the rest.
SwapSound(t, s) ==
  IF s \in t.installed THEN t.backup[s] = t.before[s] /\ active[s] = t.staged[s] /\ active[s] # 0
  ELSE IF t.pc = "placing" /\ s \in t.moving THEN t.backup[s] = t.before[s] /\ active[s] = 0
  ELSE t.backup[s] = 0 /\ active[s] = t.before[s]
InstallSound(t) ==
  /\ t.previous = listed
  /\ t.pc = "staging" => t.installed = {}
  /\ t.pc \in {"staging", "swapping", "placing"} => \A s \in Skills : SwapSound(t, s)
  /\ t.pc \in {"swapping", "placing"} => t.desired \subseteq Present(t.staged)
  /\ t.pc = "placing" => \E s \in t.desired \ t.installed : t.moving = {s}
  /\ t.pc \in {"cleaning", "recording"} =>
       \A s \in t.installed : active[s] = t.staged[s] /\ active[s] # 0
  /\ t.pc = "cleaning" => \A s \in Skills \ t.installed : active[s] = t.before[s]
  /\ ~torn => Present(t.before) = t.previous
  /\ t.pc = "recording" /\ ~torn => Present(active) = t.installed

\* No skill that is active, kept or staged is older than what the platform was
\* told, or is about to be told; and what is staged is not older than the commit
\* its call will report.
Floor(b) == b = reported \/ \E v \in Wears : wear[v].pc = "installed" /\ b = wear[v].head
NotBelow(versions, b) == \A s \in Skills : versions[s] # 0 => versions[s] >= b
FloorsSound ==
  /\ reported <= checkout /\ \A w \in Wears : wear[w].head <= checkout
  /\ \A w \in Wears : Installing(w) => NotBelow(wear[w].staged, wear[w].head)
  /\ ~torn => \A b \in Versions : Floor(b) =>
       /\ NotBelow(active, b)
       /\ \A w \in Wears : Installing(w) =>
            NotBelow(wear[w].before, b) /\ NotBelow(wear[w].staged, b)

InstallsSound ==
  \A w \in Wears, t \in WearRecords : wear[w] = t /\ t.pc \in Holding => InstallSound(t)

SkillInv ==
  /\ SkillTypeOK /\ LockSound /\ InstallsSound /\ NoOrphanSkills /\ FloorsSound

\* The types, with the set of records named.
LEMMA SkillTypes ==
  SkillTypeOK <=>
    /\ checkout \in Heads /\ reported \in Versions /\ torn \in BOOLEAN
    /\ active \in [Skills -> Versions] /\ listed \subseteq Skills
    /\ mishaps \in 0 .. MaxMishaps
    /\ wear \in [Wears -> WearRecords]
BY DEF SkillTypeOK, WearRecords, WearStates

\* The versions are numbers, and 0 is no version.
LEMMA SkillIds ==
  /\ Heads \subseteq Nat \ {0} /\ Versions \subseteq Nat /\ 0 \in Versions /\ Heads \subseteq Versions
  /\ Missing \in [Skills -> Versions] /\ \A s \in Skills : Missing[s] = 0
  /\ 1 \in Heads /\ MaxMishaps \in Nat
BY SkillsAssumption DEF Versions, Missing

\* The call w goes on as t, and the others stay.
WearBecomes(w, t) ==
  /\ wear' = [wear EXCEPT ![w] = t]
  /\ wear'[w] = t /\ \A v \in Wears \ {w} : wear'[v] = wear[v]
  /\ wear' \in [Wears -> WearRecords]

\* Replacing a call's record by another is all that happens to the calls.
LEMMA BecomesIt ==
  ASSUME wear \in [Wears -> WearRecords], NEW w \in Wears, NEW t \in WearRecords,
         wear' = [wear EXCEPT ![w] = t]
  PROVE  WearBecomes(w, t)
BY DEF WearBecomes

\* What each step makes of the call that takes it.
LEMMA ChecksOutFacts ==
  ASSUME SkillTypeOK, NEW w \in Wears, WearChecksOut(w)
  PROVE  \E t \in WearRecords :
           /\ WearBecomes(w, t) /\ wear[w].pc = "idle" /\ t.pc = "waiting"
           /\ t.head = checkout' /\ checkout' \in Heads /\ checkout' >= checkout
           /\ t.staged = wear[w].staged /\ t.backup = wear[w].backup
           /\ t.installed = wear[w].installed
<1>1. wear \in [Wears -> WearRecords] /\ wear[w] \in WearRecords
  BY SkillTypes
<1>2. PICK h \in Heads : /\ h >= checkout /\ checkout' = h
                         /\ wear' = [wear EXCEPT ![w] = [wear[w] EXCEPT !.pc = "waiting", !.head = h]]
  BY DEF WearChecksOut
<1> DEFINE t == [wear[w] EXCEPT !.pc = "waiting", !.head = h]
<1>3. t \in WearRecords /\ t.pc = "waiting" /\ t.head = h /\ t.staged = wear[w].staged
      /\ t.backup = wear[w].backup /\ t.installed = wear[w].installed
  BY <1>1, SkillIds DEF WearRecords, WearStates
<1> HIDE DEF t
<1>4. WearBecomes(w, t)
  BY <1>1, <1>2, <1>3, BecomesIt DEF t
<1> QED
  BY <1>2, <1>3, <1>4 DEF WearChecksOut

\* A call that takes the installation lock notes what is active and listed.
LEMMA InstallBeginsFacts ==
  ASSUME SkillTypeOK, NEW w \in Wears, InstallBegins(w)
  PROVE  \E t \in WearRecords :
           /\ WearBecomes(w, t) /\ wear[w].pc = "waiting" /\ t.pc = "staging"
           /\ t.head = wear[w].head /\ t.before = active /\ t.previous = listed
           /\ t.staged = wear[w].staged /\ t.backup = wear[w].backup
           /\ t.installed = wear[w].installed
<1>1. wear \in [Wears -> WearRecords] /\ wear[w] \in WearRecords
      /\ active \in [Skills -> Versions] /\ listed \subseteq Skills /\ SkillsAt[checkout] \subseteq Skills
  BY SkillTypes, SkillsAssumption
<1> DEFINE t == [wear[w] EXCEPT !.pc = "staging", !.desired = SkillsAt[checkout],
                                !.before = active, !.previous = listed]
<1>2. wear' = [wear EXCEPT ![w] = t]
  BY DEF InstallBegins
<1>3. t \in WearRecords /\ t.pc = "staging" /\ t.head = wear[w].head /\ t.staged = wear[w].staged
      /\ t.backup = wear[w].backup /\ t.installed = wear[w].installed
      /\ t.before = active /\ t.previous = listed
  BY <1>1 DEF WearRecords, WearStates
<1> HIDE DEF t
<1>4. WearBecomes(w, t)
  BY <1>1, <1>2, <1>3, BecomesIt
<1> QED
  BY <1>3, <1>4 DEF InstallBegins

\* The fields no later step of an installation writes.
Begun(t, u) ==
  t.head = u.head /\ t.desired = u.desired /\ t.before = u.before /\ t.previous = u.previous

\* A call stages one skill at the checkout's version.
LEMMA StageFacts ==
  ASSUME SkillTypeOK, NEW w \in Wears, NEW s \in Skills, StageSkill(w, s)
  PROVE  \E t \in WearRecords :
           /\ WearBecomes(w, t) /\ Begun(t, wear[w]) /\ wear[w].pc = "staging" /\ t.pc = "staging"
           /\ t.backup = wear[w].backup /\ t.installed = wear[w].installed
           /\ t.moving = wear[w].moving
           /\ t.staged = [wear[w].staged EXCEPT ![s] = checkout]
<1>1. wear \in [Wears -> WearRecords] /\ wear[w] \in WearRecords /\ checkout \in Versions
  BY SkillTypes, SkillIds
<1> DEFINE staged == [wear[w].staged EXCEPT ![s] = checkout]
           t == [wear[w] EXCEPT !.staged = staged]
<1>2. wear' = [wear EXCEPT ![w] = t]
  BY DEF StageSkill
<1>3. staged \in [Skills -> Versions]
  BY <1>1 DEF WearRecords
<1> HIDE DEF staged
<1>4. t \in WearRecords /\ Begun(t, wear[w]) /\ t.pc = wear[w].pc
      /\ t.backup = wear[w].backup /\ t.installed = wear[w].installed
      /\ t.moving = wear[w].moving /\ t.staged = staged
  BY <1>1, <1>3 DEF WearRecords, Begun
<1> HIDE DEF t
<1>5. WearBecomes(w, t)
  BY <1>1, <1>2, <1>4, BecomesIt
<1> QED
  BY <1>4, <1>5 DEF StageSkill, staged

\* A call moves one skill's active directory to the backups, everything being staged.
LEMMA BackUpFacts ==
  ASSUME SkillTypeOK, NEW w \in Wears, NEW s \in Skills, BackUpSkill(w, s)
  PROVE  \E t \in WearRecords :
           /\ WearBecomes(w, t) /\ Begun(t, wear[w]) /\ t.pc = "placing"
           /\ t.staged = wear[w].staged /\ t.installed = wear[w].installed
           /\ t.moving = {s} /\ s \in t.desired \ t.installed
           /\ t.backup = [wear[w].backup EXCEPT ![s] = active[s]]
           /\ \/ wear[w].pc = "staging" /\ wear[w].desired \subseteq Present(wear[w].staged)
              \/ wear[w].pc = "swapping"
<1>1. wear \in [Wears -> WearRecords] /\ wear[w] \in WearRecords /\ active[s] \in Versions
  BY SkillTypes, SkillIds
<1> DEFINE backup == [wear[w].backup EXCEPT ![s] = active[s]]
           t == [wear[w] EXCEPT !.pc = "placing", !.moving = {s}, !.backup = backup]
<1>2. wear' = [wear EXCEPT ![w] = t]
  BY DEF BackUpSkill
<1>3. backup \in [Skills -> Versions]
  BY <1>1 DEF WearRecords
<1> HIDE DEF backup
<1>4. t \in WearRecords /\ Begun(t, wear[w]) /\ t.pc = "placing"
      /\ t.staged = wear[w].staged /\ t.installed = wear[w].installed
      /\ t.moving = {s} /\ t.backup = backup
  BY <1>1, <1>3 DEF WearRecords, WearStates, Begun
<1> HIDE DEF t
<1>5. WearBecomes(w, t)
  BY <1>1, <1>2, <1>4, BecomesIt
<1> QED
  BY <1>4, <1>5 DEF BackUpSkill, backup, AllStaged, Begun

\* A call puts one staged skill in place.
LEMMA PlaceFacts ==
  ASSUME SkillTypeOK, NEW w \in Wears, NEW s \in Skills, PlaceSkill(w, s)
  PROVE  \E t \in WearRecords :
           /\ WearBecomes(w, t) /\ Begun(t, wear[w]) /\ wear[w].pc = "placing" /\ s \in wear[w].moving
           /\ t.pc \in {"cleaning", "swapping"}
           /\ t.staged = wear[w].staged /\ t.backup = wear[w].backup
           /\ t.installed = wear[w].installed \union {s}
           /\ active' = [active EXCEPT ![s] = t.staged[s]]
<1>1. wear \in [Wears -> WearRecords] /\ wear[w] \in WearRecords
  BY SkillTypes
<1> DEFINE installed == wear[w].installed \union {s}
           pc == IF installed = wear[w].desired THEN "cleaning" ELSE "swapping"
           t == [wear[w] EXCEPT !.installed = installed, !.pc = pc]
<1>2. wear' = [wear EXCEPT ![w] = t]
  BY DEF PlaceSkill
<1>3. installed \subseteq Skills /\ pc \in {"cleaning", "swapping"}
  BY <1>1 DEF WearRecords
<1> HIDE DEF pc, installed
<1>4. t \in WearRecords /\ Begun(t, wear[w]) /\ t.pc = pc
      /\ t.staged = wear[w].staged /\ t.backup = wear[w].backup /\ t.installed = installed
  BY <1>1, <1>3 DEF WearRecords, WearStates, Begun
<1> HIDE DEF t
<1>5. WearBecomes(w, t)
  BY <1>1, <1>2, <1>4, BecomesIt
<1> QED
  BY <1>3, <1>4, <1>5 DEF PlaceSkill, installed

\* A step that only moves the call on.
MovesTo(w, pc) == wear' = [wear EXCEPT ![w].pc = pc]

\* A call that only moves on keeps what it has noted.
LEMMA MovesOn ==
  ASSUME SkillTypeOK, NEW w \in Wears, NEW pc \in WearStates, MovesTo(w, pc)
  PROVE  \E t \in WearRecords :
           /\ WearBecomes(w, t) /\ Begun(t, wear[w]) /\ t.pc = pc
           /\ t.staged = wear[w].staged /\ t.backup = wear[w].backup
           /\ t.installed = wear[w].installed /\ t.moving = wear[w].moving
<1>1. wear \in [Wears -> WearRecords] /\ wear[w] \in WearRecords
  BY SkillTypes
<1> DEFINE t == [wear[w] EXCEPT !.pc = pc]
<1>2. t \in WearRecords /\ Begun(t, wear[w]) /\ t.pc = pc
      /\ t.staged = wear[w].staged /\ t.backup = wear[w].backup
      /\ t.installed = wear[w].installed /\ t.moving = wear[w].moving
  BY <1>1 DEF WearRecords, Begun
<1>3. wear' = [wear EXCEPT ![w] = t]
  BY DEF MovesTo
<1> HIDE DEF t
<1>4. WearBecomes(w, t)
  BY <1>1, <1>2, <1>3, BecomesIt
<1> QED
  BY <1>2, <1>4

\* A mishap is counted within the bound.
LEMMA MishapTypes ==
  ASSUME mishaps \in 0 .. MaxMishaps, Mishap
  PROVE  mishaps' \in 0 .. MaxMishaps
BY SkillsAssumption DEF Mishap

\* A Hat has no skills at first.
LEMMA SkillsBegin == SkillInit => SkillInv
<1> SUFFICES ASSUME SkillInit PROVE SkillInv
  OBVIOUS
<1>1. Idle \in WearRecords /\ Idle.pc = "idle" /\ Idle.head = 0 /\ Idle.staged = Missing
      /\ Idle.backup = Missing /\ Idle.installed = {}
  BY SkillIds DEF Idle, WearRecords, WearStates
<1>2. \A w \in Wears : wear[w] = Idle
  BY DEF SkillInit
<1>3. SkillTypeOK
  <2>1. wear \in [Wears -> WearRecords]
    BY <1>1 DEF SkillInit
  <2>2. /\ checkout \in Heads /\ reported \in Versions /\ torn \in BOOLEAN
        /\ active \in [Skills -> Versions] /\ listed \subseteq Skills
    BY SkillIds DEF SkillInit
  <2>3. mishaps \in 0 .. MaxMishaps
    BY SkillIds DEF SkillInit
  <2> QED
    BY <2>1, <2>2, <2>3, SkillTypes
<1>4. LockSound
  BY <1>1, <1>2 DEF LockSound, Installing
<1>5. InstallsSound
  BY <1>1, <1>2 DEF InstallsSound, Holding
<1>6. NoOrphanSkills
  BY SkillIds DEF SkillInit, NoOrphanSkills, Present
<1>7. FloorsSound
  <2>1. \A w \in Wears : ~Installing(w) /\ wear[w].head <= checkout
    BY <1>1, <1>2, SkillIds DEF SkillInit, Installing
  <2>2. reported <= checkout /\ \A b : NotBelow(active, b)
    BY SkillIds DEF SkillInit, NotBelow
  <2> QED
    BY <2>1, <2>2 DEF FloorsSound
<1> QED
  BY <1>3, <1>4, <1>5, <1>6, <1>7 DEF SkillInv

\* Whoever goes on with an installation has the lock.
LEMMA LockKept ==
  ASSUME SkillInv, NEW w \in Wears, NEW t \in WearRecords, WearBecomes(w, t),
         t.pc \in Holding => wear[w].pc \in Holding \/ \A v \in Wears : ~Installing(v),
         t.pc \in {"idle", "waiting"} => t.staged = Missing /\ t.backup = Missing /\ t.installed = {}
  PROVE  LockSound'
<1>1. \A v \in Wears : /\ Installing(v)' <=> wear'[v].pc \in Holding
                       /\ Installing(v) <=> wear[v].pc \in Holding
  BY DEF Installing, Holding
<1>2. \A v, u \in Wears : (wear'[v].pc \in Holding /\ wear'[u].pc \in Holding) => v = u
  BY <1>1 DEF SkillInv, LockSound, WearBecomes
<1>3. \A v \in Wears : wear'[v].pc \in {"idle", "waiting"} =>
        wear'[v].staged = Missing /\ wear'[v].backup = Missing /\ wear'[v].installed = {}
  BY DEF SkillInv, LockSound, WearBecomes
<1>4. Missing' = Missing
  BY DEF Missing
<1> QED
  BY <1>1, <1>2, <1>3, <1>4 DEF LockSound

\* Nobody else touches what an installation works on.
LEMMA InstallsKept ==
  ASSUME SkillInv, NEW w \in Wears, NEW t \in WearRecords, WearBecomes(w, t),
         t.pc \in Holding => InstallSound(t)',
         \/ wear[w].pc \in Holding \/ \A v \in Wears \ {w} : ~Installing(v)
         \/ active' = active /\ listed' = listed /\ torn' = torn
  PROVE  InstallsSound'
<1>1. SUFFICES ASSUME NEW v \in Wears, NEW u \in WearRecords, wear'[v] = u, u.pc \in Holding
               PROVE  InstallSound(u)'
  BY DEF InstallsSound
<1>2. CASE v = w
  BY <1>1, <1>2 DEF WearBecomes
<1>3. CASE v # w
  <2>1. wear[v] = u /\ Installing(v)
    BY <1>1, <1>3 DEF WearBecomes, Installing, Holding
  <2>2. InstallSound(u)
    BY <1>1, <2>1 DEF SkillInv, InstallsSound
  <2>3. wear[w].pc \in Holding => Installing(w)
    BY DEF Installing, Holding
  <2>4. active' = active /\ listed' = listed /\ torn' = torn
    BY <1>3, <2>1, <2>3 DEF SkillInv, LockSound
  <2> QED
    BY <2>2, <2>4 DEF InstallSound, SwapSound, Present
<1> QED
  BY <1>2, <1>3

\* No skill becomes older than what the platform was told.
LEMMA FloorsKept ==
  ASSUME SkillInv, NEW w \in Wears, NEW t \in WearRecords, WearBecomes(w, t),
         checkout' \in Heads, checkout' >= checkout, reported' <= checkout', t.head <= checkout',
         t.pc \in Holding => NotBelow(t.staged, t.head),
         ~torn' => ~torn,
         ~torn' => \A b \in Versions : Floor(b)' =>
           /\ NotBelow(active, b)'
           /\ t.pc \in Holding => NotBelow(t.before, b) /\ NotBelow(t.staged, b)
           /\ Floor(b) \/ \A v \in Wears \ {w} : ~Installing(v)
  PROVE  FloorsSound'
<1>0. checkout \in Nat /\ checkout' \in Nat /\ reported \in Nat
      /\ \A v \in Wears : wear[v].head \in Nat /\ wear[v].head <= checkout
  BY SkillTypes, SkillIds DEF SkillInv, WearRecords, FloorsSound
<1>1. \A v \in Wears : wear'[v].head <= checkout'
  BY <1>0 DEF WearBecomes
<1>2. \A v \in Wears \ {w} : (Installing(v)' <=> Installing(v)) /\ wear'[v] = wear[v]
  BY DEF WearBecomes, Installing
<1>3. Installing(w)' <=> t.pc \in Holding
  BY DEF WearBecomes, Installing, Holding
<1>4. \A v \in Wears : Installing(v)' => NotBelow(wear[v].staged, wear[v].head)'
  <2> SUFFICES ASSUME NEW v \in Wears, Installing(v)', NEW u, u = wear'[v]
               PROVE  NotBelow(u.staged, u.head)
    BY DEF NotBelow
  <2>1. CASE v = w
    BY <1>3, <2>1 DEF WearBecomes
  <2>2. CASE v # w
    BY <1>2, <2>2 DEF SkillInv, FloorsSound
  <2> QED
    BY <2>1, <2>2
<1>5. ASSUME ~torn', NEW b \in Versions, Floor(b)'
      PROVE  /\ NotBelow(active, b)'
             /\ \A v \in Wears : Installing(v)' =>
                  NotBelow(wear[v].before, b)' /\ NotBelow(wear[v].staged, b)'
  <2>1. NotBelow(active, b)'
    BY <1>5
  <2>2. ASSUME NEW v \in Wears, Installing(v)', NEW u, u = wear'[v]
        PROVE  NotBelow(u.before, b) /\ NotBelow(u.staged, b)
    <3>1. CASE v = w
      BY <1>3, <1>5, <2>2, <3>1 DEF WearBecomes
    <3>2. CASE v # w
      <4>1. Installing(v) /\ wear[v] = u
        BY <1>2, <2>2, <3>2
      <4>2. Floor(b)
        BY <1>5, <3>2, <4>1
      <4> QED
        BY <1>5, <4>1, <4>2 DEF SkillInv, FloorsSound
    <3> QED
      BY <3>1, <3>2
  <2>3. \A v \in Wears : Installing(v)' =>
          NotBelow(wear[v].before, b)' /\ NotBelow(wear[v].staged, b)'
    BY <2>2 DEF NotBelow
  <2> QED
    BY <2>1, <2>3
<1> QED
  BY <1>1, <1>4, <1>5 DEF FloorsSound

\* A rollback leaves every skill as the installation found it.
LEMMA RollsBackAll ==
  ASSUME SkillInv, NEW w \in Wears, RollBack(w)
  PROVE  active' = wear[w].before
<1>1. Installing(w) /\ wear[w].pc \in Holding /\ wear[w] \in WearRecords
      /\ wear[w].pc \in {"staging", "swapping", "placing"}
  BY SkillTypes DEF SkillInv, RollBack, Installing, Holding
<1>2. \A s \in Skills : SwapSound(wear[w], s)
  BY <1>1 DEF SkillInv, InstallsSound, InstallSound
<1>3. active' = [s \in Skills |-> IF wear[w].backup[s] # 0 THEN wear[w].backup[s]
                                  ELSE IF s \in wear[w].installed THEN 0 ELSE active[s]]
  BY DEF RollBack
<1>4. \A s \in Skills : active'[s] = wear[w].before[s]
  BY <1>2, <1>3 DEF SwapSound
<1>5. wear[w].before \in [Skills -> Versions]
  BY <1>1 DEF WearRecords
<1> QED
  BY <1>3, <1>4, <1>5

\* Every step of a call keeps its installation whole.
LEMMA SkillStep ==
  ASSUME SkillInv, [SkillNext]_skillVars
  PROVE  SkillInv'
<1>0. /\ SkillTypeOK /\ LockSound /\ InstallsSound /\ NoOrphanSkills /\ FloorsSound
      /\ checkout \in Heads /\ reported \in Versions /\ torn \in BOOLEAN
      /\ active \in [Skills -> Versions] /\ listed \subseteq Skills
      /\ mishaps \in 0 .. MaxMishaps
      /\ wear \in [Wears -> WearRecords]
  BY SkillTypes DEF SkillInv
<1>i. \A v \in Wears : Installing(v) <=> wear[v].pc \in Holding
  BY DEF Installing, Holding
<1>l. \A v, w \in Wears : Installing(w) /\ v # w => ~Installing(v)
  BY <1>0 DEF LockSound
<1>r. \A v \in Wears : /\ wear[v] \in WearRecords /\ wear[v].head \in Nat /\ wear[v].head <= checkout
                       /\ wear[v].staged \in [Skills -> Versions]
                       /\ wear[v].backup \in [Skills -> Versions]
                       /\ wear[v].before \in [Skills -> Versions]
                       /\ wear[v].installed \subseteq Skills
  BY <1>0, SkillIds DEF WearRecords, FloorsSound
<1>n. checkout \in Nat /\ reported \in Nat /\ reported <= checkout /\ checkout # 0
  BY <1>0, SkillIds DEF FloorsSound
<1>s. \A v \in Wears : Installing(v) => InstallSound(wear[v])
  BY <1>0, <1>i, <1>r DEF InstallsSound
<1>t. ASSUME checkout' \in Heads, reported' \in Versions, torn' \in BOOLEAN,
             active' \in [Skills -> Versions], listed' \subseteq Skills,
             mishaps' \in 0 .. MaxMishaps, wear' \in [Wears -> WearRecords]
      PROVE  SkillTypeOK'
  BY <1>t DEF SkillTypeOK, WearRecords, WearStates
\* The bounds, as they are for a call that holds the lock.
<1>f. \A v \in Wears : Installing(v) => NotBelow(wear[v].staged, wear[v].head)
  BY <1>0 DEF FloorsSound
<1>g. ~torn => \A b \in Versions : Floor(b) =>
        /\ NotBelow(active, b) /\ b <= checkout
        /\ \A v \in Wears : Installing(v) => NotBelow(wear[v].before, b) /\ NotBelow(wear[v].staged, b)
  BY <1>0, <1>n, <1>r DEF FloorsSound, Floor
\* A step that makes nobody "installed" and reports nothing sets no new floor.
<1>h. ASSUME NEW w \in Wears, NEW t \in WearRecords, WearBecomes(w, t), t.pc # "installed",
             reported' = reported
      PROVE  \A b \in Versions : Floor(b)' => Floor(b)
  BY <1>h DEF Floor, WearBecomes
<1>1. ASSUME NEW w \in Wears, WearChecksOut(w) PROVE SkillInv'
  <2>1. PICK t \in WearRecords :
           /\ WearBecomes(w, t) /\ wear[w].pc = "idle" /\ t.pc = "waiting"
           /\ t.head = checkout' /\ checkout' \in Heads /\ checkout' >= checkout
           /\ t.staged = wear[w].staged /\ t.backup = wear[w].backup
           /\ t.installed = wear[w].installed
    BY <1>0, <1>1, ChecksOutFacts
  <2>2. /\ active' = active /\ listed' = listed /\ torn' = torn /\ reported' = reported
        /\ mishaps' = mishaps
    BY <1>1 DEF WearChecksOut
  <2>3. SkillTypeOK'
    BY <1>0, <1>t, <2>1, <2>2 DEF WearBecomes
  <2>4. LockSound'
    BY <1>0, <2>1, LockKept DEF LockSound, Holding
  <2>5. InstallsSound'
    BY <2>1, <2>2, InstallsKept DEF Holding
  <2>6. NoOrphanSkills'
    BY <1>0, <1>i, <2>1, <2>2 DEF NoOrphanSkills, Present, WearBecomes, Installing
  <2>7. FloorsSound'
    <3>1. checkout' \in Nat /\ reported' <= checkout' /\ t.head <= checkout'
      BY <1>n, <2>1, <2>2, SkillIds
    <3> QED
      BY <1>g, <1>h, <2>1, <2>2, <3>1, FloorsKept DEF Holding, NotBelow
  <2> QED
    BY <2>3, <2>4, <2>5, <2>6, <2>7 DEF SkillInv
<1>2. ASSUME NEW w \in Wears, InstallBegins(w) PROVE SkillInv'
  <2>1. PICK t \in WearRecords :
           /\ WearBecomes(w, t) /\ wear[w].pc = "waiting" /\ t.pc = "staging"
           /\ t.head = wear[w].head /\ t.before = active /\ t.previous = listed
           /\ t.staged = wear[w].staged /\ t.backup = wear[w].backup
           /\ t.installed = wear[w].installed
    BY <1>0, <1>2, InstallBeginsFacts
  <2>2. /\ active' = active /\ listed' = listed /\ torn' = torn /\ reported' = reported
        /\ mishaps' = mishaps /\ checkout' = checkout /\ \A v \in Wears : ~Installing(v)
    BY <1>2 DEF InstallBegins
  <2>3. SkillTypeOK'
    BY <1>0, <1>t, <2>1, <2>2 DEF WearBecomes
  <2>4. LockSound'
    BY <2>1, <2>2, LockKept
  <2>0. t.staged = Missing /\ t.backup = Missing /\ t.installed = {}
    BY <1>0, <2>1 DEF LockSound
  <2>p. torn \/ Present(active) = listed
    BY <1>0, <2>2 DEF NoOrphanSkills
  <2>5. InstallsSound'
    <3>1. \A s \in Skills : SwapSound(t, s)'
      BY <2>0, <2>1, <2>2, SkillIds DEF SwapSound
    <3>2. InstallSound(t)'
      BY <2>0, <2>1, <2>2, <2>p, <3>1 DEF InstallSound, Present
    <3> QED
      BY <2>1, <2>2, <3>2, InstallsKept
  <2>6. NoOrphanSkills'
    BY <2>1 DEF NoOrphanSkills, WearBecomes, Installing
  <2>7. FloorsSound'
    <3>1. \A b : NotBelow(t.staged, b)
      BY <2>0, SkillIds DEF NotBelow
    <3>2. \A b \in Versions : NotBelow(active, b)' <=> NotBelow(active, b)
      BY <2>2 DEF NotBelow
    <3> QED
      BY <1>0, <1>n, <1>r, <1>g, <1>h, <2>1, <2>2, <3>1, <3>2, FloorsKept
  <2> QED
    BY <2>3, <2>4, <2>5, <2>6, <2>7 DEF SkillInv
<1>3. ASSUME NEW w \in Wears, NEW s \in Skills, StageSkill(w, s) PROVE SkillInv'
  <2>1. PICK t \in WearRecords :
           /\ WearBecomes(w, t) /\ Begun(t, wear[w]) /\ wear[w].pc = "staging" /\ t.pc = "staging"
           /\ t.backup = wear[w].backup /\ t.installed = wear[w].installed
           /\ t.moving = wear[w].moving
           /\ t.staged = [wear[w].staged EXCEPT ![s] = checkout]
    BY <1>0, <1>3, StageFacts
  <2>2. /\ active' = active /\ listed' = listed /\ torn' = torn /\ reported' = reported
        /\ mishaps' = mishaps /\ checkout' = checkout
    BY <1>3 DEF StageSkill
  <2>3. SkillTypeOK'
    BY <1>0, <1>t, <2>1, <2>2 DEF WearBecomes
  <2>4. LockSound'
    BY <2>1, LockKept DEF Holding
  <2>0. Installing(w) /\ InstallSound(wear[w])
    BY <1>i, <1>s, <2>1 DEF Holding
  <2>5. InstallsSound'
    <3>1. \A x \in Skills : SwapSound(t, x)'
      BY <2>0, <2>1, <2>2 DEF SwapSound, InstallSound, Begun
    <3>2. InstallSound(t)'
      BY <2>0, <2>1, <2>2, <3>1 DEF InstallSound, Present, Begun
    <3> QED
      BY <2>1, <2>2, <3>2, InstallsKept
  <2>6. NoOrphanSkills'
    BY <2>1 DEF NoOrphanSkills, WearBecomes, Installing
  <2>7. FloorsSound'
    <3>1. \A b \in Nat : b <= checkout /\ NotBelow(wear[w].staged, b) => NotBelow(t.staged, b)
      BY <1>n, <1>r, <2>1 DEF NotBelow
    <3>2. \A b \in Versions : NotBelow(active, b)' <=> NotBelow(active, b)
      BY <2>2 DEF NotBelow
    <3>3. t.head = wear[w].head /\ t.before = wear[w].before
      BY <2>1 DEF Begun
    <3>4. NotBelow(t.staged, t.head)
      BY <1>f, <1>r, <2>0, <3>1, <3>3
    <3>5. ~torn => \A b \in Versions : Floor(b)' =>
           /\ NotBelow(active, b)'
           /\ NotBelow(t.before, b) /\ NotBelow(t.staged, b) /\ Floor(b)
      BY <1>g, <1>h, <2>0, <2>1, <2>2, <3>1, <3>2, <3>3, SkillIds
    <3> QED
      BY <1>0, <1>n, <1>r, <2>1, <2>2, <3>3, <3>4, <3>5, FloorsKept
  <2> QED
    BY <2>3, <2>4, <2>5, <2>6, <2>7 DEF SkillInv
<1>4. ASSUME NEW w \in Wears, NEW s \in Skills, BackUpSkill(w, s) PROVE SkillInv'
  <2>1. PICK t \in WearRecords :
           /\ WearBecomes(w, t) /\ Begun(t, wear[w]) /\ t.pc = "placing"
           /\ t.staged = wear[w].staged /\ t.installed = wear[w].installed
           /\ t.moving = {s} /\ s \in t.desired \ t.installed
           /\ t.backup = [wear[w].backup EXCEPT ![s] = active[s]]
           /\ \/ wear[w].pc = "staging" /\ wear[w].desired \subseteq Present(wear[w].staged)
              \/ wear[w].pc = "swapping"
    BY <1>0, <1>4, BackUpFacts
  <2>2. /\ active' = [active EXCEPT ![s] = 0]
        /\ listed' = listed /\ torn' = torn /\ reported' = reported
        /\ mishaps' = mishaps /\ checkout' = checkout
    BY <1>4 DEF BackUpSkill
  <2>a. \A x \in Skills : active'[x] = IF x = s THEN 0 ELSE active[x]
    BY <1>0, <2>2
  <2>3. SkillTypeOK'
    BY <1>0, <1>t, <2>1, <2>2, SkillIds DEF WearBecomes
  <2>0. Installing(w) /\ InstallSound(wear[w])
    BY <1>i, <1>s, <2>1 DEF Holding
  <2>4. LockSound'
    BY <1>i, <2>0, <2>1, LockKept
  <2>5. InstallsSound'
    <3>1. \A x \in Skills : SwapSound(wear[w], x)
      BY <2>0, <2>1 DEF InstallSound
    <3>2. \A x \in Skills : SwapSound(t, x)'
      <4> SUFFICES ASSUME NEW x \in Skills PROVE SwapSound(t, x)'
        OBVIOUS
      <4>1. t.backup[x] = (IF x = s THEN active[s] ELSE wear[w].backup[x]) /\ t.before = wear[w].before
        BY <1>r, <2>1 DEF Begun
      <4>2. wear[w].pc # "placing"
        BY <2>1
      <4>3. CASE x = s
        BY <2>1, <2>a, <3>1, <4>1, <4>2, <4>3 DEF SwapSound
      <4>4. CASE x # s
        BY <2>1, <2>a, <3>1, <4>1, <4>2, <4>4 DEF SwapSound
      <4> QED
        BY <4>3, <4>4
    <3>3. t.desired \subseteq Present(t.staged)
      BY <2>0, <2>1 DEF InstallSound, Begun
    <3>4. InstallSound(t)'
      BY <2>0, <2>1, <2>2, <3>2, <3>3 DEF InstallSound, Present, Begun
    <3> QED
      BY <1>i, <2>0, <2>1, <3>4, InstallsKept
  <2>6. NoOrphanSkills'
    BY <2>1 DEF NoOrphanSkills, WearBecomes, Installing
  <2>7. FloorsSound'
    <3>2. \A b \in Versions : NotBelow(active, b) => NotBelow(active, b)'
      BY <2>a DEF NotBelow
    <3>3. t.head = wear[w].head /\ t.before = wear[w].before
      BY <2>1 DEF Begun
    <3>5. ~torn => \A b \in Versions : Floor(b)' =>
           /\ NotBelow(active, b)'
           /\ NotBelow(t.before, b) /\ NotBelow(t.staged, b) /\ Floor(b)
      BY <1>g, <1>h, <2>0, <2>1, <2>2, <3>2, <3>3
    <3>6. NotBelow(t.staged, t.head)
      BY <1>f, <2>0, <2>1, <3>3
    <3>7. /\ checkout' \in Heads /\ checkout' >= checkout /\ reported' <= checkout'
          /\ t.head <= checkout' /\ torn' = torn /\ WearBecomes(w, t)
      BY <1>0, <1>n, <1>r, <2>1, <2>2, <3>3
    <3> QED
      BY <3>5, <3>6, <3>7, FloorsKept
  <2> QED
    BY <2>3, <2>4, <2>5, <2>6, <2>7 DEF SkillInv
<1>5. ASSUME NEW w \in Wears, NEW s \in Skills, PlaceSkill(w, s) PROVE SkillInv'
  <2>1. PICK t \in WearRecords :
           /\ WearBecomes(w, t) /\ Begun(t, wear[w]) /\ wear[w].pc = "placing" /\ s \in wear[w].moving
           /\ t.pc \in {"cleaning", "swapping"}
           /\ t.staged = wear[w].staged /\ t.backup = wear[w].backup
           /\ t.installed = wear[w].installed \union {s}
           /\ active' = [active EXCEPT ![s] = t.staged[s]]
    BY <1>0, <1>5, PlaceFacts
  <2>2. /\ listed' = listed /\ torn' = torn /\ reported' = reported
        /\ mishaps' = mishaps /\ checkout' = checkout
    BY <1>5 DEF PlaceSkill
  <2>a. \A x \in Skills : active'[x] = IF x = s THEN t.staged[s] ELSE active[x]
    BY <1>0, <2>1
  <2>3. SkillTypeOK'
    <3>1. t.staged[s] \in Versions
      BY <1>r, <2>1
    <3> QED
      BY <1>0, <1>t, <2>1, <2>2, <3>1 DEF WearBecomes
  <2>0. Installing(w) /\ InstallSound(wear[w])
    BY <1>i, <1>s, <2>1 DEF Holding
  <2>m. /\ wear[w].moving = {s} /\ s \in wear[w].desired /\ s \notin wear[w].installed
        /\ wear[w].desired \subseteq Present(wear[w].staged)
        /\ \A x \in Skills : SwapSound(wear[w], x)
    BY <2>0, <2>1 DEF InstallSound
  <2>n. t.staged[s] # 0
    BY <2>1, <2>m DEF Present
  <2>4. LockSound'
    BY <1>i, <2>0, <2>1, LockKept
  <2>5. InstallsSound'
    <3>2. \A x \in Skills : SwapSound(t, x)'
      <4> SUFFICES ASSUME NEW x \in Skills PROVE SwapSound(t, x)'
        OBVIOUS
      <4>1. t.before = wear[w].before /\ SwapSound(wear[w], x)
        BY <2>1, <2>m DEF Begun
      <4>3. CASE x = s
        BY <2>1, <2>a, <2>m, <2>n, <4>1, <4>3 DEF SwapSound
      <4>4. CASE x # s
        BY <2>1, <2>a, <2>m, <4>1, <4>4 DEF SwapSound
      <4> QED
        BY <4>3, <4>4
    <3>3. t.desired \subseteq Present(t.staged)
      BY <2>1, <2>m DEF Begun
    <3>4. \A x \in t.installed : active'[x] = t.staged[x] /\ active'[x] # 0
      BY <1>r, <2>1, <3>2 DEF SwapSound
    <3>5. \A x \in Skills \ t.installed : active'[x] = t.before[x]
      BY <2>1, <3>2 DEF SwapSound
    <3>6. /\ t.previous = listed' /\ (~torn' => Present(t.before) = t.previous)
      BY <2>0, <2>1, <2>2 DEF InstallSound, Begun
    <3>7. InstallSound(t)'
      BY <2>1, <3>2, <3>3, <3>4, <3>5, <3>6 DEF InstallSound, Present
    <3> QED
      BY <1>i, <2>0, <2>1, <3>7, InstallsKept
  <2>6. NoOrphanSkills'
    BY <2>1 DEF NoOrphanSkills, WearBecomes, Installing
  <2>7. FloorsSound'
    <3>2. \A b \in Versions : NotBelow(active, b) /\ NotBelow(wear[w].staged, b) => NotBelow(active, b)'
      BY <2>1, <2>a DEF NotBelow
    <3>3. t.head = wear[w].head /\ t.before = wear[w].before
      BY <2>1 DEF Begun
    <3>5. ~torn => \A b \in Versions : Floor(b)' =>
           /\ NotBelow(active, b)'
           /\ NotBelow(t.before, b) /\ NotBelow(t.staged, b) /\ Floor(b)
      BY <1>g, <1>h, <2>0, <2>1, <2>2, <3>2, <3>3
    <3>6. NotBelow(t.staged, t.head)
      BY <1>f, <2>0, <2>1, <3>3
    <3>7. /\ checkout' \in Heads /\ checkout' >= checkout /\ reported' <= checkout'
          /\ t.head <= checkout' /\ torn' = torn /\ WearBecomes(w, t)
      BY <1>0, <1>n, <1>r, <2>1, <2>2, <3>3
    <3> QED
      BY <3>5, <3>6, <3>7, FloorsKept
  <2> QED
    BY <2>3, <2>4, <2>5, <2>6, <2>7 DEF SkillInv

<1>6. ASSUME NEW w \in Wears, RollBack(w) PROVE SkillInv'
  <2>m. MovesTo(w, "failed")
    BY <1>6 DEF RollBack, MovesTo
  <2>1. PICK t \in WearRecords :
           /\ WearBecomes(w, t) /\ Begun(t, wear[w]) /\ t.pc = "failed"
           /\ t.staged = wear[w].staged
    BY <1>0, <2>m, MovesOn DEF WearStates
  <2>2. /\ active' = wear[w].before
        /\ listed' = listed /\ torn' = torn /\ reported' = reported
        /\ checkout' = checkout /\ mishaps' \in 0 .. MaxMishaps
    BY <1>0, <1>6, RollsBackAll, MishapTypes DEF RollBack
  <2>3. SkillTypeOK'
    BY <1>0, <1>r, <1>t, <2>1, <2>2 DEF WearBecomes
  <2>0. Installing(w) /\ InstallSound(wear[w])
    BY <1>i, <1>s, <1>6 DEF RollBack, Holding
  <2>4. LockSound'
    BY <2>1, LockKept DEF Holding
  <2>5. InstallsSound'
    BY <1>i, <2>0, <2>1, InstallsKept DEF Holding
  <2>6. NoOrphanSkills'
    <3>1. ~torn => Present(wear[w].before) = listed
      BY <2>0 DEF InstallSound
    <3> QED
      BY <2>2, <3>1 DEF NoOrphanSkills, Present
  <2>7. FloorsSound'
    <3>2. \A b \in Versions : NotBelow(wear[w].before, b) => NotBelow(active, b)'
      BY <2>2 DEF NotBelow
    <3>3. t.head = wear[w].head
      BY <2>1 DEF Begun
    <3>5. ~torn => \A b \in Versions : Floor(b)' => NotBelow(active, b)' /\ Floor(b)
      BY <1>g, <1>h, <2>0, <2>1, <2>2, <3>2
    <3>7. /\ checkout' \in Heads /\ checkout' >= checkout /\ reported' <= checkout'
          /\ t.head <= checkout' /\ torn' = torn /\ WearBecomes(w, t) /\ t.pc \notin Holding
      BY <1>0, <1>n, <1>r, <2>1, <2>2, <3>3 DEF Holding
    <3> QED
      BY <3>5, <3>7, FloorsKept
  <2> QED
    BY <2>3, <2>4, <2>5, <2>6, <2>7 DEF SkillInv
<1>7. ASSUME NEW w \in Wears, RollBackFails(w) PROVE SkillInv'
  <2>m. MovesTo(w, "recovery")
    BY <1>7 DEF RollBackFails, MovesTo
  <2>1. PICK t \in WearRecords :
           /\ WearBecomes(w, t) /\ Begun(t, wear[w]) /\ t.pc = "recovery"
    BY <1>0, <2>m, MovesOn DEF WearStates
  <2>2. /\ listed' = listed /\ torn' = TRUE /\ reported' = reported
        /\ checkout' = checkout /\ mishaps' \in 0 .. MaxMishaps
    BY <1>0, <1>7, MishapTypes DEF RollBackFails
  <2>a. active' \in [Skills -> Versions]
    <3>1. PICK kept \in SUBSET wear[w].installed :
            active' = [s \in Skills |-> IF s \in wear[w].installed \ kept THEN 0 ELSE active[s]]
      BY <1>7 DEF RollBackFails
    <3> QED
      BY <1>0, <3>1, SkillIds
  <2>3. SkillTypeOK'
    BY <1>0, <1>t, <2>1, <2>2, <2>a DEF WearBecomes
  <2>0. Installing(w) /\ wear[w].pc \in Holding
    BY <1>i, <1>7 DEF RollBackFails, Holding
  <2>4. LockSound'
    BY <2>1, LockKept DEF Holding
  <2>5. InstallsSound'
    BY <2>0, <2>1, InstallsKept DEF Holding
  <2>6. NoOrphanSkills'
    BY <2>2 DEF NoOrphanSkills
  <2>7. FloorsSound'
    <3>3. t.head = wear[w].head
      BY <2>1 DEF Begun
    <3> QED
      BY <1>0, <1>n, <1>r, <2>1, <2>2, <3>3, FloorsKept DEF Holding
  <2> QED
    BY <2>3, <2>4, <2>5, <2>6, <2>7 DEF SkillInv
<1>8. ASSUME NEW w \in Wears, CleanStale(w) PROVE SkillInv'
  <2>m. MovesTo(w, "recording")
    BY <1>8 DEF CleanStale, MovesTo
  <2>1. PICK t \in WearRecords :
           /\ WearBecomes(w, t) /\ Begun(t, wear[w]) /\ t.pc = "recording"
           /\ t.staged = wear[w].staged /\ t.installed = wear[w].installed
    BY <1>0, <2>m, MovesOn DEF WearStates
  <2> DEFINE stale == wear[w].previous \ wear[w].installed
  <2>2. PICK kept \in SUBSET stale :
          /\ (kept = {} /\ UNCHANGED <<torn, mishaps>>) \/ (kept # {} /\ Mishap /\ torn' = TRUE)
          /\ active' = [s \in Skills |-> IF s \in stale \ kept THEN 0 ELSE active[s]]
    BY <1>8 DEF CleanStale
  <2>c. /\ listed' = listed /\ reported' = reported /\ checkout' = checkout
        /\ wear[w].pc = "cleaning"
    BY <1>8 DEF CleanStale
  <2>a. active' \in [Skills -> Versions]
        /\ \A x \in Skills : active'[x] = IF x \in stale \ kept THEN 0 ELSE active[x]
    BY <1>0, <2>2, SkillIds
  <2>b. mishaps' \in 0 .. MaxMishaps /\ torn' \in BOOLEAN
    BY <1>0, <2>2, MishapTypes
  <2>d. ~torn' => ~torn /\ kept = {}
    BY <2>2
  <2> HIDE DEF stale
  <2>3. SkillTypeOK'
    BY <1>0, <1>t, <2>1, <2>a, <2>b, <2>c DEF WearBecomes
  <2>0. Installing(w) /\ InstallSound(wear[w])
    BY <1>i, <1>s, <2>c DEF Holding
  <2>4. LockSound'
    BY <1>i, <2>0, <2>1, LockKept
  <2>5. InstallsSound'
    <3>1. \A x \in t.installed : active'[x] = t.staged[x] /\ active'[x] # 0
      BY <1>r, <2>0, <2>1, <2>a, <2>c DEF InstallSound, stale
    <3>2. ~torn' => Present(active') = t.installed
      <4> SUFFICES ASSUME ~torn' PROVE Present(active') = t.installed
        OBVIOUS
      <4>1. kept = {} /\ Present(wear[w].before) = wear[w].previous
        BY <2>0, <2>d DEF InstallSound
      <4>2. \A x \in Skills \ wear[w].installed : active[x] = wear[w].before[x]
        BY <2>0, <2>c DEF InstallSound
      <4>3. \A x \in Skills \ t.installed : active'[x] = 0
        BY <2>1, <2>a, <4>1, <4>2 DEF stale, Present
      <4> QED
        BY <1>r, <2>1, <3>1, <4>3 DEF Present
    <3>3. /\ t.previous = listed' /\ (~torn' => Present(t.before) = t.previous)
      BY <2>0, <2>1, <2>c, <2>d DEF InstallSound, Begun
    <3>4. InstallSound(t)'
      BY <2>1, <3>1, <3>2, <3>3 DEF InstallSound, Present
    <3> QED
      BY <1>i, <2>0, <2>1, <3>4, InstallsKept
  <2>6. NoOrphanSkills'
    BY <2>1 DEF NoOrphanSkills, WearBecomes, Installing
  <2>7. FloorsSound'
    <3>2. \A b \in Versions : NotBelow(active, b) => NotBelow(active, b)'
      BY <2>a DEF NotBelow
    <3>3. t.head = wear[w].head /\ t.before = wear[w].before
      BY <2>1 DEF Begun
    <3>5. ~torn' => \A b \in Versions : Floor(b)' =>
           /\ NotBelow(active, b)'
           /\ NotBelow(t.before, b) /\ NotBelow(t.staged, b) /\ Floor(b)
      BY <1>g, <1>h, <2>0, <2>1, <2>c, <2>d, <3>2, <3>3
    <3> QED
      BY <1>0, <1>f, <1>n, <1>r, <2>0, <2>1, <2>c, <2>d, <3>3, <3>5, FloorsKept
  <2> QED
    BY <2>3, <2>4, <2>5, <2>6, <2>7 DEF SkillInv
<1>9. ASSUME NEW w \in Wears, NothingToInstall(w) PROVE SkillInv'
  <2>m. MovesTo(w, "cleaning")
    BY <1>9 DEF NothingToInstall, MovesTo
  <2>1. PICK t \in WearRecords :
           /\ WearBecomes(w, t) /\ Begun(t, wear[w]) /\ t.pc = "cleaning"
           /\ t.staged = wear[w].staged /\ t.installed = wear[w].installed
    BY <1>0, <2>m, MovesOn DEF WearStates
  <2>2. /\ active' = active /\ listed' = listed /\ torn' = torn /\ reported' = reported
        /\ mishaps' = mishaps /\ checkout' = checkout /\ wear[w].pc = "staging"
    BY <1>9 DEF NothingToInstall
  <2>3. SkillTypeOK'
    BY <1>0, <1>t, <2>1, <2>2 DEF WearBecomes
  <2>0. Installing(w) /\ InstallSound(wear[w])
    BY <1>i, <1>s, <2>2 DEF Holding
  <2>4. LockSound'
    BY <1>i, <2>0, <2>1, LockKept
  <2>5. InstallsSound'
    <3>1. t.installed = {} /\ \A x \in Skills : active[x] = t.before[x]
      BY <2>0, <2>1, <2>2 DEF InstallSound, SwapSound, Begun
    <3>4. InstallSound(t)'
      BY <2>0, <2>1, <2>2, <3>1 DEF InstallSound, Present, Begun
    <3> QED
      BY <1>i, <2>0, <2>1, <3>4, InstallsKept
  <2>6. NoOrphanSkills'
    BY <2>1 DEF NoOrphanSkills, WearBecomes, Installing
  <2>7. FloorsSound'
    <3>2. \A b \in Versions : NotBelow(active, b) => NotBelow(active, b)'
      BY <2>2 DEF NotBelow
    <3>3. t.head = wear[w].head /\ t.before = wear[w].before
      BY <2>1 DEF Begun
    <3>5. ~torn' => \A b \in Versions : Floor(b)' =>
           /\ NotBelow(active, b)'
           /\ NotBelow(t.before, b) /\ NotBelow(t.staged, b) /\ Floor(b)
      BY <1>g, <1>h, <2>0, <2>1, <2>2, <3>2, <3>3
    <3>6. NotBelow(t.staged, t.head)
      BY <1>f, <2>0, <2>1, <3>3
    <3>7. /\ checkout' \in Heads /\ checkout' >= checkout /\ reported' <= checkout'
          /\ t.head <= checkout' /\ torn' = torn /\ WearBecomes(w, t)
      BY <1>0, <1>n, <1>r, <2>1, <2>2, <3>3
    <3> QED
      BY <3>5, <3>6, <3>7, FloorsKept
  <2> QED
    BY <2>3, <2>4, <2>5, <2>6, <2>7 DEF SkillInv
<1>10. ASSUME NEW w \in Wears, RecordInstall(w) PROVE SkillInv'
  <2>1. /\ active' = active /\ reported' = reported /\ checkout' = checkout
        /\ wear[w].pc = "recording"
    BY <1>10 DEF RecordInstall
  <2>0. Installing(w) /\ InstallSound(wear[w])
    BY <1>i, <1>s, <2>1 DEF Holding
  <2>2. CASE listed' = wear[w].installed /\ wear' = [wear EXCEPT ![w].pc = "installed"]
             /\ UNCHANGED <<torn, mishaps>>
    <3>m. MovesTo(w, "installed")
      BY <2>2 DEF MovesTo
    <3>1. PICK t \in WearRecords :
             /\ WearBecomes(w, t) /\ Begun(t, wear[w]) /\ t.pc = "installed"
      BY <1>0, <3>m, MovesOn DEF WearStates
    <3>2. SkillTypeOK'
      BY <1>0, <1>r, <1>t, <2>1, <2>2, <3>1 DEF WearBecomes
    <3>3. LockSound' /\ InstallsSound'
      BY <1>i, <2>0, <3>1, LockKept, InstallsKept DEF Holding
    <3>4. NoOrphanSkills'
      BY <2>0, <2>1, <2>2 DEF NoOrphanSkills, InstallSound, Present
    <3>5. FloorsSound'
      <4>1. t.head = wear[w].head
        BY <3>1 DEF Begun
      <4>2. \A b \in Versions : NotBelow(active, b)' <=> NotBelow(active, b)
        BY <2>1 DEF NotBelow
      <4>3. \A b \in Versions : Floor(b)' => Floor(b) \/ b = wear[w].head
        BY <2>1, <3>1, <4>1 DEF Floor, WearBecomes
      <4>4. ~torn => NotBelow(active, wear[w].head)
        <5>1. \A s \in Skills : ~torn /\ active[s] # 0 => active[s] = wear[w].staged[s]
          BY <2>0, <2>1 DEF InstallSound, Present
        <5> QED
          BY <1>f, <2>0, <5>1 DEF NotBelow
      <4>5. \A v \in Wears \ {w} : ~Installing(v)
        BY <1>l, <2>0
      <4> QED
        BY <1>0, <1>g, <1>n, <1>r, <2>1, <2>2, <3>1, <4>1, <4>2, <4>3, <4>4, <4>5, FloorsKept DEF Holding
    <3> QED
      BY <3>2, <3>3, <3>4, <3>5 DEF SkillInv
  <2>3. CASE Mishap /\ torn' = TRUE /\ wear' = [wear EXCEPT ![w].pc = "failed"] /\ UNCHANGED listed
    <3>m. MovesTo(w, "failed")
      BY <2>3 DEF MovesTo
    <3>1. PICK t \in WearRecords :
             /\ WearBecomes(w, t) /\ Begun(t, wear[w]) /\ t.pc = "failed"
      BY <1>0, <3>m, MovesOn DEF WearStates
    <3>2. SkillTypeOK'
      BY <1>0, <1>t, <2>1, <2>3, <3>1, MishapTypes DEF WearBecomes
    <3>3. LockSound' /\ InstallsSound'
      BY <1>i, <2>0, <3>1, LockKept, InstallsKept DEF Holding
    <3>4. NoOrphanSkills'
      BY <2>3 DEF NoOrphanSkills
    <3>5. FloorsSound'
      <4>1. t.head = wear[w].head
        BY <3>1 DEF Begun
      <4> QED
        BY <1>0, <1>n, <1>r, <2>1, <2>3, <3>1, <4>1, FloorsKept DEF Holding
    <3> QED
      BY <3>2, <3>3, <3>4, <3>5 DEF SkillInv
  <2> QED
    BY <1>10, <2>2, <2>3 DEF RecordInstall
<1>11. ASSUME NEW w \in Wears, ReportHead(w) PROVE SkillInv'
  <2>m. MovesTo(w, "done")
    BY <1>11 DEF ReportHead, MovesTo
  <2>1. PICK t \in WearRecords :
           /\ WearBecomes(w, t) /\ Begun(t, wear[w]) /\ t.pc = "done"
    BY <1>0, <2>m, MovesOn DEF WearStates
  <2>2. /\ active' = active /\ listed' = listed /\ torn' = torn /\ reported' = wear[w].head
        /\ mishaps' = mishaps /\ checkout' = checkout /\ wear[w].pc = "installed"
    BY <1>11 DEF ReportHead
  <2>3. SkillTypeOK'
    <3>1. wear[w].head \in Versions
      BY <1>r DEF WearRecords
    <3> QED
      BY <1>0, <1>t, <2>1, <2>2, <3>1 DEF WearBecomes
  <2>4. LockSound' /\ InstallsSound'
    BY <2>1, <2>2, LockKept, InstallsKept DEF Holding
  <2>6. NoOrphanSkills'
    BY <1>0, <1>i, <2>1, <2>2 DEF NoOrphanSkills, Present, WearBecomes, Installing
  <2>7. FloorsSound'
    <3>1. t.head = wear[w].head
      BY <2>1 DEF Begun
    <3>2. \A b \in Versions : NotBelow(active, b)' <=> NotBelow(active, b)
      BY <2>2 DEF NotBelow
    <3>3. \A b \in Versions : Floor(b)' => Floor(b)
      BY <2>1, <2>2 DEF Floor, WearBecomes
    <3> QED
      BY <1>0, <1>g, <1>n, <1>r, <2>1, <2>2, <3>1, <3>2, <3>3, FloorsKept DEF Holding
  <2> QED
    BY <2>3, <2>4, <2>6, <2>7 DEF SkillInv
<1>12. ASSUME NEW w \in Wears, WearDies(w) PROVE SkillInv'
  <2>m. MovesTo(w, "dead")
    BY <1>12 DEF WearDies, MovesTo
  <2>1. PICK t \in WearRecords :
           /\ WearBecomes(w, t) /\ Begun(t, wear[w]) /\ t.pc = "dead"
    BY <1>0, <2>m, MovesOn DEF WearStates
  <2>2. /\ active' = active /\ listed' = listed /\ torn' = (torn \/ Installing(w))
        /\ reported' = reported /\ checkout' = checkout /\ mishaps' \in 0 .. MaxMishaps
    BY <1>0, <1>12, MishapTypes DEF WearDies
  <2>a. torn' \in BOOLEAN /\ (~torn' => ~torn /\ ~Installing(w) /\ torn' = torn)
    BY <1>0, <2>2
  <2>3. SkillTypeOK'
    BY <1>0, <1>t, <2>1, <2>2, <2>a DEF WearBecomes
  <2>4. LockSound'
    BY <2>1, LockKept DEF Holding
  <2>5. InstallsSound'
    <3>1. wear[w].pc \in Holding \/ torn' = torn
      BY <1>0, <1>i, <2>2
    <3> QED
      BY <2>1, <2>2, <3>1, InstallsKept DEF Holding
  <2>6. NoOrphanSkills'
    <3>1. ~torn' => \A v \in Wears : Installing(v) => Installing(v)'
      BY <1>i, <2>1, <2>a DEF WearBecomes, Installing
    <3> QED
      BY <1>0, <2>2, <2>a, <3>1 DEF NoOrphanSkills, Present
  <2>7. FloorsSound'
    <3>1. t.head = wear[w].head
      BY <2>1 DEF Begun
    <3>2. \A b \in Versions : NotBelow(active, b)' <=> NotBelow(active, b)
      BY <2>2 DEF NotBelow
    <3>3. \A b \in Versions : Floor(b)' => Floor(b)
      BY <1>h, <2>1, <2>2
    <3>5. ~torn' => \A b \in Versions : Floor(b)' => NotBelow(active, b)' /\ Floor(b)
      BY <1>g, <2>a, <3>2, <3>3
    <3>7. /\ checkout' \in Heads /\ checkout' >= checkout /\ reported' <= checkout'
          /\ t.head <= checkout' /\ (~torn' => ~torn) /\ WearBecomes(w, t) /\ t.pc \notin Holding
      BY <1>0, <1>n, <1>r, <2>1, <2>2, <2>a, <3>1 DEF Holding
    <3> QED
      BY <3>5, <3>7, FloorsKept
  <2> QED
    BY <2>3, <2>4, <2>5, <2>6, <2>7 DEF SkillInv
<1>13. CASE UNCHANGED skillVars
  <2>1. SkillTypeOK' /\ NoOrphanSkills'
    BY <1>0, <1>t, <1>13 DEF skillVars, NoOrphanSkills, Present, Installing
  <2>2. LockSound'
    BY <1>0, <1>13 DEF skillVars, LockSound, Installing, Missing
  <2>3. InstallsSound'
    BY <1>0, <1>13 DEF skillVars, InstallsSound, InstallSound, SwapSound, Present
  <2>4. FloorsSound'
    BY <1>0, <1>13 DEF skillVars, FloorsSound, Floor, NotBelow, Installing
  <2> QED
    BY <2>1, <2>2, <2>3, <2>4 DEF SkillInv
<1> QED
  BY <1>1, <1>2, <1>3, <1>4, <1>5, <1>6, <1>7, <1>8, <1>9, <1>10, <1>11, <1>12, <1>13
     DEF SkillNext, InstallStep

\* The skills' invariant holds throughout.
LEMMA SkillAlways == SkillSpec => []SkillInv
BY SkillsBegin, SkillStep, PTL DEF SkillSpec

\* For any number of calls, skills and mishaps: the variables stay in their sets
\* (hats/skill_installer.py).
THEOREM SkillTypeOKHolds == SkillSpec => []SkillTypeOK
<1>1. SkillInv => SkillTypeOK
  BY DEF SkillInv
<1> QED
  BY <1>1, SkillAlways, PTL

\* For any number of calls, skills and mishaps: the active skills are the listed
\* ones while no call installs, unless an installation was torn (skill_installer.py).
THEOREM NoOrphanSkillsHolds == SkillSpec => []NoOrphanSkills
<1>1. SkillInv => NoOrphanSkills
  BY DEF SkillInv
<1> QED
  BY <1>1, SkillAlways, PTL

\* For any number of calls, skills and mishaps: the platform is told of no commit
\* newer than the skills that are active (hats/tool.py _wear_hat).
THEOREM ReportIsNotAheadHolds == SkillSpec => []ReportIsNotAhead
<1>1. SkillInv => ReportIsNotAhead
  <2>1. SkillInv => reported \in Versions
    BY SkillTypes DEF SkillInv
  <2> QED
    BY <2>1 DEF SkillInv, FloorsSound, Floor, NotBelow, ReportIsNotAhead
<1> QED
  BY <1>1, SkillAlways, PTL

\* For any number of calls, skills and mishaps: an installation that fails leaves
\* the active skills as they were (skill_installer.py).
THEOREM FailedInstallHolds == SkillSpec => FailedInstallChangesNothing
<1> DEFINE A == \A w \in Wears :
             wear[w].pc \in {"staging", "swapping", "placing"} /\ wear'[w].pc = "failed"
               => active' = wear[w].before
<1>1. SkillInv /\ [SkillNext]_skillVars => [A]_skillVars
  <2> SUFFICES ASSUME SkillInv, SkillNext, NEW w \in Wears,
                      wear[w].pc \in {"staging", "swapping", "placing"}, wear'[w].pc = "failed"
               PROVE  active' = wear[w].before
    OBVIOUS
  <2>0. SkillTypeOK /\ wear \in [Wears -> WearRecords]
    BY SkillTypes DEF SkillInv
  <2>1. PICK v \in Wears : WearChecksOut(v) \/ InstallStep(v) \/ RollBackFails(v) \/ WearDies(v)
    BY DEF SkillNext
  <2>2. ASSUME NEW pc \in WearStates, MovesTo(v, pc), pc # "failed"
        PROVE  FALSE
    <3>1. PICK t \in WearRecords : WearBecomes(v, t) /\ t.pc = pc
      BY <2>0, <2>2, MovesOn
    <3> QED
      BY <2>2, <3>1 DEF WearBecomes
  <2>3. ASSUME NEW t \in WearRecords, WearBecomes(v, t), t.pc # "failed" PROVE FALSE
    BY <2>3 DEF WearBecomes
  <2>4. ~WearChecksOut(v)
    BY <2>0, <2>3, ChecksOutFacts
  <2>5. ~InstallBegins(v)
    BY <2>0, <2>3, InstallBeginsFacts
  <2>6. \A s \in Skills : ~StageSkill(v, s) /\ ~BackUpSkill(v, s) /\ ~PlaceSkill(v, s)
    BY <2>0, <2>3, StageFacts, BackUpFacts, PlaceFacts
  <2>7. ~NothingToInstall(v) /\ ~CleanStale(v) /\ ~ReportHead(v) /\ ~RollBackFails(v) /\ ~WearDies(v)
    BY <2>2 DEF NothingToInstall, CleanStale, ReportHead, RollBackFails, WearDies, WearStates, MovesTo
  <2>8. ~RecordInstall(v)
    <3> SUFFICES ASSUME RecordInstall(v) PROVE FALSE
      OBVIOUS
    <3>1. v # w
      BY DEF RecordInstall
    <3>2. wear'[w] = wear[w]
      BY <2>0, <3>1 DEF RecordInstall
    <3> QED
      BY <3>2
  <2>9. RollBack(v)
    BY <2>1, <2>4, <2>5, <2>6, <2>7, <2>8 DEF InstallStep
  <2>10. v = w
    <3>m. MovesTo(v, "failed")
      BY <2>9 DEF RollBack, MovesTo
    <3>1. PICK t \in WearRecords : WearBecomes(v, t)
      BY <2>0, <3>m, MovesOn DEF WearStates
    <3> QED
      BY <3>1 DEF WearBecomes
  <2> QED
    BY <2>9, <2>10, RollsBackAll
<1>2. FailedInstallChangesNothing <=> [][A]_skillVars
  BY DEF FailedInstallChangesNothing
<1> QED
  BY <1>1, <1>2, SkillAlways, PTL DEF SkillSpec

-----------------------------------------------------------------------------
(* The cursor over the mailbox.                                             *)

\* The emails of the Inbox that are older than e.
Older(e) == {f \in box : f < e}

\* Of two emails of the Inbox the older has the smaller rank, and a rank is a
\* number.
LEMMA RankFacts ==
  ASSUME box \subseteq Emails
  PROVE  \A e \in box :
           /\ IsFiniteSet(Older(e))
           /\ Rank(e) \in Nat
           /\ Rank(e) = Cardinality(Older(e))
           /\ \A f \in box : f < e => Rank(f) < Rank(e)
<1>0. box \subseteq Nat
  BY MailCursorAssumption
<1>1. \A e \in box : /\ IsFiniteSet(Older(e))
                     /\ Rank(e) \in Nat
                     /\ Rank(e) = Cardinality(Older(e))
  <2> SUFFICES ASSUME NEW e \in box
               PROVE  /\ IsFiniteSet(Older(e))
                      /\ Rank(e) \in Nat
                      /\ Rank(e) = Cardinality(Older(e))
    OBVIOUS
  <2>0. e \in Nat
    BY <1>0
  <2>1. Older(e) \in SUBSET Nat /\ \A s \in Older(e) : s <= e
    <3>1. \A s \in Older(e) : s \in Nat /\ s < e
      BY <1>0 DEF Older
    <3> QED
      BY <3>1, <2>0
  <2>2. IsFiniteSet(Older(e))
    BY <2>0, <2>1, FS_BoundedSetOfNaturals
  <2>3. Rank(e) = Cardinality(Older(e))
    BY DEF Rank, Older
  <2> QED
    BY <2>2, <2>3, FS_CardinalityType
<1>2. \A e \in box : \A f \in box : f < e => Rank(f) < Rank(e)
  <2> SUFFICES ASSUME NEW e \in box, NEW f \in box, f < e
               PROVE  Rank(f) < Rank(e)
    OBVIOUS
  <2>1. Older(f) \in SUBSET Older(e)
    <3> SUFFICES ASSUME NEW s \in box, s < f PROVE s < e
      BY DEF Older
    <3>1. s \in Nat /\ f \in Nat /\ e \in Nat
      BY <1>0
    <3> QED
      BY <3>1, s < f, f < e
  <2>2. f \in Older(e) /\ f \notin Older(f)
    <3>1. f \in Nat
      BY <1>0
    <3>2. ~(f < f)
      BY <3>1
    <3> QED
      BY <3>2, f < e DEF Older
  <2>3. Cardinality(Older(f)) <= Cardinality(Older(e)) /\ Cardinality(Older(f)) # Cardinality(Older(e))
    BY <2>1, <2>2, <1>1, FS_Subset
  <2> QED
    BY <2>3, <1>1
<1> QED
  BY <1>1, <1>2

\* Two emails of the Inbox never have the same rank.
LEMMA RanksDiffer ==
  ASSUME box \subseteq Emails
  PROVE  \A e, f \in box : Rank(e) = Rank(f) => e = f
<1> SUFFICES ASSUME NEW e \in box, NEW f \in box, Rank(e) = Rank(f), e # f PROVE FALSE
  OBVIOUS
<1>1. e \in Nat /\ f \in Nat
  BY MailCursorAssumption
<1>2. e < f \/ f < e
  BY <1>1, e # f
<1>3. Rank(e) \in Nat /\ Rank(f) \in Nat
  BY RankFacts
<1>4. Rank(e) < Rank(f) \/ Rank(f) < Rank(e)
  BY <1>2, RankFacts
<1> QED
  BY <1>3, <1>4

\* Below an email of the Inbox no rank is left out.
LEMMA RanksAreConsecutive ==
  ASSUME box \subseteq Emails
  PROVE  \A e \in box : \A k \in Nat : k < Rank(e) => \E f \in box : Rank(f) = k
<1> SUFFICES ASSUME NEW e \in box, NEW k \in Nat, k < Rank(e)
             PROVE  \E f \in box : Rank(f) = k
  OBVIOUS
<1> DEFINE T == 0 .. (Rank(e) - 1)
           F == [f \in Older(e) |-> Rank(f)]
<1>1. Rank(e) \in Nat /\ Rank(e) = Cardinality(Older(e))
  BY RankFacts
<1>2. IsFiniteSet(T) /\ Cardinality(T) = Rank(e)
  <2>1. 0 \in Int /\ Rank(e) - 1 \in Int
    BY <1>1
  <2>2. IsFiniteSet(T) /\ Cardinality(T) = IF 0 > Rank(e) - 1 THEN 0 ELSE (Rank(e) - 1) - 0 + 1
    BY <2>1, FS_Interval
  <2> QED
    BY <1>1, <2>2
<1>3. F \in [Older(e) -> T]
  <2> SUFFICES ASSUME NEW f \in Older(e) PROVE Rank(f) \in T
    OBVIOUS
  <2>1. f \in box /\ f < e
    BY DEF Older
  <2>2. Rank(f) \in Nat /\ Rank(f) < Rank(e)
    BY <2>1, RankFacts
  <2> QED
    BY <2>2, <1>1
<1>4. \A a, b \in Older(e) : F[a] = F[b] => a = b
  BY RanksDiffer DEF Older
<1>5. F \in Injection(Older(e), T)
  BY <1>3, <1>4, Fun_IsInj
<1>6. F \in Surjection(Older(e), T)
  BY <1>1, <1>2, <1>5, FS_Injection
<1>7. k \in T
  BY <1>1, k < Rank(e)
<1>8. \A t \in T : \E f \in Older(e) : F[f] = t
  <2> HIDE DEF F, T
  <2> QED
    BY <1>6, Fun_SurjectionProperties
<1>9. PICK f \in Older(e) : F[f] = k
  BY <1>7, <1>8
<1> QED
  BY <1>9 DEF Older

\* A page holds at most PageSize emails, and one that is not full is the last.
LEMMA PageFacts ==
  ASSUME box \subseteq Emails, NEW pos \in Nat
  PROVE  /\ PageAt(pos) \subseteq box
         /\ IsFiniteSet(PageAt(pos))
         /\ Cardinality(PageAt(pos)) \in Nat
         /\ Cardinality(PageAt(pos)) <= PageSize
         /\ \/ Cardinality(PageAt(pos)) = PageSize
            \/ \A e \in box : Rank(e) < pos + PageSize
<1> DEFINE S == PageAt(pos)
           T == pos .. (pos + PageSize - 1)
           F == [f \in S |-> Rank(f)]
<1>0. PageSize \in Nat /\ PageSize # 0
  BY MailCursorAssumption
<1>1. S \subseteq box
  BY DEF PageAt
<1>2. IsFiniteSet(T) /\ Cardinality(T) = PageSize
  BY <1>0, FS_Interval
<1>3. F \in [S -> T]
  <2> SUFFICES ASSUME NEW f \in S PROVE Rank(f) \in T
    OBVIOUS
  <2>1. f \in box /\ pos <= Rank(f) /\ Rank(f) < pos + PageSize
    BY DEF PageAt
  <2>2. Rank(f) \in Nat
    BY <2>1, RankFacts
  <2> QED
    BY <2>1, <2>2, <1>0
<1>4. \A a, b \in S : F[a] = F[b] => a = b
  BY RanksDiffer, <1>1
<1>5. F \in Injection(S, T)
  BY <1>3, <1>4, Fun_IsInj
<1>6. IsFiniteSet(S) /\ Cardinality(S) <= PageSize
  BY <1>2, <1>5, FS_Injection
<1>7. Cardinality(S) \in Nat
  BY <1>6, FS_CardinalityType
<1>8. ASSUME NEW e \in box, ~(Rank(e) < pos + PageSize)
      PROVE  Cardinality(S) = PageSize
  <2>1. Rank(e) \in Nat
    BY RankFacts
  <2>2. \A t \in T : \E s \in S : F[s] = t
    <3> SUFFICES ASSUME NEW t \in T PROVE \E s \in S : F[s] = t
      OBVIOUS
    <3>1. t \in Nat /\ t < Rank(e) /\ pos <= t /\ t < pos + PageSize
      BY <2>1, <1>0, <1>8
    <3>2. PICK f \in box : Rank(f) = t
      BY <3>1, RanksAreConsecutive
    <3>3. f \in S
      BY <3>1, <3>2 DEF PageAt
    <3> QED
      BY <3>2, <3>3
  <2>3. F \in Surjection(S, T)
    BY <1>3, <2>2, Fun_IsSurj
  <2> QED
    BY <1>2, <1>5, <2>3, FS_Injection
<1> QED
  BY <1>1, <1>6, <1>7, <1>8

(* Types. *)

\* The cursor's variables begin in their sets.
LEMMA CursorTypeBegins == Init => TypeOK
BY MailCursorAssumption DEF Init, TypeOK, QueryStates, Cursors, Fresh, NoPage, Unset

\* Every step keeps the types.
LEMMA CursorTypeStep ==
  ASSUME TypeOK, [Next]_vars
  PROVE  TypeOK'
<1> USE MailCursorAssumption DEF TypeOK, QueryStates, Cursors, Unset, server
<1>1. CASE UNCHANGED vars
  BY <1>1 DEF vars
<1>2. ASSUME NEW e \in Emails, EmailEnters(e) PROVE TypeOK'
  BY <1>2 DEF EmailEnters
<1>3. ASSUME NEW e \in Emails, EmailLeaves(e) PROVE TypeOK'
  <2>1. shifted' \subseteq Emails
    BY <1>3 DEF EmailLeaves
  <2> QED
    BY <1>3, <2>1 DEF EmailLeaves
<1>4. CASE HistoryIsTruncated
  BY <1>4 DEF HistoryIsTruncated
<1>5. CASE QueryPage
  <2>1. Cardinality(PageAt(cursor.position)) \in Nat /\ PageAt(cursor.position) \subseteq box
    BY PageFacts
  <2>2. page' \in [ids : SUBSET Emails, next : Cursors]
    <3> DEFINE n == [complete |-> Cardinality(PageAt(cursor.position)) < PageSize,
                     position |-> cursor.position + Cardinality(PageAt(cursor.position)),
                     state    |-> IF cursor.state = Unset THEN state ELSE cursor.state]
    <3>1. n \in Cursors
      BY <2>1
    <3>2. page' = [ids |-> PageAt(cursor.position), next |-> n]
      BY <1>5 DEF QueryPage
    <3>3. PageAt(cursor.position) \subseteq Emails
      BY <2>1
    <3> HIDE DEF n
    <3> QED
      BY <3>1, <3>2, <3>3
  <2> QED
    BY <1>5, <2>2 DEF QueryPage
<1>6. CASE QueryChanges
  BY <1>6 DEF QueryChanges
<1>7. CASE StartOver
  BY <1>7 DEF StartOver, Fresh
<1>8. CASE Ingest
  BY <1>8 DEF Ingest, NoPage, Fresh
<1>9. CASE PageIsLost
  BY <1>9 DEF PageIsLost, NoPage, Fresh
<1> QED
  BY <1>1, <1>2, <1>3, <1>4, <1>5, <1>6, <1>7, <1>8, <1>9 DEF Next, Adapter

\* For any mailbox, page size and number of changes: the variables stay in their
\* sets (channel.py _messages).
THEOREM CursorTypeOKHolds == Spec => []TypeOK
BY CursorTypeBegins, CursorTypeStep, PTL DEF Spec

(* The scan. *)

\* What a cursor promises of the Inbox, given the ids in the ledger.
Promises(c, ids) ==
  /\ c.state <= state
  /\ c.complete => c.state # Unset
  /\ c.state = Unset => c.position = 0
  /\ \A e \in box :
       c.complete \/ (c.state # Unset /\ Rank(e) < c.position) =>
         e \in ids \/ added[e] > c.state \/ e \in shifted

\* The cursor keeps its promise, and the one that waits with a page will keep it
\* once the page is ingested.
ScanSound == Promises(cursor, known) /\ Promises(page.next, known \union page.ids)

CursorInv == TypeOK /\ ScanSound

\* An email that enters the Inbox takes none below its rank.
LEMMA EnteringRaises ==
  ASSUME box \subseteq Emails, NEW x \in Emails, box' = box \union {x}
  PROVE  \A e \in box : Rank(e) <= Rank(e)'
<1> SUFFICES ASSUME NEW e \in box PROVE Rank(e) <= Rank(e)'
  OBVIOUS
<1> DEFINE S == {f \in box : f < e}
           T == {f \in box' : f < e}
<1>1. IsFiniteSet(S)
  BY RankFacts DEF Older
<1>2. T = S \/ T = S \union {x}
  OBVIOUS
<1>3. IsFiniteSet(T) /\ S \in SUBSET T
  <2>1. IsFiniteSet(S \union {x})
    BY <1>1, FS_AddElement
  <2> QED
    BY <1>1, <1>2, <2>1
<1>4. Cardinality(S) <= Cardinality(T)
  BY <1>3, FS_Subset
<1> QED
  BY <1>4 DEF Rank

\* One that leaves takes the newer ones a rank down, and no other.
LEMMA LeavingLowers ==
  ASSUME box \subseteq Emails, NEW x \in box, box' = box \ {x}, NEW e \in box'
  PROVE  /\ Rank(e) \in Nat
         /\ x < e => Rank(e)' = Rank(e) - 1
         /\ ~(x < e) => Rank(e)' = Rank(e)
<1> DEFINE S == {f \in box : f < e}
           T == {f \in box' : f < e}
<1>1. IsFiniteSet(S) /\ Rank(e) \in Nat
  BY RankFacts DEF Older
<1>2. CASE x < e
  <2>1. x \in S /\ T = S \ {x}
    BY <1>2
  <2>2. Cardinality(S \ {x}) = Cardinality(S) - 1
    BY <1>1, <2>1, FS_RemoveElement
  <2> QED
    BY <1>1, <1>2, <2>2 DEF Rank
<1>3. CASE ~(x < e)
  <2>1. T = S
    BY <1>3
  <2> QED
    BY <1>1, <1>3, <2>1 DEF Rank
<1> QED
  BY <1>2, <1>3

\* A promise outlives what happens in the mailbox: what enters has a later state,
\* and what comes to lie below a position of the scan has slipped there.
LEMMA PromiseStays ==
  ASSUME TypeOK, TypeOK',
         NEW c \in {cursor, page.next}, NEW ids, Promises(c, ids),
         \/ \E e \in Emails : EmailEnters(e) \/ EmailLeaves(e)
         \/ UNCHANGED <<box, state, added, shifted>>
  PROVE  Promises(c, ids)'
<1>0. c.state \in Nat /\ state \in Nat /\ box \subseteq Emails /\ c.position \in Nat
  BY MailCursorAssumption DEF TypeOK, Cursors, QueryStates, Unset
<1>e. Emails \subseteq Nat
  BY MailCursorAssumption
<1>1. ASSUME NEW x \in Emails, EmailEnters(x) PROVE Promises(c, ids)'
  <2>1. /\ state' = state + 1 /\ box' = box \union {x} /\ added' = [added EXCEPT ![x] = state']
        /\ shifted' = shifted \ {x}
    BY <1>1 DEF EmailEnters
  <2>2. c.state <= state' /\ c.state < state'
    BY <1>0, <2>1 DEF Promises
  <2>3. ASSUME NEW e \in box', c.complete \/ (c.state # Unset /\ Rank(e)' < c.position)
        PROVE  e \in ids \/ added'[e] > c.state \/ e \in shifted'
    <3>1. CASE e = x
      <4>1. added'[e] = state'
        BY <2>1, <3>1 DEF TypeOK
      <4>2. state' \in Nat
        BY <1>0, <2>1
      <4> QED
        BY <4>1, <4>2, <2>2, <1>0
    <3>2. CASE e # x
      <4>1. e \in box /\ added'[e] = added[e]
        BY <2>1, <3>2 DEF TypeOK
      <4>2. Rank(e) <= Rank(e)' /\ Rank(e) \in Nat
        BY <1>0, <2>1, <4>1, EnteringRaises, RankFacts
      <4>3. Rank(e)' \in Nat
        <5>1. IsFiniteSet({f \in box : f < e})
          BY <1>0, <4>1, RankFacts DEF Older
        <5>2. {f \in box' : f < e} = {f \in box : f < e} \/ {f \in box' : f < e} = {f \in box : f < e} \union {x}
          BY <2>1
        <5>3. IsFiniteSet({f \in box : f < e} \union {x})
          BY <5>1, FS_AddElement
        <5>4. IsFiniteSet({f \in box' : f < e})
          BY <5>1, <5>2, <5>3
        <5> QED
          BY <5>4, FS_CardinalityType DEF Rank
      <4>4. c.complete \/ (c.state # Unset /\ Rank(e) < c.position)
        BY <2>3, <4>2, <4>3, <1>0
      <4> QED
        BY <2>1, <3>2, <4>1, <4>4 DEF Promises
    <3> QED
      BY <3>1, <3>2
  <2> QED
    BY <2>2, <2>3 DEF Promises
<1>2. ASSUME NEW x \in Emails, EmailLeaves(x) PROVE Promises(c, ids)'
  <2>1. /\ state' = state + 1 /\ box' = box \ {x} /\ added' = added /\ x \in box
        /\ shifted' = shifted \union {f \in box : x < f /\ Rank(f) \in ScanPositions}
    BY <1>2 DEF EmailLeaves
  <2>2. c.state <= state'
    BY <1>0, <2>1 DEF Promises
  <2>4. ASSUME NEW e \in box', c.complete \/ (c.state # Unset /\ Rank(e)' < c.position)
        PROVE  e \in ids \/ added'[e] > c.state \/ e \in shifted'
    <3>1. e \in box /\ (c.complete \/ (c.state # Unset /\ Rank(e) < c.position)
                        => e \in ids \/ added[e] > c.state \/ e \in shifted)
      BY <2>1 DEF Promises
    <3>2. /\ Rank(e) \in Nat
          /\ x < e => Rank(e)' = Rank(e) - 1
          /\ ~(x < e) => Rank(e)' = Rank(e)
      BY <1>0, <2>1, LeavingLowers
    <3>3. CASE ~c.complete /\ x < e /\ Rank(e) = c.position
      BY <2>1, <3>1, <3>3 DEF ScanPositions
    <3>4. CASE c.complete \/ ~(x < e) \/ Rank(e) # c.position
      <4>1. c.complete \/ (c.state # Unset /\ Rank(e) < c.position)
        BY <1>0, <2>4, <3>2, <3>4
      <4> QED
        BY <2>1, <3>1, <4>1
    <3> QED
      BY <3>3, <3>4
  <2> QED
    BY <2>2, <2>4 DEF Promises
<1>3. CASE UNCHANGED <<box, state, added, shifted>>
  BY <1>3 DEF Promises, Rank
<1> QED
  BY <1>1, <1>2, <1>3

\* A scan that has not begun has passed over nothing.
LEMMA ScanBegins == Init => CursorInv
BY CursorTypeBegins DEF Init, CursorInv, ScanSound, Promises, NoPage, Fresh, Unset

\* A page of the scan: what it adds reaches exactly as far as its position.
LEMMA QueryPageSound ==
  ASSUME CursorInv, QueryPage
  PROVE  Promises(page.next, known \union page.ids)'
<1> DEFINE pos == cursor.position
           ids == PageAt(cursor.position)
           first == IF cursor.state = Unset THEN state ELSE cursor.state
<1>0. /\ box \subseteq Emails /\ pos \in Nat /\ cursor.state \in Nat /\ state \in Nat /\ state # Unset
      /\ PageSize \in Nat /\ ~cursor.complete
  BY MailCursorAssumption DEF CursorInv, TypeOK, Cursors, QueryStates, Unset, QueryPage
<1>1. /\ page'.ids = ids
      /\ page'.next.complete <=> Cardinality(ids) < PageSize
      /\ page'.next.position = pos + Cardinality(ids)
      /\ page'.next.state = first
      /\ box' = box /\ state' = state /\ added' = added /\ known' = known /\ shifted' = shifted
  BY DEF QueryPage, server
<1>2. /\ Cardinality(ids) \in Nat
      /\ Cardinality(ids) <= PageSize
      /\ Cardinality(ids) = PageSize \/ \A e \in box : Rank(e) < pos + PageSize
  BY <1>0, PageFacts
<1>3. first # Unset /\ first <= state
  BY <1>0 DEF CursorInv, ScanSound, Promises
<1>4. ASSUME NEW e \in box, Cardinality(ids) < PageSize \/ Rank(e) < pos + Cardinality(ids)
      PROVE  e \in known \union ids \/ added[e] > first \/ e \in shifted
  <2>1. Rank(e) \in Nat
    BY <1>0, RankFacts
  <2>2. Rank(e) < pos + PageSize
    BY <1>0, <1>2, <1>4, <2>1
  <2>3. CASE pos <= Rank(e)
    BY <2>2, <2>3 DEF PageAt
  <2>4. CASE Rank(e) < pos
    <3>1. cursor.state # Unset
      BY <2>1, <2>4, <1>0 DEF CursorInv, ScanSound, Promises
    <3> QED
      BY <2>4, <3>1 DEF CursorInv, ScanSound, Promises
  <2> QED
    BY <2>1, <1>0, <2>3, <2>4
<1>5. \A e \in box' : Rank(e)' = Rank(e)
  BY <1>1 DEF Rank
<1> HIDE DEF ids, pos, first
<1> QED
  BY <1>1, <1>2, <1>3, <1>4, <1>5 DEF Promises

\* Every step keeps what the scan has promised.
LEMMA ScanStep ==
  ASSUME CursorInv, [Next]_vars
  PROVE  CursorInv'
<1>1. TypeOK /\ TypeOK'
  BY CursorTypeStep DEF CursorInv
<1>2. cursor \in Cursors /\ page.next \in Cursors
  BY <1>1 DEF TypeOK
<1>3. Promises(cursor, known) /\ Promises(page.next, known \union page.ids)
  BY DEF CursorInv, ScanSound
<1>4. ASSUME \/ \E e \in Emails : EmailEnters(e) \/ EmailLeaves(e)
             \/ UNCHANGED <<box, state, added, shifted>>
      PROVE  \A c \in {cursor, page.next} : \A ids : Promises(c, ids) => Promises(c, ids)'
  BY <1>1, <1>4, PromiseStays
<1>5. Promises(Fresh, known)' /\ Promises(NoPage.next, known \union NoPage.ids)'
  <2>1. state' \in Nat
    BY <1>1, MailCursorAssumption DEF TypeOK, QueryStates
  <2> QED
    BY <2>1 DEF Promises, Fresh, NoPage, Unset
<1>6. CASE \/ UNCHANGED vars
           \/ \E e \in Emails : EmailEnters(e) \/ EmailLeaves(e)
           \/ HistoryIsTruncated
  <2>1. /\ cursor' = cursor /\ known' = known /\ page' = page
        /\ \/ \E e \in Emails : EmailEnters(e) \/ EmailLeaves(e)
           \/ UNCHANGED <<box, state, added, shifted>>
    BY <1>6 DEF vars, EmailEnters, EmailLeaves, HistoryIsTruncated
  <2>2. PICK c0, k0, n0, i0 : c0 = cursor /\ k0 = known /\ n0 = page.next /\ i0 = page.ids
    OBVIOUS
  <2>3. Promises(c0, k0)' /\ Promises(n0, k0 \union i0)'
    BY <1>2, <1>3, <1>4, <2>1, <2>2
  <2>4. ScanSound'
    BY <2>1, <2>2, <2>3 DEF ScanSound, Promises
  <2> QED
    BY <1>1, <2>4 DEF CursorInv
<1>7. CASE QueryPage
  <2>1. UNCHANGED <<box, state, added, shifted>> /\ cursor' = cursor /\ known' = known
    BY <1>7 DEF QueryPage, server
  <2>2. Promises(cursor, known)'
    BY <1>3, <2>1 DEF Promises, Rank
  <2> QED
    BY <1>1, <1>7, <2>2, QueryPageSound DEF CursorInv, ScanSound
<1>8. CASE QueryChanges
  <2>1. UNCHANGED <<box, state, added, shifted>> /\ cursor' = cursor /\ known' = known
    BY <1>8 DEF QueryChanges, server
  <2>2. Promises(cursor, known)'
    BY <1>3, <2>1 DEF Promises, Rank
  <2>3. /\ page'.ids = {e \in box : added[e] > cursor.state}
        /\ page'.next = [complete |-> TRUE, position |-> 0, state |-> state]
        /\ cursor.complete
    BY <1>8 DEF QueryChanges
  <2>4. state \in Nat /\ state # Unset
    BY <1>1, MailCursorAssumption DEF TypeOK, QueryStates, Unset
  <2>5. \A e \in box : e \in known \union page'.ids \/ e \in shifted
    BY <1>3, <2>3 DEF Promises
  <2>6. Promises(page.next, known \union page.ids)'
    BY <2>1, <2>3, <2>4, <2>5 DEF Promises
  <2> QED
    BY <1>1, <2>2, <2>6 DEF CursorInv, ScanSound
<1>9. CASE StartOver
  <2>1. UNCHANGED <<box, state, added>> /\ shifted' = {} /\ cursor' = Fresh /\ known' = known /\ page' = page
    BY <1>9 DEF StartOver
  <2>0. page = NoPage
    BY <1>9 DEF StartOver
  <2>2. Promises(page.next, known \union page.ids)'
    BY <1>5, <2>0, <2>1 DEF Promises
  <2>3. Promises(cursor, known)'
    BY <1>5, <2>1 DEF Promises
  <2> QED
    BY <1>1, <2>2, <2>3 DEF CursorInv, ScanSound
<1>10. CASE Ingest
  <2>1. /\ UNCHANGED <<box, state, added, shifted>>
        /\ cursor' = page.next /\ known' = known \union page.ids /\ page' = NoPage
    BY <1>10 DEF Ingest, server
  <2>2. Promises(cursor, known)'
    BY <1>3, <2>1 DEF Promises, Rank
  <2>3. Promises(page.next, known \union page.ids)'
    BY <1>1, <2>1, MailCursorAssumption DEF Promises, NoPage, Fresh, Unset, TypeOK, QueryStates
  <2> QED
    BY <1>1, <2>2, <2>3 DEF CursorInv, ScanSound
<1>11. CASE PageIsLost
  <2>1. UNCHANGED <<box, state, added, shifted>> /\ cursor' = cursor /\ known' = known /\ page' = NoPage
    BY <1>11 DEF PageIsLost, server
  <2>2. Promises(cursor, known)'
    BY <1>3, <2>1 DEF Promises, Rank
  <2>3. Promises(page.next, known \union page.ids)'
    BY <1>1, <2>1, MailCursorAssumption DEF Promises, NoPage, Fresh, Unset, TypeOK, QueryStates
  <2> QED
    BY <1>1, <2>2, <2>3 DEF CursorInv, ScanSound
<1> QED
  BY <1>6, <1>7, <1>8, <1>9, <1>10, <1>11 DEF Next, Adapter

\* For any mailbox, page size and number of changes, whatever enters or leaves while
\* a scan goes on: no email that was there when the scan began is passed over, and
\* what an unfinished scan has passed is in the ledger, save an email that lay at a
\* position the scan went on from when an older one left (channel.py _messages).
THEOREM NothingSkippedHolds == Spec => [](NothingSkipped /\ PrefixIngested)
<1>1. CursorInv /\ [Next]_vars => CursorInv'
  BY ScanStep
<1>2. CursorInv => NothingSkipped /\ PrefixIngested
  BY DEF CursorInv, ScanSound, Promises, NothingSkipped, PrefixIngested
<1> QED
  BY ScanBegins, <1>1, <1>2, PTL DEF Spec
=============================================================================
