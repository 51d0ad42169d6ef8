------------------------------ MODULE HatStore ------------------------------
(***************************************************************************)
(* The Computer-local store of a Hat's credentials (hats/secrets.py,       *)
(* transfer.py, and the calls of hats/tool.py that change it): saves from  *)
(* workers and tools, the renaming of a Hat's handle, its retirement, and  *)
(* the transfer of a bundle to a consumer.                                 *)
(*                                                                         *)
(* A store is a directory found under the Hat's handle.  It holds the key  *)
(* pair, the sealed store and the file that saves lock; a rename moves     *)
(* all three, so that a process may hold or wait for the lock of a         *)
(* directory that is no longer where its path leads.                       *)
(***************************************************************************)
EXTENDS Naturals, FiniteSets

CONSTANTS
  Savers,      \* processes that save one value each
  NameOf,      \* saver -> the name of its credential
  MaxDirs,     \* bound on the directories ever made
  MaxFaults    \* bound on crashes and failed steps

Handles == {"old", "new"}
Dirs == 1 .. MaxDirs
Renamer == 0
Owners == Savers \union {Renamer}
NoOne == MaxDirs + 100
CredentialNames == {NameOf[p] : p \in Savers}

ASSUME StoreAssumption ==
  /\ Savers \subseteq Nat \ {0, NoOne} /\ IsFiniteSet(Savers)
  /\ DOMAIN NameOf = Savers
  /\ MaxDirs \in Nat \ {0} /\ MaxFaults \in Nat

VARIABLES
  at,       \* handle -> the directory there, 0 for none
  made,     \* directories made so far
  dir,      \* directory -> [key, sealed, handle, names]
  lock,     \* directory -> who holds its secrets.lock
  handle,   \* the Hat's handle at the platform, or "retired"
  task,     \* process -> [pc, path, inode, names]
  told,     \* handle -> names whose save under that handle was reported
  sent,     \* names in the bundle sent to a consumer
  strained, \* a save was under way in a directory that moved or was removed, or
            \* under the old handle when a rename found nothing to move
  faults

storeVars == <<at, made, dir, lock, handle, task, told, sent, strained, faults>>

Fault == faults < MaxFaults /\ faults' = faults + 1

Blank == [key |-> "none", sealed |-> FALSE, handle |-> "old", names |-> {}]

\* The directory at a path, made when it is missing.
Made(path) == IF at[path] = 0 THEN made + 1 ELSE at[path]
MakesDir(path) ==
  /\ Made(path) \in Dirs
  /\ at' = [at EXCEPT ![path] = Made(path)]
  /\ made' = IF at[path] = 0 THEN made + 1 ELSE made

\* _read_store and _store_values succeed.
Readable(d, path) ==
  \/ d = 0
  \/ ~dir[d].sealed
  \/ dir[d].handle = path /\ dir[d].key = "both"

Contents(path) ==
  IF at[path] = 0 \/ ~dir[at[path]].sealed THEN {} ELSE dir[at[path]].names

Released(p) == [d \in Dirs |-> IF lock[d] = p THEN NoOne ELSE lock[d]]
Moves(p, pc) == task' = [task EXCEPT ![p].pc = pc]

\* Saves that have chosen their path and are not done.
UnderWay(path) ==
  \E p \in Savers : task[p].path = path
                    /\ task[p].pc \in {"chosen", "waiting", "keys", "half", "writing"}

----------------------------------------------------------------------------
\* set_hat_secret, set_hat_secrets.

\* A worker or a tool call begins with the handle the Hat has then.
SaveBegins(p) ==
  /\ p \in Savers /\ task[p].pc = "idle"
  /\ handle \in Handles
  /\ task' = [task EXCEPT ![p].pc = "chosen", ![p].path = handle]
  /\ UNCHANGED <<at, made, dir, lock, handle, told, sent, strained, faults>>

\* _locked_store opens the lock file of the directory that is there now.
SaveOpens(p) ==
  /\ p \in Savers /\ task[p].pc = "chosen"
  /\ MakesDir(task[p].path)
  /\ task' = [task EXCEPT ![p].pc = "waiting", ![p].inode = Made(task[p].path)]
  /\ UNCHANGED <<dir, lock, handle, told, sent, strained, faults>>

\* Mutant: the store is read before the lock is held.
SaveReadsUnlocked(p) ==
  /\ p \in Savers /\ task[p].pc = "waiting"
  /\ lock' = lock
  /\ task' = [task EXCEPT ![p].pc = "keys",
                          ![p].names = Contents(task[p].path) \union {NameOf[p]}]
  /\ UNCHANGED <<at, made, dir, handle, told, sent, strained, faults>>

\* The lock, then the store as it is found by path.
SaveReads(p) ==
  /\ p \in Savers /\ task[p].pc = "waiting"
  /\ lock[task[p].inode] = NoOne
  /\ LET path == task[p].path IN
     IF Readable(at[path], path)
       THEN /\ lock' = [lock EXCEPT ![task[p].inode] = p]
            /\ task' = [task EXCEPT ![p].pc = "keys",
                                    ![p].names = Contents(path) \union {NameOf[p]}]
       ELSE Moves(p, "failed") /\ UNCHANGED lock
  /\ UNCHANGED <<at, made, dir, handle, told, sent, strained, faults>>

\* ensure_hat_key_pair: two files, the private one first.
SaveFindsKeys(p) ==
  /\ p \in Savers /\ task[p].pc = "keys"
  /\ MakesDir(task[p].path)
  /\ LET d == Made(task[p].path) IN
     \/ dir[d].key = "both" /\ Moves(p, "writing") /\ UNCHANGED <<dir, lock>>
     \/ /\ dir[d].key = "none"
        /\ dir' = [dir EXCEPT ![d].key = "private"]
        /\ Moves(p, "half") /\ UNCHANGED lock
     \/ /\ dir[d].key = "private"
        /\ Moves(p, "failed") /\ lock' = Released(p) /\ UNCHANGED dir
  /\ UNCHANGED <<handle, told, sent, strained, faults>>

SaveWritesPublicKey(p) ==
  /\ p \in Savers /\ task[p].pc = "half"
  /\ LET d == at[task[p].path] IN
     IF d # 0 THEN dir' = [dir EXCEPT ![d].key = "both"] /\ Moves(p, "writing")
                   /\ UNCHANGED lock
     ELSE Moves(p, "failed") /\ lock' = Released(p) /\ UNCHANGED dir
  /\ UNCHANGED <<at, made, handle, told, sent, strained, faults>>

\* _write_store replaces the file at the path; without the directory it fails.
SaveWrites(p) ==
  /\ p \in Savers /\ task[p].pc = "writing"
  /\ LET d == at[task[p].path] IN
     IF d # 0
       THEN /\ dir' = [dir EXCEPT ![d].sealed = TRUE, ![d].handle = task[p].path,
                                  ![d].names = task[p].names]
            /\ told' = [told EXCEPT ![task[p].path] = @ \union {NameOf[p]}]
            /\ Moves(p, "done")
       ELSE Moves(p, "failed") /\ UNCHANGED <<dir, told>>
  /\ lock' = Released(p)
  /\ UNCHANGED <<at, made, handle, sent, strained, faults>>

\* The process dies; the kernel releases its lock.
SaveDies(p) ==
  /\ p \in Savers /\ task[p].pc \in {"chosen", "waiting", "keys", "half", "writing"}
  /\ Fault
  /\ Moves(p, "failed")
  /\ lock' = Released(p)
  /\ UNCHANGED <<at, made, dir, handle, told, sent, strained>>

\* remove_hat_secret, in one step under the lock.
RemoveSecret(n) ==
  /\ handle \in Handles /\ n \in Contents(handle)
  /\ lock[at[handle]] = NoOne /\ Readable(at[handle], handle)
  /\ dir' = [dir EXCEPT ![at[handle]].names = @ \ {n}]
  /\ told' = [told EXCEPT ![handle] = @ \ {n}]
  /\ UNCHANGED <<at, made, lock, handle, task, sent, strained, faults>>

----------------------------------------------------------------------------
\* Renaming: hats(action="update", new_key=...), rename_hat_secret_store.

\* The platform renames first.
RenameStarts ==
  /\ handle = "old" /\ task[Renamer].pc = "idle"
  /\ handle' = "new"
  /\ task' = [task EXCEPT ![Renamer] = [pc |-> "checking", path |-> "old",
                                        inode |-> 0, names |-> {}]]
  /\ UNCHANGED <<at, made, dir, lock, told, sent, strained, faults>>

\* Under the rename lock: nothing to move, a store in the way, or the lock file
\* of the old directory.
RenameChecks ==
  /\ task[Renamer].pc = "checking"
  /\ task' = [task EXCEPT ![Renamer].inode = at["old"],
                          ![Renamer].pc = IF at["old"] = 0 THEN "done"
                                          ELSE IF at["new"] # 0 THEN "failed"
                                          ELSE "waiting"]
  /\ strained' = (strained \/ (at["old"] = 0 /\ UnderWay("old")))
  /\ UNCHANGED <<at, made, dir, lock, handle, told, sent, faults>>

RenameReads ==
  /\ task[Renamer].pc = "waiting"
  /\ lock[task[Renamer].inode] = NoOne
  /\ IF Readable(at["old"], "old")
       THEN /\ lock' = [lock EXCEPT ![task[Renamer].inode] = Renamer]
            /\ task' = [task EXCEPT ![Renamer].pc = "moving",
                                    ![Renamer].names = Contents("old")]
       ELSE Moves(Renamer, "failed") /\ UNCHANGED lock
  /\ UNCHANGED <<at, made, dir, handle, told, sent, strained, faults>>

\* os.replace of the directory.
RenameMoves ==
  /\ task[Renamer].pc = "moving"
  /\ IF at["old"] # 0 /\ at["new"] = 0
       THEN /\ at' = [at EXCEPT !["new"] = at["old"], !["old"] = 0]
            /\ strained' = (strained \/ UnderWay("old"))
            /\ Moves(Renamer, "sealing") /\ UNCHANGED lock
       ELSE /\ Moves(Renamer, "failed") /\ lock' = Released(Renamer)
            /\ UNCHANGED <<at, strained>>
  /\ UNCHANGED <<made, dir, handle, told, sent, faults>>

\* The directory goes back, if the old place is still free.
MovesBack ==
  IF at["new"] # 0 /\ at["old"] = 0
    THEN /\ at' = [at EXCEPT !["old"] = at["new"], !["new"] = 0]
         /\ strained' = (strained \/ UnderWay("new"))
    ELSE strained' = TRUE /\ UNCHANGED at

\* The values, sealed again for the new handle; with half a key pair they cannot be.
RenameSeals ==
  /\ task[Renamer].pc = "sealing"
  /\ LET d == at["new"] IN
     IF d # 0 /\ dir[d].key # "private"
       THEN /\ dir' = [dir EXCEPT ![d] = [key |-> "both", sealed |-> TRUE, handle |-> "new",
                                          names |-> task[Renamer].names]]
            /\ told' = [told EXCEPT !["new"] = @ \union told["old"], !["old"] = {}]
            /\ Moves(Renamer, "done") /\ UNCHANGED <<at, strained>>
       ELSE MovesBack /\ Moves(Renamer, "failed") /\ UNCHANGED <<dir, told>>
  /\ lock' = Released(Renamer)
  /\ UNCHANGED <<made, handle, sent, faults>>

\* Writing fails: the directory goes back and is sealed as it was, if that write
\* does not fail as well.
RenameRollsBack ==
  /\ task[Renamer].pc = "sealing"
  /\ Fault
  /\ MovesBack
  /\ \/ UNCHANGED dir
     \/ /\ at["new"] # 0 /\ at["old"] = 0
        /\ dir' = [dir EXCEPT ![at["new"]] = [key |-> "both", sealed |-> TRUE,
                      handle |-> "old", names |-> task[Renamer].names]]
  /\ Moves(Renamer, "failed")
  /\ lock' = Released(Renamer)
  /\ UNCHANGED <<made, handle, told, sent>>

\* The tool's process dies; after the move the store is sealed for a handle that
\* is not its path's, and a second rename finds nothing to do.
RenameDies ==
  /\ task[Renamer].pc \in {"checking", "waiting", "moving", "sealing"}
  /\ Fault
  /\ strained' = (strained \/ task[Renamer].pc = "sealing")
  /\ Moves(Renamer, "failed")
  /\ lock' = Released(Renamer)
  /\ UNCHANGED <<at, made, dir, handle, told, sent>>

----------------------------------------------------------------------------
\* hats(action="delete"): after the platform's receipt the directories of all
\* handles the Hat had are removed, without their locks.
Retire ==
  /\ handle \in Handles
  /\ task[Renamer].pc \in {"idle", "done", "failed"}
  /\ handle' = "retired"
  /\ at' = [path \in Handles |-> 0]
  /\ told' = [path \in Handles |-> {}]
  /\ strained' = (strained \/ UnderWay("old") \/ UnderWay("new"))
  /\ UNCHANGED <<made, dir, lock, task, sent, faults>>

\* encrypt_hat_secret_bundle_for_public_key: the whole bundle, read under the
\* lock and refused unless it is exactly these names.
ExactBundle(names) ==
  /\ lock[at[handle]] = NoOne
  /\ Readable(at[handle], handle)
  /\ Contents(handle) = names

\* create_authenticated_hat_secret_envelope: sealed for the consumer's key and
\* signed with the Hat's own, which must be the one the platform knows.
SealedFor(names) == dir[at[handle]].sealed /\ ExactBundle(names)

\* complete_hat_credential_transfer, for the names the platform lists.
SendTransfer(names) ==
  /\ handle \in Handles /\ at[handle] # 0 /\ names # {}
  /\ SealedFor(names)
  /\ sent' = names
  /\ UNCHANGED <<at, made, dir, lock, handle, task, told, strained, faults>>

----------------------------------------------------------------------------
StoreInit ==
  /\ at = [path \in Handles |-> 0] /\ made = 0
  /\ dir = [d \in Dirs |-> Blank]
  /\ lock = [d \in Dirs |-> NoOne]
  /\ handle = "old"
  /\ task = [p \in Owners |-> [pc |-> "idle", path |-> "old", inode |-> 0, names |-> {}]]
  /\ told = [path \in Handles |-> {}] /\ sent = {} /\ strained = FALSE /\ faults = 0

SaveStep(p) == SaveOpens(p) \/ SaveReads(p) \/ SaveFindsKeys(p) \/ SaveWritesPublicKey(p) \/ SaveWrites(p)
RenameStep == RenameChecks \/ RenameReads \/ RenameMoves \/ RenameSeals

StoreNext ==
  \/ \E p \in Savers : SaveBegins(p) \/ SaveStep(p) \/ SaveDies(p)
  \/ \E n \in CredentialNames : RemoveSecret(n)
  \/ RenameStarts \/ RenameStep \/ RenameRollsBack \/ RenameDies
  \/ Retire
  \/ \E names \in SUBSET CredentialNames : SendTransfer(names)

----------------------------------------------------------------------------
StoreTypeOK ==
  /\ at \in [Handles -> 0 .. MaxDirs] /\ made \in 0 .. MaxDirs
  /\ dir \in [Dirs -> [key : {"none", "private", "both"}, sealed : BOOLEAN,
                       handle : Handles, names : SUBSET CredentialNames]]
  /\ lock \in [Dirs -> Owners \union {NoOne}]
  /\ handle \in Handles \union {"retired"}
  /\ task \in [Owners -> [pc : {"idle", "chosen", "checking", "waiting", "keys", "half", "writing",
                                "moving", "sealing", "done", "failed"},
                          path : Handles, inode : 0 .. MaxDirs,
                          names : SUBSET CredentialNames]]
  /\ told \in [Handles -> SUBSET CredentialNames] /\ sent \subseteq CredentialNames
  /\ strained \in BOOLEAN /\ faults \in 0 .. MaxFaults

\* The Hat's handle, as the platform has it; or the one before, while the local
\* rename is under way and after it failed: then the local credentials need
\* recovery (hats/tool.py).
Home(path) == path = handle \/ task[Renamer].pc \notin {"idle", "done"}

\* A credential reported as saved can be read under the handle it was saved for,
\* and that is the Hat's: saves do not overwrite each other (_locked_store), and a
\* rename carries them all to the new handle or, when it fails, leaves them all
\* under the old one (rename_hat_secret_store).  A save that is under way while its
\* directory moves, and a crash after the move, are "strained"; between the move
\* and the new seal nothing can read it.
SavedIsReadable ==
  strained \/ task[Renamer].pc = "sealing" \/
    \A path \in Handles : \A n \in told[path] :
      Home(path) /\ n \in Contents(path) /\ Readable(at[path], path)

\* A save waits for the lock of a store or holds it; renames and rollbacks let go.
Saving == \E p \in Savers : task[p].pc \in {"waiting", "keys", "half", "writing"}
=============================================================================
