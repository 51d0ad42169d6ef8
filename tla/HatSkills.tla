----------------------------- MODULE HatSkills ------------------------------
(***************************************************************************)
(* Wearing a Hat (_wear_hat in hats/tool.py): the checkout of its          *)
(* repository, the installation of its skills in Hermes's skill root       *)
(* (hats/skill_installer.py) and the report of the commit to the platform. *)
(* Several sessions may wear the Hat at once; they share one checkout and  *)
(* the installation lock.  Any of them may fail or die at any step.        *)
(***************************************************************************)
EXTENDS Naturals, FiniteSets

CONSTANTS
  Wears,        \* calls of wear or resume_installation
  Skills,
  SkillsAt,     \* commit -> the skills the repository has there
  MaxMishaps    \* bound on crashes and failed steps

Heads == DOMAIN SkillsAt
Versions == {0} \union Heads   \* 0: no such skill

ASSUME SkillsAssumption ==
  /\ Heads \subseteq Nat \ {0} /\ 1 \in Heads
  /\ \A h \in Heads : SkillsAt[h] \subseteq Skills
  /\ IsFiniteSet(Wears) /\ MaxMishaps \in Nat

VARIABLES
  checkout,   \* the commit the shared checkout is at
  active,     \* skill -> the version Hermes would load
  listed,     \* installed_names of the state file
  wear,       \* call -> its progress and its transaction directory
  reported,   \* the commit the platform was last told
  torn,       \* a crash or a failed clean-up has left something behind
  mishaps

skillVars == <<checkout, active, listed, wear, reported, torn, mishaps>>

Missing == [s \in Skills |-> 0]
Present(versions) == {s \in Skills : versions[s] # 0}
Idle == [pc |-> "idle", head |-> 0, desired |-> {}, staged |-> Missing,
         backup |-> Missing, installed |-> {}, moving |-> {},
         before |-> Missing, previous |-> {}]

Installing(w) == wear[w].pc \in {"staging", "swapping", "placing", "cleaning", "recording"}
Mishap == mishaps < MaxMishaps /\ mishaps' = mishaps + 1

----------------------------------------------------------------------------
\* POST wear, or GET installation: nothing to do, a pending assignment and an
\* active installation end the call; run_hat_repository then brings the shared
\* checkout to the newest commit.
WearChecksOut(w) ==
  /\ wear[w].pc = "idle"
  /\ \E h \in Heads :
       /\ h >= checkout
       /\ checkout' = h
       /\ wear' = [wear EXCEPT ![w].pc = "waiting", ![w].head = h]
  /\ UNCHANGED <<active, listed, reported, torn, mishaps>>

\* The lock, the skills the checkout has now, and those of the state file.
InstallBegins(w) ==
  /\ wear[w].pc = "waiting"
  /\ \A v \in Wears : ~Installing(v)
  /\ wear' = [wear EXCEPT ![w].pc = "staging", ![w].desired = SkillsAt[checkout],
                          ![w].before = active, ![w].previous = listed]
  /\ UNCHANGED <<checkout, active, listed, reported, torn, mishaps>>

\* copytree from the checkout as it is by now.
StageSkill(w, s) ==
  /\ wear[w].pc = "staging"
  /\ s \in wear[w].desired /\ wear[w].staged[s] = 0
  /\ s \in SkillsAt[checkout]
  /\ wear' = [wear EXCEPT ![w].staged[s] = checkout]
  /\ UNCHANGED <<checkout, active, listed, reported, torn, mishaps>>

AllStaged(w) == wear[w].desired \subseteq Present(wear[w].staged)

\* The active skill goes to the backups ...
BackUpSkill(w, s) ==
  /\ \/ wear[w].pc = "staging" /\ AllStaged(w)
     \/ wear[w].pc = "swapping"
  /\ s \in wear[w].desired \ wear[w].installed
  /\ wear' = [wear EXCEPT ![w].pc = "placing", ![w].moving = {s},
                          ![w].backup[s] = active[s]]
  /\ active' = [active EXCEPT ![s] = 0]
  /\ UNCHANGED <<checkout, listed, reported, torn, mishaps>>

\* ... and the staged one takes its place.
PlaceSkill(w, s) ==
  /\ wear[w].pc = "placing"
  /\ s \in wear[w].moving
  /\ active' = [active EXCEPT ![s] = wear[w].staged[s]]
  /\ LET installed == wear[w].installed \union {s} IN
     wear' = [wear EXCEPT ![w].installed = installed,
                          ![w].pc = IF installed = wear[w].desired THEN "cleaning" ELSE "swapping"]
  /\ UNCHANGED <<checkout, listed, reported, torn, mishaps>>

\* Mutant: only the skills that were installed come back.
RollsBackInstalledOnly(w) ==
  /\ wear[w].pc \in {"staging", "swapping", "placing"}
  /\ Mishap
  /\ active' = [s \in Skills |-> IF s \in wear[w].installed THEN wear[w].backup[s]
                                 ELSE active[s]]
  /\ wear' = [wear EXCEPT ![w].pc = "failed"]
  /\ UNCHANGED <<checkout, listed, reported, torn>>

\* A package is refused, vanishes from the checkout or cannot be moved: what was
\* installed is removed and the backups are put back.
RollBack(w) ==
  /\ wear[w].pc \in {"staging", "swapping", "placing"}
  /\ \/ Mishap
     \/ /\ wear[w].pc = "staging" /\ ~AllStaged(w)
        /\ ~(wear[w].desired \subseteq SkillsAt[checkout])
        /\ UNCHANGED mishaps
  /\ active' = [s \in Skills |-> IF wear[w].backup[s] # 0 THEN wear[w].backup[s]
                                 ELSE IF s \in wear[w].installed THEN 0 ELSE active[s]]
  /\ wear' = [wear EXCEPT ![w].pc = "failed"]
  /\ UNCHANGED <<checkout, listed, reported, torn>>

\* The rollback fails on the way; the transaction directory is kept.
RollBackFails(w) ==
  /\ wear[w].pc \in {"swapping", "placing"}
  /\ Mishap
  /\ \E kept \in SUBSET wear[w].installed :
       active' = [s \in Skills |-> IF s \in wear[w].installed \ kept THEN 0 ELSE active[s]]
  /\ wear' = [wear EXCEPT ![w].pc = "recovery"]
  /\ torn' = TRUE
  /\ UNCHANGED <<checkout, listed, reported>>

\* Skills of the state file that are no longer there are removed, errors
\* suppressed.
CleanStale(w) ==
  /\ wear[w].pc = "cleaning"
  /\ LET stale == wear[w].previous \ wear[w].installed IN
     \E kept \in SUBSET stale :
       /\ \/ kept = {} /\ UNCHANGED <<torn, mishaps>>
          \/ kept # {} /\ Mishap /\ torn' = TRUE
       /\ active' = [s \in Skills |-> IF s \in stale \ kept THEN 0 ELSE active[s]]
  /\ wear' = [wear EXCEPT ![w].pc = "recording"]
  /\ UNCHANGED <<checkout, listed, reported>>

\* A Hat without skills has nothing to swap.
NothingToInstall(w) ==
  /\ wear[w].pc = "staging" /\ wear[w].desired = {}
  /\ wear' = [wear EXCEPT ![w].pc = "cleaning"]
  /\ UNCHANGED <<checkout, active, listed, reported, torn, mishaps>>

\* The state file, and the end of the lock; the skills stay if it cannot be written.
RecordInstall(w) ==
  /\ wear[w].pc = "recording"
  /\ \/ /\ listed' = wear[w].installed
        /\ wear' = [wear EXCEPT ![w].pc = "installed"]
        /\ UNCHANGED <<torn, mishaps>>
     \/ /\ Mishap /\ torn' = TRUE
        /\ wear' = [wear EXCEPT ![w].pc = "failed"]
        /\ UNCHANGED listed
  /\ UNCHANGED <<checkout, active, reported>>

\* POST installation/skills; the credentials follow (SecretHandoff).
ReportHead(w) ==
  /\ wear[w].pc = "installed"
  /\ reported' = wear[w].head
  /\ wear' = [wear EXCEPT ![w].pc = "done"]
  /\ UNCHANGED <<checkout, active, listed, torn, mishaps>>

\* The process dies: the lock is released, the transaction directory stays.
WearDies(w) ==
  /\ wear[w].pc \in {"waiting", "installed"} \/ Installing(w)
  /\ Mishap
  /\ torn' = (torn \/ Installing(w))
  /\ wear' = [wear EXCEPT ![w].pc = "dead"]
  /\ UNCHANGED <<checkout, active, listed, reported>>

----------------------------------------------------------------------------
SkillInit ==
  /\ checkout = 1 /\ active = Missing /\ listed = {}
  /\ wear = [w \in Wears |-> Idle]
  /\ reported = 0 /\ torn = FALSE /\ mishaps = 0

InstallStep(w) ==
  \/ InstallBegins(w) \/ NothingToInstall(w) \/ RollBack(w)
  \/ \E s \in Skills : StageSkill(w, s) \/ BackUpSkill(w, s) \/ PlaceSkill(w, s)
  \/ CleanStale(w) \/ RecordInstall(w) \/ ReportHead(w)

SkillNext ==
  \E w \in Wears : WearChecksOut(w) \/ InstallStep(w) \/ RollBackFails(w) \/ WearDies(w)

----------------------------------------------------------------------------
SkillTypeOK ==
  /\ checkout \in Heads /\ reported \in Versions /\ torn \in BOOLEAN
  /\ active \in [Skills -> Versions] /\ listed \subseteq Skills
  /\ mishaps \in 0 .. MaxMishaps
  /\ wear \in [Wears -> [pc : {"idle", "waiting", "staging", "swapping", "placing", "cleaning",
                               "recording", "installed", "done", "failed", "recovery", "dead"},
                         head : Versions, desired : SUBSET Skills,
                         staged : [Skills -> Versions], backup : [Skills -> Versions],
                         installed : SUBSET Skills, moving : SUBSET Skills,
                         before : [Skills -> Versions], previous : SUBSET Skills]]

\* An install that fails leaves every skill as it found it: "a malformed later
\* package must not leave an earlier package upgraded" (skill_installer.py).
FailedInstallChangesNothing ==
  [][\A w \in Wears :
       wear[w].pc \in {"staging", "swapping", "placing"} /\ wear'[w].pc = "failed"
         => active' = wear[w].before]_skillVars

\* Between installs the Hat's skills in Hermes are those of the state file, so
\* that the next install can remove the ones its commit dropped.
NoOrphanSkills ==
  torn \/ (\E w \in Wears : Installing(w)) \/ Present(active) = listed

\* The platform is never told a commit newer than the skills that are loaded.
ReportIsNotAhead ==
  torn \/ \A s \in Skills : active[s] # 0 => active[s] >= reported

\* A wear waits for another's installation, or has begun its own.
Wearing ==
  \E w \in Wears : wear[w].pc \notin {"idle", "done", "failed", "recovery", "dead"}
=============================================================================
