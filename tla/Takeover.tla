------------------------------ MODULE Takeover ------------------------------
(***************************************************************************)
(* The takeover of a resilient instance.                                   *)
(*                                                                         *)
(* slapos/recipe/addresiliency/takeover.py runs in the partition of a      *)
(* clone (software type <namebase>-import) and turns it, through the       *)
(* SlapOS master, into the main instance; the root instance, deployed from *)
(* stack/resilient/template-replicated.cfg.in, re-requests the main        *)
(* instance and the clones at each of its own buildout runs.  Three kinds  *)
(* of actor work on the names and software types the master keeps:         *)
(*   - runs of the takeover script, possibly several, in several clones;   *)
(*   - the buildout of the root instance;                                  *)
(*   - slapgrid, which deploys in each partition what the master says.     *)
(***************************************************************************)
EXTENDS Naturals, FiniteSets

CONSTANTS
  Instances,    \* the partitions the master can allocate to this tree
  Main,         \* the reference "<namebase>0": the boss is always number zero
  CloneNames,   \* the references "<namebase>1" .. "<namebase>(nbbackup-1)"
  BrokenNames,  \* the references "broken-<date>" (bounded by TLC, not the code)
  NoName,       \* reference of a partition that is not allocated
  Runs,         \* executions of bin/takeover (bounds how many there are)
  Crashable,    \* the runs that may be killed half-way
  Nobody,       \* value of winner and broken before a run has set them
  Placement     \* the partitions where the tree is first deployed

TreeNames == {Main} \cup CloneNames
Names == TreeNames \cup BrokenNames
Modes == {"export", "import", "frozen"}

ASSUME NamesAssumption ==
  /\ Main \notin CloneNames \cup BrokenNames
  /\ CloneNames \cap BrokenNames = {}
  /\ NoName \notin Names
  /\ Nobody \notin Instances
  /\ Crashable \subseteq Runs
  /\ Placement \in [TreeNames -> Instances]
  /\ \A m, n \in TreeNames : Placement[m] = Placement[n] => m = n

(***************************************************************************)
(* A mode stands for the software type and the requested state, which      *)
(* every request of this stack sets together: export and import instances  *)
(* are requested started, frozen ones stopped.                             *)
(***************************************************************************)
VARIABLES
  name,       \* master: reference of each partition, NoName if free
  mode,       \* master: software type and state requested for it
  deployed,   \* what slapgrid last deployed in the partition
  down,       \* partitions whose computer is lost
  lock,       \* partitions where srv/takeover_triggered exists
  pc,         \* run of the script: the step it takes next
  winner,     \* run of the script: cp_winner, the partition it runs in
  broken,     \* run of the script: cp_broken
  raced       \* the root was processed while names were changing (history)

masterVars == <<name, mode>>
scriptVars == <<pc, winner, broken>>
vars == <<name, mode, deployed, down, lock, pc, winner, broken, raced>>

Steps == {"idle", "request", "renameBroken", "renameWinner", "bang", "lock",
          "done", "failed"}

ModeOf(n) == IF n = Main THEN "export" ELSE "import"

Holder(n) == {i \in Instances : name[i] = n}
Free == Holder(NoName)

\* The master refuses to give a reference that another partition bears.
Available(n, i) == Holder(n) \subseteq {i}

(***************************************************************************)
(* slap's request() is "a settergetter, all at once": it returns the       *)
(* partition that bears the reference, with its type and state set to what *)
(* is asked, and allocates one when there is none.                         *)
(***************************************************************************)
Request(n, m, i) ==
  /\ i \in Holder(n) \/ (Holder(n) = {} /\ i \in Free)
  /\ name' = [name EXCEPT ![i] = n]
  /\ mode' = [mode EXCEPT ![i] = m]

-----------------------------------------------------------------------------
\* The tree as the root has deployed it: the main instance and its clones.
Init ==
  /\ name = [i \in Instances |->
               IF \E n \in TreeNames : Placement[n] = i
               THEN CHOOSE n \in TreeNames : Placement[n] = i
               ELSE NoName]
  /\ mode = [i \in Instances |-> ModeOf(name[i])]
  /\ deployed = [i \in Instances |->
                   IF name[i] = NoName THEN "none" ELSE mode[i]]
  /\ down = {}
  /\ lock = {}
  /\ pc = [r \in Runs |-> "idle"]
  /\ winner = [r \in Runs |-> Nobody]
  /\ broken = [r \in Runs |-> Nobody]
  /\ raced = FALSE

-----------------------------------------------------------------------------
(* bin/takeover, one action per call it makes to the master. *)

\* Someone starts bin/takeover, which only import partitions have.
Start(r) ==
  /\ pc[r] = "idle"
  /\ \E w \in Instances \ down :
       /\ deployed[w] = "import"
       /\ winner' = [winner EXCEPT ![r] = w]
  /\ pc' = [pc EXCEPT ![r] = "request"]
  /\ UNCHANGED <<name, mode, deployed, down, lock, broken, raced>>

\* Mutant: the request does not make the main instance frozen.
RequestBroken_NotFrozen(r) ==
  /\ pc[r] = "request"
  /\ \E i \in Instances :
       Request(Main, "export", i) /\ broken' = [broken EXCEPT ![r] = i]
  /\ pc' = [pc EXCEPT ![r] = "renameBroken"]
  /\ UNCHANGED <<deployed, down, lock, winner, raced>>

\* Mutant: imports are stopped first, before anything is renamed.
RequestBroken_LockFirst(r) ==
  /\ pc[r] = "request"
  /\ \E i \in Instances :
       Request(Main, "frozen", i) /\ broken' = [broken EXCEPT ![r] = i]
  /\ pc' = [pc EXCEPT ![r] = "renameBroken"]
  /\ lock' = lock \cup {winner[r]}
  /\ UNCHANGED <<deployed, down, winner, raced>>

\* cp_broken = cp_winner.request(type frozen, state stopped, <namebase>0)
RequestBroken(r) ==
  /\ pc[r] = "request"
  /\ \E i \in Instances :
       /\ Request(Main, "frozen", i)
       /\ broken' = [broken EXCEPT ![r] = i]
  /\ pc' = [pc EXCEPT ![r] = "renameBroken"]
  /\ UNCHANGED <<deployed, down, lock, winner, raced>>

\* cp_broken.rename("broken-<date>").  The date has a resolution of one second:
\* the reference may be taken, an error the script does not handle.
RenameBroken(r) ==
  /\ pc[r] = "renameBroken"
  /\ \E n \in BrokenNames :
       IF Available(n, broken[r])
       THEN /\ name' = [name EXCEPT ![broken[r]] = n]
            /\ pc' = [pc EXCEPT ![r] = "renameWinner"]
       ELSE /\ pc' = [pc EXCEPT ![r] = "failed"]
            /\ UNCHANGED name
  /\ UNCHANGED <<mode, deployed, down, lock, winner, broken, raced>>

\* Mutant: the partition renamed is the broken one.
RenameWinner_WrongOne(r) ==
  /\ pc[r] = "renameWinner"
  /\ Available(Main, broken[r])
  /\ name' = [name EXCEPT ![broken[r]] = Main]
  /\ pc' = [pc EXCEPT ![r] = "bang"]
  /\ UNCHANGED <<mode, deployed, down, lock, winner, broken, raced>>

\* cp_winner.rename("<namebase>0"), tried again for ever on NotFoundError.
RenameWinner(r) ==
  /\ pc[r] = "renameWinner"
  /\ Available(Main, winner[r])
  /\ name' = [name EXCEPT ![winner[r]] = Main]
  /\ pc' = [pc EXCEPT ![r] = "bang"]
  /\ UNCHANGED <<mode, deployed, down, lock, winner, broken, raced>>

\* cp_winner.bang(): has the root processed soon; it may be at any time anyway.
Bang(r) ==
  /\ pc[r] = "bang"
  /\ pc' = [pc EXCEPT ![r] = "lock"]
  /\ UNCHANGED <<name, mode, deployed, down, lock, winner, broken, raced>>

\* open(takeover_triggered_file_path, 'w').write('')
WriteLock(r) ==
  /\ pc[r] = "lock"
  /\ lock' = lock \cup {winner[r]}
  /\ pc' = [pc EXCEPT ![r] = "done"]
  /\ UNCHANGED <<name, mode, deployed, down, winner, broken, raced>>

ScriptStep(r) ==
  \/ RequestBroken(r) \/ RenameBroken(r) \/ RenameWinner(r)
  \/ Bang(r) \/ WriteLock(r)

Running(r) == pc[r] \notin {"idle", "done", "failed"}

\* The script is killed, or dies of an error of the network or of the master.
Crash(r) ==
  /\ r \in Crashable
  /\ Running(r)
  /\ pc' = [pc EXCEPT ![r] = "failed"]
  /\ UNCHANGED <<name, mode, deployed, down, lock, winner, broken, raced>>

-----------------------------------------------------------------------------
(* The root instance and slapgrid. *)

MidRename == \E r \in Runs : pc[r] \in {"renameBroken", "renameWinner"}

\* Mutant: the root reconfigures the instances it has but creates none.
RootRequest_NoCreation(n) ==
  /\ raced' = (raced \/ MidRename)
  /\ \E i \in Holder(n) : Request(n, ModeOf(n), i)
  /\ UNCHANGED <<deployed, down, lock, pc, winner, broken>>

\* One [request-...] section of the root: buildout makes the request when it
\* initialises the section, in an order that follows their references.
RootRequest(n) ==
  /\ raced' = (raced \/ MidRename)
  /\ \E i \in Instances : Request(n, ModeOf(n), i)
  /\ UNCHANGED <<deployed, down, lock, pc, winner, broken>>

\* slapgrid processes a partition: deploys its software type.
Slapgrid(i) ==
  /\ i \notin down
  /\ name[i] # NoName
  /\ deployed[i] # mode[i]
  /\ deployed' = [deployed EXCEPT ![i] = mode[i]]
  /\ UNCHANGED <<name, mode, down, lock, pc, winner, broken, raced>>

\* The computer of the main instance is lost (at most one: bounds "down").
ComputerDown(i) ==
  /\ down = {}
  /\ name[i] = Main
  /\ down' = {i}
  /\ UNCHANGED <<name, mode, deployed, lock, pc, winner, broken, raced>>

Next ==
  \/ \E r \in Runs : Start(r) \/ ScriptStep(r) \/ Crash(r)
  \/ \E n \in TreeNames : RootRequest(n)
  \/ \E i \in Instances : Slapgrid(i) \/ ComputerDown(i)

Spec == Init /\ [][Next]_vars

(***************************************************************************)
(* Runs that are started go on unless they are killed; slapgrid processes  *)
(* the partitions of live computers, and the root among them, periodically.*)
(* Each actor takes finitely many steps that change something between two  *)
(* steps of another, so nothing more is asked of each run or partition.    *)
(* Nobody has to start a takeover.                                         *)
(***************************************************************************)
Fairness ==
  /\ WF_vars(\E r \in Runs : ScriptStep(r))
  /\ WF_vars(\E n \in TreeNames : RootRequest(n))
  /\ WF_vars(\E i \in Instances : Slapgrid(i))

FairSpec == Spec /\ Fairness

-----------------------------------------------------------------------------
(* Properties *)

\* The type of every variable.
TypeOK ==
  /\ name \in [Instances -> Names \cup {NoName}]
  /\ mode \in [Instances -> Modes]
  /\ deployed \in [Instances -> Modes \cup {"none"}]
  /\ down \subseteq Instances
  /\ lock \subseteq Instances
  /\ pc \in [Runs -> Steps]
  /\ winner \in [Runs -> Instances \cup {Nobody}]
  /\ broken \in [Runs -> Instances \cup {Nobody}]
  /\ raced \in BOOLEAN

\* An instance that serves as a clone still imports: whatever runs of
\* takeover.py were started, killed or restarted, the file that stops imports
\* for good is only in partitions that have left the clones.
ServingCloneImports ==
  \A i \in Instances : name[i] \in CloneNames => i \notin lock

\* The instance that the master has as exporter under the name of the main one is
\* never a new, empty partition, however many takeovers race: it was deployed
\* before.  The script leaves a time without any main instance (takeover.py:59-67),
\* which the root would fill with a new one; so it is when the root is processed in
\* that time, or when a run that set an instance aside died before it renamed its
\* winner.
AllGoOn == ~raced /\ \A r \in Runs : pc[r] # "failed"
MainIsNotNew ==
  AllGoOn => \A i \in Holder(Main) : mode[i] = "export" => deployed[i] # "none"

\* Once takeover.py has set a main instance aside as "broken-<date>", the
\* master has it frozen and stopped: nobody will make it frozen later, as no
\* request ever uses that reference again.
BrokenIsFrozen ==
  \A i \in Instances : name[i] \in BrokenNames => mode[i] = "frozen"

\* It does hold, whatever runs race or are killed, as long as the root has never
\* been processed between the request that freezes and the last rename.
FrozenIfNotRaced == ~raced => BrokenIsFrozen

\* A partition set aside as broken comes back as the main instance only
\* through a run of takeover.py in that very partition.
ReturnsOnlyByItself ==
  \A i \in Instances :
    name[i] \in BrokenNames /\ name'[i] \notin BrokenNames
    => \E r \in Runs : winner[r] = i /\ pc[r] = "renameWinner"
BrokenStaysAside == [][ReturnsOnlyByItself]_vars

\* However many takeovers are started, raced or killed, the tree settles: one
\* main instance deployed as an exporter and one importer for each clone name
\* (those of a lost computer apart): the root creates "a new cp to replace it".
Healthy ==
  \A n \in TreeNames :
    \E i \in Holder(n) : i \in down \/ deployed[i] = ModeOf(n)
Settles == <>[]Healthy

\* "After running slapgrid-cp a few times, the winner takes over": a lone run that
\* has set the old main instance aside, without the root being processed in the
\* meantime, ends with its winner deployed as export (or its computer lost).
Undisturbed(r) == ~raced /\ pc[r] # "failed" /\ \A q \in Runs \ {r} : pc[q] = "idle"
WinnerTakesOver ==
  \A r \in Runs :
    []Undisturbed(r) =>
      (pc[r] = "renameWinner"
       ~> winner[r] \in down \/ (winner[r] # Nobody /\ deployed[winner[r]] = "export"))
=============================================================================
