------------------------------ MODULE WaitFiles ------------------------------
(***************************************************************************)
(* _wait_files_creation (slapos/recipe/librecipe/execute.py): a wrapper    *)
(* waits until a list of files exist before it runs its command.  It tests *)
(* the files one by one, then asks inotify to watch their directories, and *)
(* then follows the events; when inotify has no watch left to give, it     *)
(* tests the files again and again.  Other processes create, rename and    *)
(* delete the files at any time.                                           *)
(***************************************************************************)
EXTENDS Naturals

CONSTANTS
  Files,          \* the files to wait for
  Dirs,           \* their directories
  DirOf,          \* the directory of each file
  MaxChanges,     \* bound: files created or deleted
  WatchesLeft     \* TRUE: inotify always has a watch left to give

ASSUME WaitFilesAssumption ==
  /\ Files # {} /\ Dirs # {}
  /\ DirOf \in [Files -> Dirs]
  /\ MaxChanges \in Nat
  /\ WatchesLeft \in BOOLEAN

VARIABLES
  exists,    \* the files that exist
  pending,   \* the last event of each file that inotify has not delivered
  pc,        \* "check", "watch", "wait" for events, "poll" or "done"
  toCheck,   \* the files check_if_files_exists has still to test
  watched,   \* the directories inotify watches
  known,     \* the files the wrapper takes as existing
  seen,      \* the files that have existed since the wrapper started (history)
  together,  \* they have all existed at the same time (history)
  disturbed, \* a file changed before the wrapper followed the events (history)
  changes

vars == <<exists, pending, pc, toCheck, watched, known, seen, together, disturbed, changes>>

Init ==
  /\ exists \in SUBSET Files
  /\ pending = [f \in Files |-> "none"]
  /\ pc = "check" /\ toCheck = Files
  /\ watched = {} /\ known = {}
  /\ seen = exists
  /\ together = (exists = Files)
  /\ disturbed = FALSE
  /\ changes = 0

-----------------------------------------------------------------------------
(* The wrapper. *)

\* os.path.lexists, for one file, in the first pass or in a pass of the polling.
CheckFile(f) ==
  /\ pc \in {"check", "poll"}
  /\ f \in toCheck
  /\ known' = IF f \in exists THEN known \cup {f} ELSE known \ {f}
  /\ toCheck' = toCheck \ {f}
  /\ UNCHANGED <<exists, pending, pc, watched, seen, together, disturbed, changes>>

StartWatching ==
  /\ pc = "check" /\ toCheck = {}
  /\ pc' = "watch"
  /\ UNCHANGED <<exists, pending, toCheck, watched, known, seen, together, disturbed, changes>>

AddWatch(d) ==
  /\ pc = "watch"
  /\ d \in Dirs \ watched
  /\ watched' = watched \cup {d}
  /\ UNCHANGED <<exists, pending, pc, toCheck, known, seen, together, disturbed, changes>>

\* ENOSPC or EMFILE: the events of the watches already added will not be read.
AddWatchFails ==
  /\ pc = "watch" /\ watched # Dirs /\ ~WatchesLeft
  /\ pc' = "poll"
  /\ watched' = {}
  /\ pending' = [f \in Files |-> "none"]
  /\ UNCHANGED <<exists, toCheck, known, seen, together, disturbed, changes>>

StartWaiting ==
  /\ pc = "watch" /\ watched = Dirs
  /\ pc' = "wait"
  /\ UNCHANGED <<exists, pending, toCheck, watched, known, seen, together, disturbed, changes>>

\* Mutant: any event of a file stands for its creation.
Created_Any == {f \in Files : pending[f] # "none"}

\* event.mask & (CREATE | MOVED_TO)
Created == {f \in Files : pending[f] = "created"}

\* One read delivers all the pending events, in order; then the files are counted.
ReadEvents ==
  /\ pc = "wait" /\ known # Files
  /\ \E f \in Files : pending[f] # "none"
  /\ known' = {f \in Files : pending[f] = "none" /\ f \in known} \cup Created
  /\ pending' = [f \in Files |-> "none"]
  /\ UNCHANGED <<exists, pc, toCheck, watched, seen, together, disturbed, changes>>

\* Mutant: the polling loop sleeps and tests nothing again.
PollAgain_Sleep ==
  /\ pc = "poll" /\ toCheck = {} /\ known # Files
  /\ UNCHANGED vars

\* time.sleep(0.1), then every file is tested again.
PollAgain ==
  /\ pc = "poll" /\ toCheck = {} /\ known # Files
  /\ toCheck' = Files
  /\ UNCHANGED <<exists, pending, pc, watched, known, seen, together, disturbed, changes>>

\* all_files_exists
Finish ==
  /\ pc = "wait" \/ (pc = "poll" /\ toCheck = {})
  /\ known = Files
  /\ pc' = "done"
  /\ UNCHANGED <<exists, pending, toCheck, watched, known, seen, together, disturbed, changes>>

-----------------------------------------------------------------------------
(* The other processes, and inotify. *)

MayChange ==
  /\ changes < MaxChanges
  /\ disturbed' = (disturbed \/ pc \in {"check", "watch"})
  /\ changes' = changes + 1

\* CREATE and MOVED_TO, DELETE and MOVED_FROM in a watched directory.
Notice(f, event) ==
  pending' = IF DirOf[f] \in watched THEN [pending EXCEPT ![f] = event] ELSE pending

CreateFile(f) ==
  /\ MayChange
  /\ f \notin exists
  /\ exists' = exists \cup {f}
  /\ Notice(f, "created")
  /\ seen' = seen \cup {f}
  /\ together' = (together \/ exists' = Files)
  /\ UNCHANGED <<pc, toCheck, watched, known>>

DeleteFile(f) ==
  /\ MayChange
  /\ f \in exists
  /\ exists' = exists \ {f}
  /\ Notice(f, "deleted")
  /\ UNCHANGED <<pc, toCheck, watched, known, seen, together>>

-----------------------------------------------------------------------------
Wrapper ==
  \/ \E f \in Files : CheckFile(f)
  \/ \E d \in Dirs : AddWatch(d)
  \/ StartWatching \/ AddWatchFails \/ StartWaiting
  \/ ReadEvents \/ PollAgain \/ Finish

Others == \E f \in Files : CreateFile(f) \/ DeleteFile(f)

Next == Wrapper \/ Others

Spec == Init /\ [][Next]_vars

\* The wrapper is a process that goes on.
FairSpec == Spec /\ WF_vars(Wrapper)

-----------------------------------------------------------------------------
(* Properties *)

\* The types.
TypeOK ==
  /\ exists \subseteq Files /\ seen \subseteq Files /\ known \subseteq Files
  /\ pending \in [Files -> {"none", "created", "deleted"}]
  /\ pc \in {"check", "watch", "wait", "poll", "done"}
  /\ toCheck \subseteq Files
  /\ watched \subseteq Dirs
  /\ together \in BOOLEAN /\ disturbed \in BOOLEAN
  /\ changes \in 0..MaxChanges

\* The command never runs before each file has been there, whether the wrapper
\* followed events or polled, and whatever it missed.
EachExisted == pc = "done" => seen = Files

\* A wrapper that follows events, and that nothing disturbed before, knows a true
\* state of the disk: it runs its command only if all the files were there at the
\* same time.
AllTogether == pc = "done" /\ watched = Dirs /\ ~disturbed => together

\* "so that we don't miss an event": what is known and what inotify has still
\* to deliver make up the state of the disk, if the files did not change before
\* the wrapper followed the events.
NothingMissed ==
  pc = "wait" /\ ~disturbed =>
    \A f \in Files :
      f \in exists <=> \/ pending[f] = "created"
                       \/ (pending[f] = "none" /\ f \in known)

\* Files that are there for good let the command run.
Ends == <>[](exists = Files) => <>(pc = "done")

\* They do when they did not change before the wrapper followed the events, and
\* whatever they did if it ends up polling.
EndsIfQuiet == []~disturbed \/ <>(pc = "poll") => Ends
=============================================================================
