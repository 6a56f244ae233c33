-------------------------- MODULE UserConfiguration --------------------------
(***************************************************************************)
(* The file of a partition in which a user sets values that the SlapOS       *)
(* master does not know (slapos/recipe/zero_knowledge.py): a part reads it,  *)
(* and another one writes in it what the profile has and the file has not.   *)
(* The user edits it at any moment; slapgrid may be killed, the file system   *)
(* may fail, and a new software release may bring other keys and values.     *)
(* They are external.                                                        *)
(***************************************************************************)
EXTENDS Naturals

CONSTANTS
  ProfileKeys,  \* the keys that the profile may have
  Mixed,        \* those that are not in lower case
  MaxEdits, MaxUpgrades, MaxWriteKills, MaxIOErrors  \* bounds

ASSUME UserAssumption ==
  /\ Mixed \subseteq ProfileKeys
  /\ \A bound \in {MaxEdits, MaxUpgrades, MaxWriteKills, MaxIOErrors} : bound \in Nat

VARIABLES
  profile,   \* profile[k], the value of the profile, or Unknown
  knowledge, \* knowledge[k], what the section has for k in the file, or Unknown
  section,   \* the file has the section
  parser,    \* what the parser has read, what has been set in it, and whether
             \* full_install has done so
  writer,    \* the pass: "idle", "read", "installing", "opened"
  configured,  \* what the partition is configured with
  chosen,    \* chosen[k], the last value that the user set, or Unknown if there is
             \* none, or if what lost it is excepted (history)
  seen,      \* chosen, when the partition was configured, or None if the file could
             \* not be read then (history)
  count      \* edits, upgrades, kills and errors

userVars == <<profile, knowledge, section, parser, writer, configured, chosen, seen, count>>

Unknown == <<"nobody", 0>>
None == [k \in ProfileKeys |-> Unknown]
EmptyParser == [values |-> None, section |-> FALSE, full |-> FALSE]

UserInit ==
  /\ \E keys \in SUBSET ProfileKeys :
       profile = [k \in ProfileKeys |-> IF k \in keys THEN <<"profile", 1>> ELSE Unknown]
  /\ knowledge = None /\ section = FALSE /\ parser = EmptyParser /\ writer = "idle"
  /\ configured = None /\ chosen = None /\ seen = None
  /\ count = [edits |-> 0, upgrades |-> 0, kills |-> 0, errors |-> 0]

-----------------------------------------------------------------------------
\* The parser reads a file that it cannot open as an empty one.
IOFails ==
  /\ count.errors < MaxIOErrors
  /\ count' = [count EXCEPT !.errors = @ + 1]

\* ReadRecipe.__init__: every value of the file becomes an option, over that of the
\* profile; the parser has put its key in lower case.
ReadOptions ==
  /\ writer = "idle"
  /\ writer' = "read"
  /\ \/ /\ configured' = [k \in ProfileKeys |-> IF knowledge[k] # Unknown /\ k \notin Mixed
                                             THEN knowledge[k] ELSE profile[k]]
        /\ seen' = chosen /\ UNCHANGED count
     \/ configured' = profile /\ seen' = None /\ IOFails
  /\ UNCHANGED <<profile, knowledge, section, parser, chosen>>

\* Mutant: the values of the profile win.
Kept_Profile(k) == IF profile[k] # Unknown THEN profile[k] ELSE knowledge[k]

\* What is in the file is kept, and what is not is set; but a key that is not in lower
\* case is never found, and set again.
Kept(k) ==
  IF knowledge[k] = Unknown \/ (k \in Mixed /\ profile[k] # Unknown) THEN profile[k]
  ELSE knowledge[k]

\* WriteRecipe.install; a profile without keys does not ask for the section.
InstallRead ==
  /\ writer = "read" /\ (section \/ profile = None)
  /\ writer' = "installing"
  /\ parser' = [values |-> [k \in ProfileKeys |-> Kept(k)], section |-> section, full |-> FALSE]
  /\ UNCHANGED <<profile, knowledge, section, configured, chosen, seen, count>>

\* full_install: the section is removed, and made with only what the profile has.
Full == [values |-> profile, section |-> TRUE, full |-> TRUE]

\* The section is not in the file, or the file could not be read and seems empty.
FullInstall ==
  /\ writer = "read"
  /\ writer' = "installing"
  /\ \/ ~section /\ profile # None /\ parser' = Full /\ UNCHANGED <<chosen, count>>
     \/ /\ parser' = IF profile = None THEN EmptyParser ELSE Full
        /\ chosen' = None /\ IOFails
  /\ UNCHANGED <<profile, knowledge, section, configured, seen>>

OpenKnowledge ==
  /\ writer = "installing"
  /\ writer' = "opened"
  /\ knowledge' = None /\ section' = FALSE
  /\ UNCHANGED <<profile, parser, configured, chosen, seen, count>>

WriteKnowledge ==
  /\ writer = "opened"
  /\ writer' = "idle"
  /\ knowledge' = parser.values /\ section' = parser.section
  /\ UNCHANGED <<profile, parser, configured, chosen, seen, count>>

\* The file cannot be opened, or written: full_install is called, and if it is the one
\* that fails, the pass ends with the error.
FailWrite ==
  /\ writer \in {"installing", "opened"} /\ IOFails
  /\ IF parser.full THEN writer' = "idle" /\ UNCHANGED parser
     ELSE writer' = "installing" /\ parser' = Full
  /\ chosen' = IF parser.full /\ writer = "installing" THEN chosen ELSE None
  /\ UNCHANGED <<profile, knowledge, section, configured, seen>>

-----------------------------------------------------------------------------
\* The user saves another value, of a key that the profile may not have; it is lost if a
\* pass has read the file and not opened it to write.
Edit(k) ==
  /\ section /\ count.edits < MaxEdits
  /\ count' = [count EXCEPT !.edits = @ + 1]
  /\ knowledge' = [knowledge EXCEPT ![k] = <<"user", count'.edits>>]
  /\ chosen' = [chosen EXCEPT ![k] = IF writer = "installing" THEN Unknown ELSE knowledge'[k]]
  /\ UNCHANGED <<profile, section, parser, writer, configured, seen>>

\* Another software release: a key comes, goes, or has another value.
Upgrade(k) ==
  /\ writer = "idle" /\ count.upgrades < MaxUpgrades
  /\ count' = [count EXCEPT !.upgrades = @ + 1]
  /\ profile' \in {[profile EXCEPT ![k] = v] : v \in {Unknown, <<"profile", count'.upgrades + 1>>}}
  /\ UNCHANGED <<knowledge, section, parser, writer, configured, chosen, seen>>

KillWriter ==
  /\ writer # "idle" /\ count.kills < MaxWriteKills
  /\ count' = [count EXCEPT !.kills = @ + 1]
  /\ chosen' = IF writer = "opened" THEN None ELSE chosen
  /\ writer' = "idle"
  /\ UNCHANGED <<profile, knowledge, section, parser, configured, seen>>

UserNext ==
  \/ ReadOptions \/ InstallRead \/ FullInstall \/ OpenKnowledge \/ WriteKnowledge
  \/ FailWrite \/ KillWriter
  \/ \E k \in ProfileKeys : Edit(k) \/ Upgrade(k)

UserSpec == UserInit /\ [][UserNext]_userVars

-----------------------------------------------------------------------------
(* Properties. *)

\* What a user has set stays in the file through every pass and every software release,
\* whatever the profile says of the same key then, and through the kills, and each pass
\* configures the partition with it; unless he saved it while a pass was between its read
\* and its write, or a later pass was killed there with the file open, or could not read
\* or write the file, and unless the key is not in lower case.
UserKeeps ==
  \A k \in ProfileKeys \ Mixed :
    /\ chosen[k] # Unknown /\ writer # "opened" => knowledge[k] = chosen[k]
    /\ seen[k] # Unknown => configured[k] = seen[k]
=============================================================================
