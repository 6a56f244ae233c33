---------------------------- MODULE GeneratedValues ----------------------------
(***************************************************************************)
(* Values that are made once, at random, and that services then depend on:   *)
(* the MAC address of a virtual machine, which its part keeps in a file       *)
(* (random.Mac), and the time of a backup, which the part that makes it       *)
(* forgets (random.Time; random.Integer does the same) and publish-early      *)
(* publishes before a part, here an entry of dcron, is installed with it.     *)
(* Slapgrid may be killed, and a new software release has every part          *)
(* installed again.  Buildout, which removes the file of a part that it       *)
(* uninstalls, and the SlapOS master are external.                           *)
(***************************************************************************)
EXTENDS Integers

CONSTANTS MaxReleases, MaxGenerationKills  \* bounds

ASSUME GenerationAssumption == MaxReleases \in Nat \ {0} /\ MaxGenerationKills \in Nat

VARIABLES
  macFile,     \* what is in storage-path: a value, Blank, or NoStorage
  macPart,     \* .installed.cfg: the options of the part
  vm,          \* the address that the machine last started with; Blank if it never did
  published,   \* the time among the connection parameters
  cronEntry,   \* the time in the entry of dcron; Blank also while it is written
  made,        \* how many values were made
  generation,  \* the pass: its step, and the values it goes with
  release,     \* the software release
  macLost,     \* the file of a machine was lost with the pass that was writing it (history)
  killed

generatedVars == <<macFile, macPart, vm, published, cronEntry, made, generation, release,
                   macLost, killed>>

Blank == 0
NoStorage == -1
NoPart == [mac |-> Blank, release |-> 0]
NoPass == [at |-> "idle", mac |-> Blank, time |-> Blank, release |-> 0]

GenerationInit ==
  /\ macFile = NoStorage /\ macPart = NoPart /\ vm = Blank
  /\ published = Blank /\ cronEntry = Blank /\ made = 0
  /\ generation = NoPass /\ release = 1 /\ macLost = FALSE /\ killed = 0

-----------------------------------------------------------------------------
\* Mac.__init__: an empty file is as good as none.
Mac == IF macFile > 0 THEN macFile ELSE made + 1

\* Time.__init__, or Integer.__init__, with the option that publish-early has set.
Time == IF published # Blank THEN published ELSE made + 2

BeginGeneration ==
  /\ generation.at = "idle"
  /\ generation' = [at |-> "early", mac |-> Mac, time |-> Time, release |-> release]
  /\ made' = made + 2
  /\ UNCHANGED <<macFile, macPart, vm, published, cronEntry, release, macLost, killed>>

\* Mutant: the time is published with the rest, when the pass ends.
PublishTime_Late ==
  /\ generation.at = "early"
  /\ generation' = [generation EXCEPT !.at = "uninstall"]
  /\ UNCHANGED <<macFile, macPart, vm, published, cronEntry, made, release, macLost, killed>>

\* publish-early.
PublishTime ==
  /\ generation.at = "early"
  /\ published' = generation.time
  /\ generation' = [generation EXCEPT !.at = "uninstall"]
  /\ UNCHANGED <<macFile, macPart, vm, cronEntry, made, release, macLost, killed>>

Options == [mac |-> generation.mac, release |-> generation.release]

UninstallMac ==
  /\ generation.at = "uninstall"
  /\ IF macPart = Options THEN UNCHANGED <<macFile, macPart>>
     ELSE macPart' = NoPart /\ macFile' = IF macPart = NoPart THEN macFile ELSE NoStorage
  /\ generation' = [generation EXCEPT !.at = IF macPart = Options THEN "cron" ELSE "open"]
  /\ UNCHANGED <<vm, published, cronEntry, made, release, macLost, killed>>

OpenMac ==
  /\ generation.at = "open"
  /\ macFile' = Blank
  /\ generation' = [generation EXCEPT !.at = "write"]
  /\ UNCHANGED <<macPart, vm, published, cronEntry, made, release, macLost, killed>>

\* Buildout records a part once it is installed.
InstallMac ==
  /\ generation.at = "write"
  /\ macFile' = generation.mac
  /\ macPart' = Options
  /\ generation' = [generation EXCEPT !.at = "cron"]
  /\ UNCHANGED <<vm, published, cronEntry, made, release, macLost, killed>>

\* dcron.Part, which writes its file again in each pass.
WriteEntry ==
  /\ \/ /\ generation.at = "cron"
        /\ cronEntry' = Blank
        /\ generation' = [generation EXCEPT !.at = "entry"]
     \/ /\ generation.at = "entry"
        /\ cronEntry' = generation.time
        /\ generation' = [generation EXCEPT !.at = "end"]
  /\ UNCHANGED <<macFile, macPart, vm, published, made, release, macLost, killed>>

-----------------------------------------------------------------------------
\* The pass ends: everything is published, and the machine is started.
EndGeneration ==
  /\ generation.at = "end"
  /\ published' = generation.time
  /\ vm' = generation.mac
  /\ generation' = NoPass
  /\ UNCHANGED <<macFile, macPart, cronEntry, made, release, macLost, killed>>

KillGeneration ==
  /\ generation.at # "idle" /\ killed < MaxGenerationKills
  /\ killed' = killed + 1
  /\ generation' = NoPass
  /\ macLost' = (macLost \/ (vm # Blank /\ macFile # vm))
  /\ UNCHANGED <<macFile, macPart, vm, published, cronEntry, made, release>>

NewRelease ==
  /\ generation.at = "idle" /\ release < MaxReleases
  /\ release' = release + 1
  /\ UNCHANGED <<macFile, macPart, vm, published, cronEntry, made, generation, macLost, killed>>

MoreValues == made < 2 * (MaxReleases + MaxGenerationKills + 2)  \* bound on the passes

GenerationNext ==
  \/ MoreValues /\ BeginGeneration
  \/ PublishTime \/ UninstallMac \/ OpenMac \/ InstallMac \/ WriteEntry
  \/ EndGeneration \/ KillGeneration \/ NewRelease

GenerationSpec == GenerationInit /\ [][GenerationNext]_generatedVars

-----------------------------------------------------------------------------
(* Properties. *)

\* What a machine has started with, or dcron has been told, is what every later pass
\* goes with, through kills at any step and new releases; unless slapgrid was killed
\* between the removal of the file of the MAC address and the end of its writing.
NeverRegenerated ==
  generation.at # "idle" =>
    /\ vm # Blank /\ ~macLost => generation.mac = vm
    /\ cronEntry # Blank => generation.time = cronEntry
=============================================================================
