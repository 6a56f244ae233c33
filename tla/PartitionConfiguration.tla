------------------------ MODULE PartitionConfiguration ------------------------
(***************************************************************************)
(* A pass of slapgrid on a partition: the recipe slapconfiguration asks the  *)
(* SlapOS master for everything at once, links the volumes of the computer   *)
(* one by one and adds the resources of the partition; switch_softwaretype   *)
(* chooses a profile by the software type and runs a buildout in the         *)
(* buildout, which is given what was read instead of asking again.  The      *)
(* answers, the volumes and the resources change at any moment, and slapgrid *)
(* may be killed.  Buildout and the SlapOS master are external.              *)
(***************************************************************************)
EXTENDS Naturals

CONSTANTS
  Volumes,                                        \* the volumes of the computer
  MaxAnswers, MaxVolumeChanges, MaxPartitionKills  \* bounds

ASSUME PartitionAssumption ==
  MaxAnswers \in Nat \ {0} /\ MaxVolumeChanges \in Nat /\ MaxPartitionKills \in Nat

Types == {"RootSoftwareInstance", "import", "unmapped"}
ResourceNames == {"ipv4-random", "tun"}  \* one that the master may give, and one it does not

VARIABLES
  answer,        \* what the master answers: its number, the software type, the address
  mounted,       \* the volumes that are there, with a directory for the partition
  dataLinks,     \* the links in DATA
  resourceFile,  \* the names that the resource file of the partition has
  conf,          \* the pass, and the options of slap-configuration
  parts,         \* parts[p], the options an installed part was configured with
  changes        \* answers, changes of the volumes, and kills so far

partitionVars == <<answer, mounted, dataLinks, resourceFile, conf, parts, changes>>

NoOptions == [number |-> 0, type |-> "none", storage |-> {}, names |-> <<>>]
Rest == [at |-> "idle", options |-> NoOptions, todo |-> {}, profile |-> "none",
         sub |-> NoOptions]

\* The profiles that the types are mapped to, and the parts of each.
Mapped == {"default", "import"}
Parts(profile) == {"common"} \cup (IF profile = "import" THEN {"importer"} ELSE {"program"})

PartitionInit ==
  /\ answer \in [number : {1}, type : Types, ipv4 : BOOLEAN]
  /\ mounted \in SUBSET Volumes /\ dataLinks = {} /\ resourceFile \in {{}, ResourceNames}
  /\ conf = Rest /\ parts = <<>>
  /\ changes = [volumes |-> 0, kills |-> 0]

-----------------------------------------------------------------------------
(* slapconfiguration *)

\* One call; what it returns is taken apart, and a name without a value is not an option.
Fetch ==
  /\ conf.at \in {"idle", "end"}
  /\ conf' = [Rest EXCEPT !.at = "list",
                !.options = [NoOptions EXCEPT !.number = answer.number, !.type = answer.type,
                  !.names = IF answer.ipv4 THEN [n \in {"ipv4-random"} |-> "master"] ELSE <<>>]]
  /\ UNCHANGED <<answer, mounted, dataLinks, resourceFile, parts, changes>>

ListStorage ==
  /\ conf.at = "list"
  /\ conf' = [conf EXCEPT !.at = "storage", !.todo = mounted]
  /\ UNCHANGED <<answer, mounted, dataLinks, resourceFile, parts, changes>>

\* A link that is there stays as it is; a volume that has gone is passed over.
LinkStorage(v) ==
  /\ conf.at = "storage" /\ v \in conf.todo
  /\ dataLinks' = IF v \in mounted THEN dataLinks \cup {v} ELSE dataLinks
  /\ conf' = [conf EXCEPT !.todo = @ \ {v},
                !.options.storage = IF v \in mounted THEN @ \cup {v} ELSE @]
  /\ UNCHANGED <<answer, mounted, resourceFile, parts, changes>>

\* "be very careful with overriding master's information".
AddResources ==
  /\ conf.at = "storage" /\ conf.todo = {}
  /\ conf' = [conf EXCEPT !.at = "switch",
                !.options.names = [n \in DOMAIN @ \cup resourceFile |->
                                     IF n \in DOMAIN @ THEN @[n] ELSE "resource"]]
  /\ UNCHANGED <<answer, mounted, dataLinks, resourceFile, parts, changes>>

-----------------------------------------------------------------------------
(* switch_softwaretype *)

Profile(type) == IF type = "RootSoftwareInstance" THEN "default" ELSE type

\* "This software type isn't mapped."
Switch ==
  /\ conf.at = "switch"
  /\ conf' = IF Profile(conf.options.type) \in Mapped
             THEN [conf EXCEPT !.at = "sub", !.profile = Profile(conf.options.type)]
             ELSE Rest
  /\ UNCHANGED <<answer, mounted, dataLinks, resourceFile, parts, changes>>

\* Mutant: the slap-configuration of the sub-buildout asks the master again.
NoOp_Fetch ==
  [conf.options EXCEPT !.number = answer.number, !.type = answer.type]

\* The recipe of slap-configuration in the sub-buildout: the options it is handed.
NoOp == conf.options

\* The parts that were installed, by any profile, are in one file: those that go, or
\* whose options have changed, are uninstalled first.
SubBuildout ==
  /\ conf.at = "sub"
  /\ conf' = [conf EXCEPT !.at = "uninstall", !.sub = NoOp]
  /\ UNCHANGED <<answer, mounted, dataLinks, resourceFile, parts, changes>>

Stale == {p \in DOMAIN parts : p \notin Parts(conf.profile) \/ parts[p] # conf.sub}

UninstallStale(p) ==
  /\ conf.at = "uninstall" /\ p \in Stale
  /\ parts' = [q \in DOMAIN parts \ {p} |-> parts[q]]
  /\ UNCHANGED <<answer, mounted, dataLinks, resourceFile, conf, changes>>

InstallMissing(p) ==
  /\ conf.at = "uninstall" /\ Stale = {}
  /\ p \in Parts(conf.profile) \ DOMAIN parts
  /\ parts' = [q \in DOMAIN parts \cup {p} |-> IF q = p THEN conf.sub ELSE parts[q]]
  /\ UNCHANGED <<answer, mounted, dataLinks, resourceFile, conf, changes>>

EndPass ==
  /\ conf.at = "uninstall" /\ DOMAIN parts = Parts(conf.profile) /\ Stale = {}
  /\ conf' = [conf EXCEPT !.at = "end"]
  /\ UNCHANGED <<answer, mounted, dataLinks, resourceFile, parts, changes>>

-----------------------------------------------------------------------------
NewAnswer ==
  /\ answer.number < MaxAnswers
  /\ answer' \in [number : {answer.number + 1}, type : Types, ipv4 : BOOLEAN]
  /\ UNCHANGED <<mounted, dataLinks, resourceFile, conf, parts, changes>>

ChangeVolumes ==
  /\ changes.volumes < MaxVolumeChanges
  /\ changes' = [changes EXCEPT !.volumes = @ + 1]
  /\ mounted' \in SUBSET Volumes \ {mounted}
  /\ UNCHANGED <<answer, dataLinks, resourceFile, conf, parts>>

KillPartition ==
  /\ conf.at \notin {"idle", "end"} /\ changes.kills < MaxPartitionKills
  /\ changes' = [changes EXCEPT !.kills = @ + 1]
  /\ conf' = Rest
  /\ UNCHANGED <<answer, mounted, dataLinks, resourceFile, parts>>

PartitionNext ==
  \/ Fetch \/ ListStorage \/ AddResources \/ Switch \/ SubBuildout \/ EndPass
  \/ \E v \in Volumes : LinkStorage(v)
  \/ \E p \in {"common", "program", "importer"} : UninstallStale(p) \/ InstallMissing(p)
  \/ NewAnswer \/ ChangeVolumes \/ KillPartition

PartitionSpec == PartitionInit /\ [][PartitionNext]_partitionVars

-----------------------------------------------------------------------------
(* Properties. *)

\* When a pass has succeeded, the partition has the parts of one profile, that of the
\* software type of one answer of the master, all configured with that answer and with
\* links that exist; whatever the passes before had installed before they were killed,
\* and whatever changed during this one.
OneConfiguration ==
  conf.at = "end" =>
    \E o \in {parts[p] : p \in DOMAIN parts} :
      /\ parts = [p \in Parts(Profile(o.type)) |-> o]
      /\ o.number = conf.options.number
      /\ o.storage \subseteq dataLinks
=============================================================================
