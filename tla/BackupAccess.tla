----------------------------- MODULE BackupAccess -----------------------------
(***************************************************************************)
(* How the backup server (PBS) of a resilient instance comes to reach the    *)
(* hosts it pulls from and pushes to.  The root requests the PBS, which      *)
(* publishes its ssh key; it gives this key to each host, which authorizes   *)
(* it (recipe dropbear.add_authorized_key) and publishes its address and the *)
(* key of its server; it gives these to the PBS as an entry (a shared        *)
(* instance) for each host, for which the recipe pbs writes known_hosts, a   *)
(* wrapper and a callback.  Each partition is instantiated again and again,  *)
(* at its own pace; a request may fail, and a pass may be killed.  The keys  *)
(* come from the ssh authority, the SlapOS master and slapgrid are external. *)
(***************************************************************************)
EXTENDS Integers, FiniteSets

CONSTANTS
  Hosts,           \* the exporter and the clones
  MaxAccessFaults  \* bound: requests and writes that fail, kills, keys that are lost

ASSUME AccessAssumption == IsFiniteSet(Hosts) /\ MaxAccessFaults \in Nat

Missing == -1   \* not published, or no file
Empty == 0      \* published, or written, without a key
Half == -2      \* a file that was opened and not written yet
ClientKey == 1

VARIABLES
  clientKey,     \* the key of the PBS; Empty before it is made
  serverKey,     \* serverKey[h], the number of the key of h
  clientPublic,  \* what the PBS has published
  serverPublic,  \* serverPublic[h], the key that h has published with its address
  keyParameter,  \* keyParameter[h], 'authorized-key' as the root requested h with it
  entry,         \* entry[h], the parameters of the shared instance of h in the PBS
  authorized,    \* authorized[h], the authorized_keys of h
  newFile,       \* newFile[h], its authorized_keys.new
  knownHosts,    \* knownHosts[h], the key of h in the known_hosts of the PBS
  callbacks,     \* the hosts whose wrapper and callback are there
  installedEntries,  \* the entries the part pbs was last installed with
  rootPass, pbsPass, hostPass,  \* the instantiations that are under way
  accessFaults

requested == <<keyParameter, entry>>
onHosts == <<serverPublic, authorized, newFile, hostPass>>
onPbs == <<clientPublic, knownHosts, callbacks, installedEntries, pbsPass>>
keysMade == <<clientKey, serverKey>>
accessVars == <<keysMade, requested, onHosts, onPbs, rootPass, accessFaults>>

NoEntry == [url |-> FALSE, key |-> Empty]
NoRoot == [at |-> "idle", key |-> Empty, got |-> [h \in Hosts |-> Missing]]
NoPbs == [at |-> "idle", key |-> Empty, known |-> [h \in Hosts |-> Missing]]
NoHost == [at |-> "idle", key |-> Empty, parameter |-> Empty]

AccessInit ==
  /\ clientKey = Empty /\ serverKey = [h \in Hosts |-> Empty]
  /\ clientPublic = Missing /\ serverPublic = [h \in Hosts |-> Missing]
  /\ keyParameter = [h \in Hosts |-> Empty] /\ entry = [h \in Hosts |-> NoEntry]
  /\ authorized = [h \in Hosts |-> Missing] /\ newFile = authorized
  /\ knownHosts = authorized /\ callbacks = {} /\ installedEntries = entry
  /\ rootPass = NoRoot /\ pbsPass = NoPbs /\ hostPass = [h \in Hosts |-> NoHost]
  /\ accessFaults = 0

Faults(n) == accessFaults + n <= MaxAccessFaults /\ accessFaults' = accessFaults + n

-----------------------------------------------------------------------------
(* The root.  Each part requests when it is initialised: that a request fails, or *)
(* returns nothing yet, does not keep the next ones from being made, with what is *)
(* missing left empty.  A killed root makes no more requests.                     *)

Returned(value) == IF value = Missing THEN Empty ELSE value

RequestPbs ==
  /\ rootPass.at = "idle"
  /\ \E fails \in {0, 1} :
       /\ Faults(fails)
       /\ rootPass' = [NoRoot EXCEPT !.at = "hosts",
                         !.key = IF fails = 1 THEN Empty ELSE Returned(clientPublic)]
  /\ UNCHANGED <<keysMade, requested, onHosts, onPbs>>

RequestHosts ==
  /\ rootPass.at = "hosts"
  /\ \E failed \in SUBSET Hosts :
       /\ Faults(Cardinality(failed))
       /\ keyParameter' = [h \in Hosts |-> IF h \in failed THEN keyParameter[h] ELSE rootPass.key]
       /\ rootPass' = [rootPass EXCEPT !.at = "entries",
            !.got = [h \in Hosts |-> IF h \in failed THEN Missing ELSE serverPublic[h]]]
  /\ UNCHANGED <<keysMade, entry, onHosts, onPbs>>

RequestEntries ==
  /\ rootPass.at = "entries"
  /\ \E failed \in SUBSET Hosts :
       /\ Faults(Cardinality(failed))
       /\ entry' = [h \in Hosts |->
            IF h \in failed THEN entry[h]
            ELSE [url |-> rootPass.got[h] # Missing, key |-> Returned(rootPass.got[h])]]
  /\ rootPass' = NoRoot
  /\ UNCHANGED <<keysMade, keyParameter, onHosts, onPbs>>

-----------------------------------------------------------------------------
(* A host. *)

\* Mutant: the new file is opened only if there is none.
HostBegin_Exclusive(h) ==
  /\ hostPass[h].at = "idle"
  /\ LET right == authorized[h] = keyParameter[h] IN
     /\ right \/ newFile[h] = Missing
     /\ newFile' = IF right THEN newFile ELSE [newFile EXCEPT ![h] = Half]
     /\ hostPass' = [hostPass EXCEPT ![h] = [at |-> IF right THEN "publish" ELSE "write",
                                            key |-> serverKey[h], parameter |-> keyParameter[h]]]
  /\ UNCHANGED <<keysMade, requested, serverPublic, authorized, onPbs, rootPass, accessFaults>>

\* The public key is read before any part is installed.  AddAuthorizedKey.install has
\* nothing to do if the file is right; else it opens a new one.
HostBegin(h) ==
  /\ hostPass[h].at = "idle"
  /\ LET right == authorized[h] = keyParameter[h] IN
     /\ newFile' = IF right THEN newFile ELSE [newFile EXCEPT ![h] = Half]
     /\ hostPass' = [hostPass EXCEPT ![h] = [at |-> IF right THEN "publish" ELSE "write",
                                            key |-> serverKey[h], parameter |-> keyParameter[h]]]
  /\ UNCHANGED <<keysMade, requested, serverPublic, authorized, onPbs, rootPass, accessFaults>>

\* A write that fails ends the pass, and leaves no new file.
WriteKey(h) ==
  /\ hostPass[h].at = "write"
  /\ \/ /\ newFile' = [newFile EXCEPT ![h] = hostPass[h].parameter]
        /\ hostPass' = [hostPass EXCEPT ![h].at = "rename"]
        /\ Faults(0)
     \/ /\ newFile' = [newFile EXCEPT ![h] = Missing]
        /\ hostPass' = [hostPass EXCEPT ![h] = NoHost]
        /\ Faults(1)
  /\ UNCHANGED <<keysMade, requested, serverPublic, authorized, onPbs, rootPass>>

RenameKey(h) ==
  /\ hostPass[h].at = "rename"
  /\ authorized' = [authorized EXCEPT ![h] = newFile[h]]
  /\ newFile' = [newFile EXCEPT ![h] = Missing]
  /\ hostPass' = [hostPass EXCEPT ![h].at = "publish"]
  /\ UNCHANGED <<keysMade, requested, serverPublic, onPbs, rootPass, accessFaults>>

PublishHost(h) ==
  /\ hostPass[h].at = "publish"
  /\ serverPublic' = [serverPublic EXCEPT ![h] = hostPass[h].key]
  /\ hostPass' = [hostPass EXCEPT ![h] = NoHost]
  /\ UNCHANGED <<keysMade, requested, authorized, newFile, onPbs, rootPass, accessFaults>>

-----------------------------------------------------------------------------
(* The PBS. *)

\* Buildout uninstalls the part, if its entries have changed: the wrappers and callbacks
\* go, known_hosts stays.
PbsBegin ==
  /\ pbsPass.at = "idle"
  /\ callbacks' = IF entry = installedEntries THEN callbacks ELSE {}
  /\ installedEntries' = entry
  /\ pbsPass' = [NoPbs EXCEPT !.at = "entries", !.key = clientKey]
  /\ UNCHANGED <<keysMade, requested, onHosts, clientPublic, knownHosts, rootPass, accessFaults>>

\* add_slave: an entry that has no address yet is passed over.
Added(done) == {h \in done : installedEntries[h].url}

\* createCallback, for what the notifier is to run.
Callbacks(done) == callbacks \cup Added(done)

\* What was in the file is loaded first.
Known(done) ==
  [h \in Hosts |-> IF h \in Added(done) THEN installedEntries[h].key ELSE knownHosts[h]]

\* KnownHostsFile.__enter__ loads the file, add_slave is called for each entry, and
\* __exit__ dumps what is known, also when an entry failed; opening the file empties it.
AddSlaves ==
  /\ pbsPass.at = "entries"
  /\ \E done \in SUBSET Hosts :
       /\ Faults(IF done = Hosts THEN 0 ELSE 1)
       /\ callbacks' = Callbacks(done)
       /\ pbsPass' = [pbsPass EXCEPT !.known = Known(done),
                                     !.at = IF done = Hosts THEN "dump" ELSE "raise"]
  /\ knownHosts' = [h \in Hosts |-> Missing]
  /\ UNCHANGED <<keysMade, requested, onHosts, clientPublic, installedEntries, rootPass>>

DumpKnownHosts ==
  /\ pbsPass.at \in {"dump", "raise"}
  /\ knownHosts' = pbsPass.known
  /\ pbsPass' = IF pbsPass.at = "raise" THEN NoPbs ELSE [pbsPass EXCEPT !.at = "publish"]
  /\ UNCHANGED <<keysMade, requested, onHosts, clientPublic, callbacks, installedEntries,
                 rootPass, accessFaults>>

PublishPbs ==
  /\ pbsPass.at = "publish"
  /\ clientPublic' = pbsPass.key
  /\ pbsPass' = NoPbs
  /\ UNCHANGED <<keysMade, requested, onHosts, knownHosts, callbacks, installedEntries,
                 rootPass, accessFaults>>

-----------------------------------------------------------------------------
MakeClientKey ==
  /\ clientKey = Empty
  /\ clientKey' = ClientKey
  /\ UNCHANGED <<serverKey, requested, onHosts, onPbs, rootPass, accessFaults>>

MakeServerKey(h) ==
  /\ serverKey[h] = Empty
  /\ serverKey' = [serverKey EXCEPT ![h] = 1]
  /\ UNCHANGED <<clientKey, requested, onHosts, onPbs, rootPass, accessFaults>>

\* The authority makes another one.
LoseServerKey(h) ==
  /\ serverKey[h] # Empty /\ Faults(1)
  /\ serverKey' = [serverKey EXCEPT ![h] = @ + 1]
  /\ UNCHANGED <<clientKey, requested, onHosts, onPbs, rootPass>>

KillAccess ==
  /\ Faults(1)
  /\ \/ rootPass.at # "idle" /\ rootPass' = NoRoot /\ UNCHANGED <<pbsPass, hostPass>>
     \/ pbsPass.at # "idle" /\ pbsPass' = NoPbs /\ UNCHANGED <<rootPass, hostPass>>
     \/ \E h \in Hosts : /\ hostPass[h].at # "idle"
                         /\ hostPass' = [hostPass EXCEPT ![h] = NoHost]
                         /\ UNCHANGED <<rootPass, pbsPass>>
  /\ UNCHANGED <<keysMade, requested, serverPublic, authorized, newFile, clientPublic,
                 knownHosts, callbacks, installedEntries>>

RootStep == RequestPbs \/ RequestHosts \/ RequestEntries
PbsPassStep == PbsBegin \/ AddSlaves \/ DumpKnownHosts \/ PublishPbs
HostStep(h) == HostBegin(h) \/ WriteKey(h) \/ RenameKey(h) \/ PublishHost(h)

AccessNext ==
  \/ RootStep \/ PbsPassStep \/ MakeClientKey \/ KillAccess
  \/ \E h \in Hosts : HostStep(h) \/ MakeServerKey(h) \/ LoseServerKey(h)

\* slapgrid ends the passes of every partition, and the authorities make the keys.
AccessSpec ==
  /\ AccessInit /\ [][AccessNext]_accessVars
  /\ WF_accessVars(RootStep) /\ WF_accessVars(PbsPassStep) /\ WF_accessVars(MakeClientKey)
  /\ \A h \in Hosts : WF_accessVars(HostStep(h)) /\ WF_accessVars(MakeServerKey(h))

-----------------------------------------------------------------------------
(* Properties. *)

\* The PBS can go to h with ssh, and is told of its backups.
Connects(h) ==
  /\ clientKey # Empty /\ authorized[h] = clientKey
  /\ serverKey[h] # Empty /\ knownHosts[h] = serverKey[h]
  /\ h \in callbacks

\* Whatever the order in which the partitions are instantiated, and whatever requests
\* fail, keys are lost and passes are killed, the PBS ends up connected to each host,
\* and stays so although every pass writes its files again; but for the moment when
\* known_hosts is open.
Reaches == \A h \in Hosts : <>[](Connects(h) \/ pbsPass.at \in {"dump", "raise"})
=============================================================================
