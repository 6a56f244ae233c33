# Verification of the resilient stack and of the recipes' runtime

This directory holds TLA+ specifications of the parts of this repository that are programs with
a protocol of their own, TLC configurations that check them on small instances, and proofs, checked
by TLAPS, that the main results hold for every value of the constants.

The repository is mostly declarative: about five hundred build recipes (`component/`), some seventy
software profiles (`software/`) and the profiles they share (`stack/`). What runs, keeps state and
talks to something else is in `slapos/recipe` (Python recipes, and the scripts they install), in
`stack/resilient` (the scripts and profiles that replicate an instance) and in a few programs under
`software/` (theia, the kvm scripts, the kernel of jupyter, rapid-cdn). Those are what is modelled.

Contents: [system](#1-the-system) · [modules](#2-the-modules) · [runs](#3-the-runs) ·
[fairness](#4-fairness) · [proofs](#5-the-proofs) ·
[disagreements](#6-where-the-code-disagrees-with-what-is-said-of-it) ·
[limits](#7-what-is-not-modelled) · [plan](#8-plan)

## 1. The system

### Components

| component | state it keeps | operations | what makes it correct |
|---|---|---|---|
| takeover (`recipe/addresiliency/takeover.py`) with the root instance (`stack/resilient/template-replicated.cfg.in`) | in the SlapOS master: reference, software type and requested state of each partition; in a clone: `srv/takeover_triggered` | one run of the script: freeze the old main instance, rename it, rename the winner, bang, write the lock; the root requests the main instance and the clones at each of its own runs; slapgrid deploys | the main instance is one that was deployed before, never an empty new one; the old one stays frozen and aside; the tree settles with one exporter; a failed takeover does not stop a serving clone from importing |
| backup pipeline (`recipe/pbs.py`, `notifier.py`, `equeue.py`, `stack/resilient/pbsready-*.cfg.in`, `software/kvm/template/kvm-*.sh.jinja2`) | backup directory, signature and disk image; rdiff-backup repository; feeds; queue, lock and timestamp database of three equeues | export and sign, pull, recover from a torn pull, clean, push, check, import, notify | nothing is replaced by older data; an image is one signed snapshot if no push changed the backup under its import; the clone catches up |
| access of the backup server (`template-replicated.cfg.in`, `recipe/dropbear.py`, `pbs.py`) | keys, `authorized_keys`, `known_hosts`, wrappers and callbacks in three partitions | each partition publishes what the others need, the root passes it on | the server reaches every host and is told of its backups |
| export and import of theia (`software/theia/theia_*.py`) | partitions, slapproxy, signatures | copy, sign, check; verify, stop, restore, rebuild, restart | what is restored of a unit is what one export copied, and of one moment; slapproxy is restarted, or the exit file tells |
| waiting for files (`recipe/librecipe/execute.py`, `_wait_files_creation`) | what is known of each file; inotify watches | test, watch, follow events, poll | never too early, never too late |
| wrapper scripts (`execute.py`, `generic_exec`; `recipe/wrapper.py`) | the pidfile; the disposition of the signal of logrotate; pipes and logs; the name of the script | ignore the signal, read, test and write the pidfile, wait, exec or redirect; reopen the logs; install a script named after a hash of its files | the command runs once; the pidfile names it; no line and no rotation is lost; a service runs with its files as they are |
| signal translation (`execute_with_signal_translation`) | the process group of a service | start it, wait for a signal, send two others | no service outlives its script |
| re6stnet (`recipe/re6stnet/`) | `token.json`; `<reference>.add`, `.remove`, `.status`; the registry; its key, certificate and parameters | the recipe makes tokens and writes requests; the manager adds, removes, revokes, checks and publishes | used means used; a slave that stays is served; one that goes is forgotten; the certificate is that of the key |
| certificate authority, ssh keys authority, `librecipe/inotify.py` | request files, keys, certificates | poll or follow the requests, run openssl or ssh-keygen | the two files of a pair go together; no request is missed |
| signature of certificates (`software/rapid-cdn/software.py`) | the file that says a node was signed | read the request from the node, find the pending one with the same key, sign | the node gets its certificate, and no other request is signed in its place |
| request, publish, publish-early, NEO bootstrap | parameters and connection dictionaries in the master | request, publish | a tree of instances converges on one cluster |
| publication (`publish_failsafe`) | what buildout recorded, error status files | publish, note the error, try again | what is recorded is published, or is tried again |
| instance configuration, software type (`slapconfiguration.py`, `switch_softwaretype.py`) | the options of a pass, links to volumes, installed parts | fetch, link, validate, choose a profile, run the buildout in it | a pass ends with one configuration; a wrong shared instance does not stop the others |
| parameters a user keeps (`zero_knowledge.py`) | a file that he edits | read it, write what is missing, or all of it after an error | what he set stays |
| postgres (`postgres.py`), passwords, ports and times (`random.py`, `free_port.py`), MariaDB (`generic_mysql/mysql.py`), Trac (`trac.py`) | the cluster, a password, a port, a database, a site | make once, keep, bring up to date, try again | a half-made thing is not taken for a whole one; what services depend on does not change |
| calendars (`dcron.py`) | | convert a systemd calendar | the same times |
| ERP5 kernel of jupyter | magics, the last answer | send code, once or twice | what a cell shows is its own result |

`PROJECT.json` lists the rest (servers, file generators, checks, profiles) with the reason each is
left out.

### How they interact

* **Takeover.** The script runs in the partition of a clone and acts only through the SlapOS
  master; the root instance acts on the same references with `slapos/recipe/request.py`.
  Neither knows of the other: `request()` is "get or create", so that a request of the root made
  between two calls of the script undoes part of what the script did.
* **Pipeline.** Each stage ends in a notifier (`recipe/notifier.py`) that writes a row of its feed
  and posts to the equeue of the next partition. An equeue runs its queue one after the other and
  drops a callback already run for as late a timestamp. The three equeues are independent, so the
  stages of successive backups overlap: nothing keeps a push from rewriting the directory that an import has checked and reads. Theia is exported and imported at the two ends of it.
* **Trees.** Every partition is instantiated again and again, at its own pace. What one publishes the
  root reads in the answer to its own request, in a later pass, and gives to another one as a parameter.
* **Wrappers.** Every service of a partition is a wrapper: `generic_exec` is called with the
  options of `recipe/wrapper.py`; `_wait_files_creation` is called inside it, between the pidfile
  and the command. Logrotate reads the pidfile and sends a signal.
* **Authorities.** A recipe writes a request in a directory, and a service makes what is
  requested; services that need it wait for the files.
* **Tokens.** The recipe (in slapgrid) and the manager (started by cron *and* at each
  instantiation) share a directory with no lock; the manager calls the registry and the master.
* **Buildout** computes the options of all parts (`__init__`), uninstalls those whose options
  changed, installs or updates each, and records it in `.installed.cfg`. Slapgrid may kill it
  between any two steps, and runs it again.

### What is hard in it

Several actors without a common lock (script and root; PBS and importer; recipe and managers;
wrappers and logrotate; authorities and recipes; slapgrid and supervisord); calls that fail half-way
and are tried again later by something else; processes that are killed between two writes, or between
the open and the write of one file; notifications that are lost or late; files that are looked at and
then used; values that are made at random, used, and published later. `PROJECT.json` lists each such place
at its line, with the property that would notice it going wrong.

## 2. The modules

| module | models | lines of code |
|---|---|---|
| `Takeover`, `MCTakeover` | runs of `bin/takeover`, the requests of the root, slapgrid, a lost computer | `takeover.py`, `template-replicated.cfg.in:26-109`, `request.py` |
| `BackupPipeline` | exporter, three equeues, PBS, check and import of kvm | `pbs.py`, `notifier.py`, `equeue.py`, `pbsready-import/export.cfg.in`, `kvm-export/import.sh.jinja2` |
| `Replica` | the abstract promise of the pipeline; `BackupPipeline` implements it | |
| `BackupAccess` | keys, addresses and entries passed between the root, the PBS and its hosts | `template-replicated.cfg.in`, `dropbear.py`, `pbs.py` |
| `TheiaResilience`, `MCTheiaResilience` | export, transfer and import of a theia | `theia_export.py`, `theia_import.py`, `theia_common.py` |
| `WaitFiles`, `MCWrappers` | `_wait_files_creation` | `execute.py:16-47` |
| `GenericExec`, `MCWrappers` | the processes of one wrapper with a pidfile | `execute.py:80-236` |
| `LogRedirection` | the pipes of a wrapper that redirects, and its logs | `execute.py:166-228` |
| `WrapperRecipe` | the recipe that installs a wrapper named after the hash of its files | `wrapper.py`, `librecipe/generic.py` |
| `SignalTranslation` | the script that translates SIGTERM | `execute.py:238-260` |
| `TokenManager`, `MCTokenManager` | the recipe, the managers, the registry, the nodes | `re6stnet/__init__.py`, `re6stnet.py`, `librecipe/generic.py` |
| `RegistryCertificate` | the key, certificate and parameters of a registry | `re6stnet/__init__.py:61-97` |
| `CertificateAuthority` | the polling authority and its recipe | `certificate_authority/` |
| `SshAuthority` | the authority that follows inotify, and its recipe | `sshkeys_authority.py`, `librecipe/inotify.py` |
| `CsrSigning` | `smart_sign`, with the node and the authority | `rapid-cdn/software.py` |
| `InstanceTree` | a root, the nodes of its NEO cluster and an optional frontend | `request.py`, `publish.py`, `publish_early.py`, `neoppod.py`, `librecipe/genericslap.py` |
| `Publication` | publications that fail and are tried again | `publish.py` |
| `PartitionConfiguration` | one pass on a partition: fetch, links, the buildout in the buildout | `slapconfiguration.py`, `switch_softwaretype.py` |
| `InstanceParameters` | validation and defaults of shared and main parameters | `slapconfiguration.py:289-463` |
| `UserConfiguration` | the file of `zero_knowledge` | `zero_knowledge.py` |
| `GeneratedValues` | the MAC address of a machine, a time published early | `random.py`, `publish_early.py`, `dcron.py` |
| `PostgresPartition` | the cluster, its password and its port | `postgres.py`, `random.py`, `free_port.py` |
| `MySqlUpdate` | the update of a MariaDB server | `generic_mysql/mysql.py` |
| `TracSite` | a site, its plugins, repositories and users | `trac.py` |
| `SystemdCalendar` | the conversion of a calendar | `dcron.py:77-141` |
| `JupyterKernel` | magics, and code sent to ERP5 | `ERP5kernel.py` |
| `MCAuthorities`, `MCPartitions`, `MCPrograms` | several of the modules above in one run | |
| `Takeover_proofs`, `BackupPipeline_proofs`, `TheiaResilience_proofs`, `TokenManager_proofs` | theorems about the module they are named after | |
| `GenericExec_proofs` | theorems about `GenericExec` and `LogRedirection` | |
| `Wrappers_proofs` | theorems about `WaitFiles` and `WrapperRecipe` | |
| `Instances_proofs` | theorems about the three programs of `MCAuthorities` and about `InstanceTree` | |
| `Programs_proofs` | theorems about the other programs of `MCPrograms` and about `PostgresPartition` | |

The file `PROJECT.json` maps each definition to its lines. Definitions named
`<Action>_<What>` and commented *Mutant* are not part of any specification: each is a plausible
bug of the action it is named after, with which the property it is listed for fails.

What recurs: an action is a step that a kill or another actor can be between; a file that is
opened and then written takes two steps, the first of which empties it; a history variable
(`raced`, `torn`, `spoilt`, `interrupted`, `orphaned`, `excepted`, ...) remembers that something happened which the code does not
survive, so that a property can except exactly that, and section 6 says what it is; kills,
failures and changes are counted, and bounded by a constant named `Max...`.

**Takeover.** A partition has one `name` (its reference) and one `mode`, because every request of
the stack sets software type and state together. The script has one action per call to the master
(`RequestBroken`, `RenameBroken`, `RenameWinner`, `Bang`) and one for the lock file. The names
`broken-<date>` have a resolution of one second, so `RenameBroken` may find its name taken and
die. `RenameWinner` is retried for ever on `NotFoundError`, which is its guard. `raced` is a history
variable: the root was processed while a run was between two renames.

**BackupPipeline.** Data is the number of the exporter run it came from. Copies are file by file
(`ExportPiece`, `PullFile`, `PushFile`, `ImportPiece`), in any order, and interleave with everything.
The pull follows the branches of the script at `pbs.py:118-182`: rdiff-backup fails (`PullError`),
`--check-destination-dir` repairs or fails too (`CheckDestination`), and in both cases the script ends
with status 0 (`PullNotify`), except when the cleanup at its end fails (`PullCleanFail`).
The equeue itself is a program of another repository (`equeue.py` only installs it) and is modelled from how
it is configured and used. `latest` is its database, which outlives a restart; its queue does not
(`PbsRestart`). The retries of a queue and of rdiff-backup (`--max-run`) are abstracted: a failure is
the last of a series.

The import is not atomic with its check: each piece is hashed (`ImportHash`), the hashes are compared
(`ImportVerify`), the old image is removed and the new one copied piece by piece. `exposed` remembers that a push
changed the directory meanwhile.

**Replica** knows of signed snapshots and of an image, absent or complete, with the snapshot that each of its pieces
comes from. Without `exposed` a completed image is one signed snapshot; with it the pieces may come from several dumps,
but each is at least as recent as one signed snapshot; and no piece is ever older than in the image before.

**TheiaResilience.** The content of a file is a version number, 0 if the file does not exist. The export copies the
root, then each partition (`BackupPartition`), signs each unit (`SignRoot`, `SignPartition`), and checks ten seconds
later that nothing it watches is newer, or gone (`CheckPartition`), while services create, rewrite and delete files (`Write`,
`Delete`); only those of `Kept`, such as `buildout.cfg`, are always there. A signature is a set of lines, and `Matches` looks
for its lines in the backup as `sha256sum -c` does (files that it does not name are not looked at), or makes
it again for a partition with a script of its own, which only the end of the import can run. The transfer of the
backup to the clone is external here: `Pieces` says which files and signatures come at once, in any order.
`overlap` remembers that an export or an import overlapped a transfer, or that one failed half-way.

**BackupAccess.** A pass of the root, of the PBS and of a host are each several steps, of what they
read, request and write; a request that fails leaves empty values in the next one.

**WaitFiles** separates the test of each file, the watch of each directory and the delivery of
events; the files come and go at each point. Of the events of a file that have not been read only
the last one matters, since one read delivers all of them before the count.

**GenericExec** follows a process from the disposition of its signal to its command. A pidfile
is opened (truncated) and then written, in two steps. `options` stands for the wrapper's options,
chosen once. A process that redirects stays the parent of the command, so its command line is that
of the wrapper script and never the one compared. **LogRedirection** is what such a process does
afterwards: the loop over `select`, whose answer is a set that is handled in the order of `rfds` (`Turn`), the signal
handler that writes to the trigger, the logs that are opened one by one; the files keep their identity when logrotate
renames them.

**WrapperRecipe** has the hash of `hash-existing-files` in the options of the part (`__init__`) and that of
`hash-files` at its installation; supervisord runs the scripts that exist, and reads the files
when it starts one. A file is a string of one letter, so that two contents of one length are equal, and what is
hashed of a list of files is their lengths and their contents, as `filehash.py` does.

**TokenManager** has one action per file operation and per call to the registry, since the recipe
and the managers share the directory without a lock. Tokens made for a reference are numbered.
The record `mgr[m]` holds the local variables of one manager.

**CertificateAuthority** and **SshAuthority** number keys, and give a certificate the number of the key it was
made from. inotify is a queue of events and a watch that may be refused; the listing of the
directory is one step, and each request is read in one.

**InstanceTree.** One pass of the root is `Pass` (the options of publish-early), a `Request` for each node,
`Cluster`, requests again with the masters, `PublishEarly`, the optional frontend (`RequestFrontend`), and `Publish` or
`Raises`. A request that fails may have reached the master (`sent`). A node publishes its address in the
`__init__` of its parts and starts only with masters.

**Publication** has the hook that uninstalls a part (`UninstallPart`) and the rewriting of `.installed.cfg` (`ForgetPart`)
as two steps; information may change to anything, what it was before included. In **UserConfiguration** the file
system may refuse a read, an open or a write, and each of these leads where the `except` of the recipe leads.
**TracSite** has a step for each program, which may fail before it has made anything or half-way.

**PostgresPartition** has the password and the port in files and in the recorded options, as the
three recipes keep them; a server started during a pass sees what is there then. **SystemdCalendar** keeps a
field as a list of numbers and steps, and compares the sets of times of both calendars over the whole of a
field. **InstanceParameters** enumerates schemas (what they require, allow and give by default) and instances
rather than their text.

## 3. The runs

Eleven runs find no error; one states what the takeover page says of the script and ends in a
counterexample (section 6). All are exhaustive for their constants.

| run | instance | distinct states | checks |
|---|---|---|---|
| `takeover_safety` | 2 runs that may both be killed, 2 clones, 5 partitions, 2 broken names | 293 000 | `ServingCloneImports`, `MainIsNotNew`, `FrozenIfNotRaced`, `BrokenStaysAside` |
| `takeover_liveness` | 2 runs, one may be killed, 1 clone, 4 partitions, 1 broken name | 23 000 | `Settles`, `WinnerTakesOver` |
| `takeover_left_running` | 1 run, 2 clones | | `BrokenIsFrozen` (violated) |
| `pipeline` | 3 backups, 2 pieces and a signature, 2 failures of any kind; pushes and imports overlap | 957 000 | `InOrder`, `ImplementsReplica`, `CatchesUp` |
| `wrappers` | 3 files in 2 directories, 5 changes, watches may run out; 3 processes, every combination of options | 166 000 | `AllTogether`, `EndsIfQuiet`, `ExclusiveCommand`, `NeverKilledBySignal` |
| `token` | 1 slave, 2 managers, 1 failure or kill | 160 000 | `UsedMeansUsed`, `NoOrphanIfAlone`, `Served` |
| `theia_files` | a root and 2 partitions, one with its own signature; 4 files, one of which may come and go; 2 exports, 2 writes or deletions, 4 pieces | 2 599 000 | `OneMoment`, `UnitsIntact` |
| `theia_failures` | the same with 1 write or deletion, 1 failure or kill, 2 pieces | 266 000 | `ExitFileTells`, `Cloned` |
| `authorities` | 2 requests each, 2 faults (4 for the registry), 2 or 3 passes | 89 000 | `PairsMatch`, `AllServed` |
| `tree` | 2 nodes and a frontend, 3 kills, 2 requests that fail | 326 000 | `OneCluster`, `Converges` |
| `partitions` | 4 programs, each with 2 to 4 faults; 2 ports; 1 host | 165 000 | `UrlWorks`, `Serves`, `Reaches`, `Updated`, `Joins` |
| `programs` | 11 programs, bounds in `Programs.cfg` | 1 389 000 | `ResultIsOwn`, `SameTimes`, `SharedSorted`, `LogsAreKept`, `ServiceIsFresh`, `PublishedOrRetried`, `UserKeeps`, `OneConfiguration`, `NeverRegenerated`, `DoneIsComplete`, `NoneLeft` |

Four runs hold several programs (`wrappers`, `authorities`, `partitions`, `programs`) and take one of them in each
behaviour, while the others stay where they are: they share nothing in these models, so a product would only repeat each one's states. Types are checked by
`TypeOK` in the modules that have one, and by the proofs.

Why the bounds are enough to be interesting:

* *Takeover*: two runs are the least that race, in one clone or in two; five partitions leave two
  free, so that the root can replace both a winner and a broken instance; two broken names let two
  takeovers succeed, and one (in the liveness run) makes the second one collide. The liveness run uses
  no symmetry.
* *Pipeline*: three backups let one be exported while another is pulled and a third pushed or
  imported, so that a push changes what an import has checked; two pieces are the least that can be mixed; two failures reach a torn pull whose
  recovery fails too, and a failure followed by a lost notification.
* *Theia*: a file that the check watches and one that it does not, a partition with its own signature
  and one without; a second export may overlap the transfer of the first, which may fail and be run again. Two
  writes let a file be created after the export began and deleted before its check, or one change while another goes.
  One write is enough beside a failure, after which the signatures of the partitions may not come with the files;
  what an import completes with is proved for any number of both (section 5).
* *WaitFiles*: one directory with two files and one with one; five changes create, delete and
  create again a file with the others still to come.
* *GenericExec*: a process that left a stale pidfile, one that takes it over and one that is
  refused.
* *Token*: one slave suffices for the races, which are between actors on the files of one
  reference; `TokenManager` keeps one manager's traversal of several slaves, but no property relates two
  slaves. With two tokens a recipe killed before `token.json` makes a second one.
* *Authorities*: two requests, so that one is made while the other comes; two faults, so that what the first
  left half made is found by a pass that fails too.
* *Tree*: two nodes are the least that may disagree; three kills reach the second name of `publish_early`.
* *Partitions*: with two ports one is taken and the other free; four passes, the last of which has no fault left
  to meet.
* *Programs*: the minutes, hours, days and months that a calendar is converted from are all there alone
  or with a step, and four of them in pairs; two rotations overlap two lines of each of the two
  streams; two shared instances are the least of which one is wrong and the other is not; two values of what is published
  let it return to the one that was recorded; two errors of the file system let a write fail in both attempts of a pass.

Liveness properties are implications where the code itself does not ensure them:
`WinnerTakesOver` needs that nothing disturbs the run, `CatchesUp` and `Cloned` that no failure happens,
`EndsIfQuiet` that no file changed before events are followed (or that the wrapper polls), `Serves` a port that is free for good,
`AllServed` that no request stays half written, and
`Served` that managers do not overlap and that the recipe is not killed. `Settles`, `Converges`, `Reaches` and `Updated`
have no such condition: failures and kills are bounded, and happen at any moment.

Deadlock is checked for the tree only: in the other systems exporters, processes, passes or runs are
finite in number, and each may rightly come to rest.

## 4. Fairness

Only weak fairness, and only of actors that something restarts for ever; no failure, kill or change by a
user is fair:

* `Takeover`: runs that were started go on; the root is processed for ever (slapgrid of
  its computer) and so are the partitions of live computers. Nobody has to start a takeover.
  Fairness is of *some* run, *some* section of the root and *some* partition: each of the three has
  finitely many effective steps between two steps of another, so that no finer condition is needed.
* `BackupPipeline`, `TheiaResilience`: an export or import that started goes on and the equeues are
  long-running services. The exporter need not start again.
* `WaitFiles`: the wrapper is a process that goes on. Nobody has to create a file.
* `TokenManager`: slapgrid runs the recipe and cron runs the manager, both for ever; fairness is
  of *some* manager, so that one of them may stop for ever in the middle.
* `CertificateAuthority`, `SshAuthority`: supervisord starts an authority that died again, and slapgrid ends
  its installations.
* `InstanceTree`, `BackupAccess`: slapgrid processes every partition for ever; in `InstanceTree` the frontend need
  never be ready.
* `PostgresPartition`, `MySqlUpdate`: slapgrid runs the passes, supervisord starts the server and the update.
* `CsrSigning`: the node and the master are processed for ever, and the node sends its request.
* Only safety is stated of `GenericExec` and of the programs of `MCPrograms`.

## 5. The proofs

All proofs are checked by TLAPS to the last leaf, and hold for every value of the constants that satisfies
the module's named assumption (distinct references, a finite bound that is a natural number,
and so on); none assumes the finite instances of section 3.

* **`Takeover_proofs`** – `IInv` = `TypeOK`, `OneHolder` (the master gives a name to one partition only), and three facts:
  a run knows its partitions (`RunsKnowTheirs`), a winner that was renamed has left the clones
  (`PromotedLeft`), and so has a partition with a lock (`LockedLeft`). The last two make
  `ServingCloneImports` inductive: an allocated partition never gets a clone's reference, since the
  root only requests and `RenameWinner` only gives the main one. Two lemmas, `RequestGives` and
  `RenameGives`, say what the master does to a reference.
  `FrozenIfNotRaced` needs `FrozenWhileRenaming` besides; `BrokenStaysAside` is an action property
  that follows from `IInv` step by step. `MainIsNotNew` (`MainIsOld`): a winner was deployed (`WinnersDeployed`), while nobody
  has the main reference some run is between its two renames (`NamelessInRename`), and a partition that was never deployed
  has no such reference (`NewIsSetAside`). Theorems: `TypeCorrect`, `ClonesImport`, `MainIsOld`, `SetAsideFrozen`,
  `NoSilentReturn`.
* **`BackupPipeline_proofs`** – first `InOrder` with types (`Order`, `NothingGoesBackwards`), for any
  behaviour and any number of failures: each copy goes from a directory that is at least as new.
  Then `CloneIsReplica`, pushes during imports included: what an import has hashed is no newer than the directory, and
  the same unless a push changed it (`Hashed`); the directory that it reads is at least as recent as the snapshot that it
  was found to be, and still that snapshot unless a push changed it (`Reading`); and the last image is not newer than the
  directory (`ImageLast`), which is why no piece goes back. Each step is then a `Sign`, an `Expose`, a `Wipe`, a
  `Complete` or a stutter of `Replica` (`StepRefines`).
* **`Wrappers_proofs`** – of `WaitFiles`, `EachExisted` for any files, directories and changes
  (`NeverTooEarly`); `NothingMissed` (`NoEventMissed`) and `AllTogether` (`ThereTogether`) if the files did not change before
  the events were followed, whatever they did later. Of `WrapperRecipe`, `ServiceIsFresh` (`ServiceReadsItsFiles`): as long
  as nothing that it excepts happened, a pass has one script at most (`OneScript`), is of the options that are recorded or
  uninstalled (`SameOptions`), has written the hash-file before the path is computed (`GeneratedFirst`), which is what it is
  built from (`BuiltFrom`); and a service read its files after the path of its script was computed (`ReadLater`), so that
  it read what that path names, if the existing file is that of then. `HashInjective` is what the recipe
  relies on: a length before each file tells where it ends, and two lists of files with the same hash are equal.
* **`GenericExec_proofs`** – for any number of processes: `ExclusiveCommand` (`OneAtATime`) and
  `PidfileNamesCommand` (`PidfileIsRight`), from an invariant that says, when no two processes started together,
  that a process past the test found no command running, and that the pidfile names the command;
  `NeverKilledBySignal` (`SignalSafe`) independently of it. Of `LogRedirection`, `LogsAreKept` (`NothingIsLost`) for any number
  of lines and rotations: `logs` and `rfds` stay paired when a stream ends (`LogsPaired`), nothing was written to a file
  after the one that is open (`WrittenLast`), so that an append to that file is an append to all of them, and a
  log that is not the last will be opened again: its place is in `toReopen`, or the trigger is set, or the signal has yet to come
  (`ReopenedSoon`). What `FlattenSeq` does to one more file and to a longer last file
  (`FlattenNew`, `FlattenMore`) is proved from its recursive function by induction; since the induction theorems of the library take an
  operator, it goes by the least counterexample of a set of numbers (`LeastOf`, `SetOfAll`).
* **`TokenManager_proofs`** – `UsedMeansUsed` (`UsedIsTrue`) for any number of overlapping managers. Types are
  inductive only with `HasToken` (a manager that works on a request has read a token). `UsedInv` then says
  that each slave has had one token at most (`OneToken`), which the recipe has or is about to write (`RecipeKnows`);
  that a removal is only ever asked, or carried out, for a slave that is gone for good (`OnlyGoneRemoved`,
  `SoundManager`), so that a token with a status that is no longer in the registry can only have been used
  (`Accounted`). `StepSound` reduces a step of a manager to what it does to its own state and to the files. The invariant holds
  until the recipe is killed, as the property says. `NoOrphanIfAlone` (`NoOrphanForAny`) follows a withdrawal: once the recipe
  has written that a slave is gone, a request to remove its token stays until the registry has nothing of it, and no
  request to add it is left (`RequestsFollow`, `RecipeFollows`); the only manager there is (`OneManager`)
  takes the token from the registry, revokes the certificates and then unlinks the request (`ManagerFollows`), and
  the token is the first and only one of the slave (`FirstTokens`).

* **`TheiaResilience_proofs`** – `ExitFileTells` (`ExitFileIsRight`) needs only that an import that can still
  succeed has started slapproxy again. `UnitsIntact` (`UnitsAreIntact`), for any files, partitions, pieces, exports, writes,
  deletions and failures, goes along the way of the data: an export that reaches its signatures has copied every file that
  is kept (`SourceSound`), so that each signature, in the backup and in the clone, is of what one export copied
  (`SignaturesSound`) and is not empty; what is transferred or imported has every file that is kept, though transfers
  fail half-way (`TransferSound`), so that no partition is skipped; and a unit whose signature matches has all that one
  export copied, and keeps it until it is restored, if no transfer overlaps the import (`ImportSound`). That it has nothing
  else holds when no transfer was overlapped or stopped: the root is signed last of what is copied (`RootSound`), and what
  has arrived is what the export holds, deletions included (`CleanSound`). `CopiesStay` says that what an export copied is
  written down once, and carries each of these over the next exports. `OneMoment` (`RestoredIsOneMoment`): versions only grow
  (`Later`), so that a file which the check finds as old as its copy was of that version at the moment of the signature
  (`MomentSound`), unless it came and went in between.
* **`Instances_proofs`** – the pairs of each authority, with the assumption that requests are finite in number, from which a
  number that no key bears always exists (`OneIsNew`, `NewPairIsNew`, `NewKeyIsNew`).
  `CertificatesHold` (`CertificatesAreOfTheirKeys`): the pair of the authority is whole before another is made, and signs itself
  (`SignedByCa`, `CaSound`); while openssl makes a pair its key file has the key just made and no certificate is in
  its place (`MakingSound`), unless a pair is given there, of which the recipe knows if it is alone with it
  (`GivingSound`). `KeysMatch` (`KeysAreOfOnePair`): no public key is there while the private key is written (`KeyIsNew`). `RegistryHolds` (`RegistryHasItsPair`). `PairsMatch`
  (`PairsAlwaysMatch`) composes the three: a step of `MCAuthorities` is a step or a stutter of each
  (`NextOfEach`). `OneCluster` (`ClusterIsOne`), for any number of nodes: a pass has the name that is published
  (`PassHasName`), has found, failed or still to do each node (`PassSorts`); before a name is published masters are given
  in a second round of requests only, for which an earlier pass must have been killed, so that two names take two
  kills (`FirstPasses`); and what a node is given or has started with has the name of the cluster (`GivenName`).
* **`Programs_proofs`** – one invariant for each program, for any values of its constants:
  `ResultIsOwn` (`ResultsAreOwn`): while a cell is sent nothing is shown for it, and it has not run more often than it was sent (`Sending`);
  `SameTimes` (`CalendarIsKept`): the fields converted so far mean the same numbers (`FieldsSame`, by `StepSame`: the last
  multiple of the step that fits ends the range), the others are those of the calendar, and so are the days (`DaysSame`);
  `SharedSorted` (`EachIsSorted`): each instance handled so far is in the list where it belongs (`ListsSound`), and
  only a conflict of defaults ends the recipe (`Raised`); `PublishedOrRetried` (`PublishedInTheEnd`): after the
  uninstallations no part is recorded with other options (`RecordsCurrent`), and a part that calls the master is new or has
  its status file until the call succeeds (`CallsSound`); `UserKeeps` (`UserIsHeard`): while the file is written again,
  what the user chose, and the code has not lost, is in what was read of it, and a file without the section has nothing
  of his (`ParserKeeps`); `OneConfiguration` (`ConfiguredOnce`): whatever a pass installs comes
  from the one answer that it fetched (`PassOfOneAnswer`, `AllInstalled`); `NeverRegenerated` (`ValuesAreKept`): but while it is
  written, the file has the address of the machine (`MacKept`), and a part that is installed has its file (`PartHasFile`); what a
  pass goes with is in the file and published (`PassSound`), and so is the time of an entry (`TimePublished`); `DoneIsComplete` (`SiteIsComplete`): what is there is what the steps so
  far have made (`MadeSoFar`), and nothing is half made but what a kill or a failure left so (`HalfMade`); `NoneLeft` (`NoServiceLeft`): a group is
  made after those before it and only once (`NotYetMade`); `UrlWorks` (`UrlIsGood`): one port for ever (`OnePort`), a password
  that is stored before it is used (`PasswordStored`), and a cluster that is whole once the pass has
  gone past it (`ClusterWhole`).

The assumptions are those of the modules, as weak as the code allows: bounds are natural numbers, references are
distinct, the requests of the two authorities are finite in number (`CaAssumption`, `SshAssumption`), and the numbers in the lists
of calendars are natural (`CalendarAssumption`).

Every invariant of the passing runs is stated by a theorem, and so are the action property `BrokenStaysAside` and the refinement
`ImplementsReplica`. Only model-checked: the liveness properties (`Settles`, `WinnerTakesOver`, `CatchesUp`, `EndsIfQuiet`, `Served`,
`Cloned`, `AllServed`, `Converges`, `Serves`, `Reaches`, `Updated`, `Joins`), since fairness and ENABLED are beyond the prover.
`BrokenIsFrozen` fails.

## 6. Where the code disagrees with what is said of it

A run whose counterexample shows it:

| run | property | what happens |
|---|---|---|
| `takeover_left_running` | `BrokenIsFrozen` | The root is processed between the request that freezes the main instance (`takeover.py:50`) and its rename: it requests it again as a started exporter, which then keeps running under a name nobody requests. The takeover page says the main instance is stopped and frozen (`resilient-web-takeover-cgi-script.py.in:93`). |

The following was seen in the code while modelling it. Where a property would be violated by it, the property
excepts exactly that, by a history variable or a condition of its statement; no run shows it.

*Takeover and backups*

* `takeover.py:64`: a root processed between the two renames creates a new main instance; the winner
  then tries its rename for ever, and the tree settles (`Settles`) with an exporter that has no data.
* `kvm-import.sh.jinja2:34-35` and `pbsready-import.cfg.in:45-49`: the push of the next backup may rewrite the directory that
  the importer has just checked. The image then mixes two backups and the import succeeds: `Replica` allows it, after
  `Expose` only, and `CatchesUp` says that the import of the later backup puts it right.
* `pbs.py:168` and `:175`: a pull whose rdiff-backup failed ends with status 0: its feed says OK, and the increment
  before it is pushed under the new timestamp.
* `pbs.py:284`: two hosts of one backup server that give the same `on-notification` share one callback, which runs the
  notifier of the last one only.
* `pbsready-export.cfg.in:56`: the promise greps the literal `FAILURE_PATTERN` instead of the value of that
  variable and so never fails.
* `resilient-web-takeover-cgi-script.py.in:45`: the page shows the newest timestamp of the equeue's database, that of the
  integrity check included, so that its date may be that of a backup which was never imported.
* `template-replicated.cfg.in:39`: a request that fails for one pass gives the other partitions empty values for it in that pass.
* `theia_import.py:114-165`: only the lines of a signature are verified, so that a file that the instance has deleted, and the
  transfer has not yet removed from the clone, passes: the import then restores a unit with one file too many, which no export
  copied (`UnitsIntact` says that all of one export is there, and nothing else if no transfer was overlapped or stopped).
* `theia_export.py:123-133`: a file created after the export began and deleted before its check is seen by neither the copy nor the check
  (`OneMoment` excepts it).
* `theia_export.py:179`: the check after the export looks for `/srv/backup/` in names relative to the partition, and misses what
  changes right in `srv/backup` (`OneMoment` excepts these).

*Wrappers*

* `execute.py:18-31`: a file created between its test and the watch of its directory is missed, and the wrapper
  waits for ever, in the very order that a comment says avoids it. `execute.py:45`: an overflow of inotify's
  queue, whose event has no watch, is a `KeyError`.
* `execute.py:106-125`: two processes that start together both find no command running, and both run it; the window
  lasts as long as the wait for files.
* `execute.py:108-125` with `:41` of `wrapper.py`: a wrapper that redirects its output is never recognised as running, and
  a second command starts.
* `execute.py:173`: a redirection without `redirect-signal`, which `wrapper.py` accepts, raises
  after the pidfile is written and before the command is started.
* `execute.py:253`: a signal between `Popen` and the assignment of `child_pg` leaves the service; and a script whose
  service ends by itself is never told, since `signal.pause` returns for signals with a handler only.
* `wrapper.py:67`: a pass killed while it installs the script leaves one that no later pass removes.
* `wrapper.py:82-86`: the name tells contents and not changes: an existing file that changes, is read by the service and
  changes back before the next pass leaves a service with contents that are gone, under the right name.

*Tokens and certificates*

* `re6stnet/__init__.py:173`: a manager that runs between the `.remove` that is written and the `.add` that is unlinked
  leaves the token in the registry for ever.
* `re6stnet/__init__.py:178`: a recipe killed after `<reference>.add` and before `token.json` makes
  another token for that reference and keeps the old request; the new token, never added to the registry, is
  published as used. `librecipe/generic.py:116`: a kill between the open and the write of `token.json` leaves it empty, and every
  later run of the recipe and of the manager fails until someone deletes it.
* `re6stnet/__init__.py:65-97`: parameters or a certificate cut short by a kill are taken for made.
* `certificate_authority.py:70` and `:88`: an authority killed after openssl opened the certificate and before it wrote it leaves
  two files that are taken for a pair. `sshkeys_authority.py:159`: a service that waits for its keys may start
  when the files exist and ssh-keygen has not written them yet.
* `rapid-cdn/software.py:108`: a node that makes another key once the master has read its request, or is done with it,
  keeps waiting: the file that says it was signed outlives the key.

*Instances*

* `publish_early.py:46-47` says that parameters are published before partitions are requested; in the profile of ERP5 the
  requests of its nodes come first. Two kills before the first publication give nodes that run a second cluster name.
* A request for masters that fails makes their list shorter for that pass. A request of the optional
  frontend that fails makes the root publish an empty URL until the next pass.
* `postgres.py:95-103`: a kill while the cluster is made, or a `postgres --single` whose status nobody reads, leaves a half-made one
  that later passes take for whole; and if initdb did not make its directory, `rmtree` raises in place of the error.
* `random.py:105`: buildout removes the file of a MAC address when its part is installed again, and a kill before it is rewritten gives
  the machine another address. `random.py:179-192`: the hash of a scheme first asked for when the password
  exists is never stored (`update` does nothing), and so differs at each pass.
* `publish.py:100`: the status file of a part is removed before buildout forgets what it has recorded. A pass killed in between, and
  information that returns to what was recorded, leave a publication that failed and that nothing will try again
  (`PublishedOrRetried` excepts a shared instance cut so).
* `publish.py`: a failsafe part without `-error-status-file` never tries again after an error.
* `slapconfiguration.py:359` names a `defaultlist` that does not exist, so that a conflict of defaults is a
  `NameError`; `:471` calls `fetch_parameter_dict` without one of its arguments; `:486` lets two keys become one.
* `generic_mysql/mysql.py:22`: the script is read once, and one that slapgrid writes meanwhile is not run.
* `zero_knowledge.py:70-71` says that values set by the user are overridden when a parameter changes, which is
  not what happens to those with lower-case names; the others are. An edit between the read and the write of the file is lost.
* `zero_knowledge.py:66-67`: the comment above says "If the file or section do not exist", but any `IOError` in opening or writing
  the file leads to `full_install` too, and a file that cannot be read is read as an empty one: `:73-79` then write the section
  with the values of the profile alone, and those of the user are lost (`UserKeeps` excepts the values that were there then).
* `trac.py`: an error leaves what it was making, which the next pass takes for complete, and `done` is written: a site whose files were
  not copied (`:89-95`) or whose `initenv` died while it was talked to (`:80`), a plugin copied in part (`:122`), a repository without
  its hooks (`:138-140`), a git repository whose `init` failed half-way or whose `add` failed (`:148-157`); and a kill at the same
  places. The status of `htpasswd` is not read for the administrator. `DoneIsComplete` excepts each of these things, and nothing
  else of the site.

*Programs*

* `dcron.py:118-141`: a stepped element of a list replaces the whole field; `weekly` is Sunday while systemd
  means Monday; a range of days over the end of the week, as `fri-sun`, becomes `5-0`, and one
  that begins on Sunday is converted, which systemd refuses.
* `ERP5kernel.py:340`: the kernel sends code again on any accepted answer but 200, and shows "Error at Server Side" whatever
  the second answer is: a cell may run twice.

## 7. What is not modelled

* Components with status `not_modelled` in `PROJECT.json`: recipes that write files from their options or configure one
  server, servers of files, checks, and all profiles, stacks and build components but those read for the modelled parts.
* *Takeover*: the web page that starts the script (a password and an I/O); what the main instance serves.
  A takeover writes its lock last, and the importer's use of that lock is not composed with the
  pipeline yet.
* *Pipeline*: `--fix-corrupted`, run by hand; rdiff-backup itself, external and modelled by its exit status
  and its repository; the text of `backup-checksum-integrity`, of which only "empty or not" is used; the content
  of the feeds.
* *Access of the backup server*: the arguments of the dropbear server and client, and the promises.
* *Theia*: the exclusions of rsync; the pipeline between the export and the import (section 2); what the services of the clone
  write before it is restored; files of the root that come and go.
* *WaitFiles*: an overflow of inotify's queue and a watched directory that is deleted.
* *GenericExec*: the reuse of a pid by another process, a stop that reaches the whole process group,
  `private_tmpfs`, `reserve_cpu`. The configuration file of `generic_cloudooo`.
* *TokenManager*: the addresses published, and a slave instance that is destroyed and requested again under the
  same reference.
* *CertificateAuthority*: `openssl.cnf`, the serial number and the index. *CsrSigning*: `validate_netloc`
  and the promise that counts requests; the second connection of `_get_exposed_csr`, which checks no certificate, is taken to
  reach the server that the first one checked.
* *InstanceTree*: the request of one instance a country (`RequestEdge`), `publishurl`; the command lines of
  the nodes of NEO and the list of admins, which is made as that of the masters.
* *GeneratedValues*: the hashes of passwords and userinfo. *PartitionConfiguration*: the separation of addresses,
  the serialised forms, `JsonDump`.
* *JupyterKernel*: the check of an existing reference, which only changes a message.
* `BaseSlapRecipe` (`librecipe/__init__.py`): its constructor joins `self` to a path (`:85`) and always raises, so that no recipe
  can use it; the two that inherit from it (`proactive`, `zabbixagent`) do not run.

## 8. Plan

1. More of the proofs: which of the abstract promises can be stated as refinements (the token of a slave, a site, a
   pair), and safety lemmas on which the liveness properties rest (no state from which a wrapper at rest is stuck).
2. `TakeoverImport`: the composition of `Takeover` with the clone's part of the pipeline: the lock is written last
   (`takeover.py:78`), so that an import may start in the winner after its rename.
3. `RequestEdge` as part of `InstanceTree`, and the hashes of `random.py` as part of `GeneratedValues`.
