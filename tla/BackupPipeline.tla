--------------------------- MODULE BackupPipeline ---------------------------
(***************************************************************************)
(* How the data of the main instance reaches a clone.                      *)
(*                                                                         *)
(*   exporter (cron)  -- notify -->  PBS pull  -- notify -->  PBS push     *)
(*                    -- notify -->  clone: check, then import             *)
(*                                                                         *)
(* The exporter dumps the data in its backup directory and signs it        *)
(* (kvm-export.sh); the pull-backup server pulls that directory with       *)
(* rdiff-backup, then pushes its last increment to the backup directory of *)
(* the clone (slapos/recipe/pbs.py); the clone checks the signature and    *)
(* imports (pbsready-import.cfg.in, kvm-import.sh).  Each of the three     *)
(* partitions runs what it is notified of through its own equeue, so that  *)
(* the stages of successive backups overlap.                               *)
(*                                                                         *)
(* Data is the number of the exporter run it was dumped by: a file of a    *)
(* backup directory holds such a number, 0 when the file does not exist;   *)
(* the file backup.signature holds the number of the run it signs.         *)
(***************************************************************************)
EXTENDS Naturals, FiniteSets

CONSTANTS
  Pieces,            \* the files of a dump
  Signature,         \* the file backup.signature
  MaxRuns,           \* bound: exporter runs
  MaxFailures        \* bound: failures of any kind, lost notifications included

ASSUME PipelineAssumption ==
  /\ Signature \notin Pieces
  /\ Pieces # {}
  /\ MaxRuns \in Nat
  /\ MaxFailures \in Nat

Files == Pieces \cup {Signature}
Versions == 0..MaxRuns
Directory == [Files -> Versions]
NoFile == [f \in Files |-> 0]

VARIABLES
  run,         \* number of the last exporter run
  exporting,   \* pieces that run has still to dump, plus the signature; {} if idle
  source,      \* backup directory of the main instance
  signed,      \* the runs whose dump the exporter has signed (history)
  notes,       \* notifications waiting in the equeues, by callback
  latest,      \* database of the equeues: last success of each callback
  pbs,         \* what the equeue of the PBS is running
  mirror,      \* the files the running or interrupted pull has written
  store,       \* the last complete increment of the PBS
  unfinished,  \* rdiff-backup left the repository in the middle of an increment
  pullFeed,    \* last row of the feed of the pull: status and notification
  backup,      \* backup directory of the clone
  diffEmpty,   \* backup.diff of the clone, read by backup-checksum-integrity
  imp,         \* what the equeue of the clone is running
  proof,       \* proof.signature: the pieces as the running import hashed them
  image,       \* disk image of the clone, by piece
  imageReady,  \* the importer completed that image
  lastImage,   \* the last image completed (history)
  exposed,     \* a push changed the backup under the running import (history)
  failures

exporterVars == <<run, exporting, source, signed>>
pbsVars == <<pbs, mirror, store, unfinished, pullFeed>>
importVars == <<imp, proof, image, imageReady, lastImage, exposed>>
cloneVars == <<backup, diffEmpty, importVars>>
vars == <<exporterVars, notes, latest, pbsVars, cloneVars, failures>>

Callbacks == {"pull", "push", "check", "import"}
IdlePbs == [task |-> "idle", ts |-> 0, todo |-> {}]
IdleImp == [task |-> "idle", ts |-> 0, todo |-> {}]
NoPiece == [p \in Pieces |-> 0]

Fail == failures < MaxFailures /\ failures' = failures + 1

(***************************************************************************)
(* A notifier posts the run's number to the equeue of the next partition,  *)
(* for each of its callbacks; the post may be lost.                        *)
(***************************************************************************)
Notify(callbacks, ts) ==
  \/ /\ notes' = [c \in Callbacks |->
                    IF c \in callbacks THEN notes[c] \cup {ts} ELSE notes[c]]
     /\ UNCHANGED failures
  \/ Fail /\ UNCHANGED notes

\* An equeue runs a callback unless it has run it for as late a notification.
Due(c, ts) == ts \in notes[c] /\ ts > latest[c]
Take(c, ts) == notes' = [notes EXCEPT ![c] = @ \ {ts}]
Succeeded(c, ts) == latest' = [latest EXCEPT ![c] = ts]

\* "already run": the equeue drops a notification older than its last success.
EqueueSkip(c, ts) ==
  /\ ts \in notes[c] /\ ts <= latest[c]
  /\ Take(c, ts)
  /\ UNCHANGED <<latest, failures, exporterVars, pbsVars, cloneVars>>

Matches(dir) == \A p \in Pieces : dir[p] = dir[Signature]

-----------------------------------------------------------------------------
Init ==
  /\ run = 0 /\ exporting = {} /\ source = NoFile
  /\ signed = {}
  /\ notes = [c \in Callbacks |-> {}]
  /\ latest = [c \in Callbacks |-> 0]
  /\ pbs = IdlePbs /\ mirror = NoFile /\ store = NoFile /\ unfinished = FALSE
  /\ pullFeed = [status |-> "none", ts |-> 0]
  /\ backup = NoFile /\ diffEmpty = TRUE /\ imp = IdleImp
  /\ proof = NoPiece /\ image = NoPiece /\ imageReady = FALSE /\ lastImage = NoPiece
  /\ exposed = FALSE
  /\ failures = 0

-----------------------------------------------------------------------------
(* The exporter, run by cron under a pidfile. *)

ExportStart ==
  /\ exporting = {}
  /\ run < MaxRuns
  /\ run' = run + 1
  /\ exporting' = Files
  /\ UNCHANGED <<source, signed, notes, latest, failures, pbsVars, cloneVars>>

ExportPiece(p) ==
  /\ p \in exporting
  /\ source' = [source EXCEPT ![p] = run]
  /\ exporting' = exporting \ {p}
  /\ UNCHANGED <<run, signed, notes, latest, failures, pbsVars, cloneVars>>

\* backup-signature comes last; the notifier then writes OK and notifies.
ExportSign ==
  /\ exporting = {Signature}
  /\ source' = [source EXCEPT ![Signature] = run]
  /\ exporting' = {}
  /\ signed' = signed \cup {run}
  /\ Notify({"pull"}, run)
  /\ UNCHANGED <<run, latest, pbsVars, cloneVars>>

\* set -e: the exporter dies half-way and nobody is notified.
ExportFail ==
  /\ exporting # {}
  /\ Fail
  /\ exporting' = {}
  /\ UNCHANGED <<run, source, signed, notes, latest, pbsVars, cloneVars>>

-----------------------------------------------------------------------------
(* The pull-backup server. *)

PullStart(ts) ==
  /\ pbs.task = "idle"
  /\ Due("pull", ts)
  /\ Take("pull", ts)
  /\ pbs' = [task |-> "pull", ts |-> ts, todo |-> Files]
  /\ UNCHANGED <<latest, failures, mirror, store, unfinished, pullFeed,
                 exporterVars, cloneVars>>

\* rdiff-backup refuses to go on with an increment it has not regressed.
PullFile(f) ==
  /\ pbs.task = "pull" /\ ~unfinished
  /\ f \in pbs.todo
  /\ mirror' = [mirror EXCEPT ![f] = source[f]]
  /\ pbs' = [pbs EXCEPT !.todo = @ \ {f}]
  /\ UNCHANGED <<notes, latest, failures, store, unfinished, pullFeed,
                 exporterVars, cloneVars>>

PullDone ==
  /\ pbs.task = "pull" /\ pbs.todo = {} /\ ~unfinished
  /\ store' = mirror
  /\ pbs' = [pbs EXCEPT !.task = "cleaning"]
  /\ UNCHANGED <<notes, latest, failures, mirror, unfinished, pullFeed,
                 exporterVars, cloneVars>>

\* Removing the oldest increments is the last command of the script, so that its
\* failure is that of the pull, however complete the new increment.
PullCleanFail ==
  /\ pbs.task = "cleaning"
  /\ Fail
  /\ pullFeed' = [status |-> "FAILURE", ts |-> pbs.ts]
  /\ pbs' = IdlePbs
  /\ UNCHANGED <<notes, latest, mirror, store, unfinished, exporterVars, cloneVars>>

\* rdiff-backup exits with an error: a failure of its own, or its refusal.
PullError ==
  /\ pbs.task = "pull"
  /\ IF unfinished THEN UNCHANGED failures ELSE Fail
  /\ unfinished' = TRUE
  /\ pbs' = [pbs EXCEPT !.task = "checking", !.todo = {}]
  /\ UNCHANGED <<notes, latest, mirror, store, pullFeed, exporterVars, cloneVars>>

\* Mutant: a backup that fails and cannot be regressed is removed.
CheckDestination_Remove ==
  /\ pbs.task = "checking"
  /\ mirror' = NoFile /\ store' = NoFile /\ unfinished' = FALSE
  /\ pbs' = [pbs EXCEPT !.task = "checked"]
  /\ UNCHANGED <<notes, latest, failures, pullFeed, exporterVars, cloneVars>>

\* --check-destination-dir goes back to the last complete increment; or it fails
\* too, in which case both branches of "is_first_backup" do nothing.
CheckDestination ==
  /\ pbs.task = "checking"
  /\ \/ mirror' = store /\ unfinished' = FALSE /\ UNCHANGED failures
     \/ Fail /\ UNCHANGED <<mirror, unfinished>>
  /\ pbs' = [pbs EXCEPT !.task = "checked"]
  /\ UNCHANGED <<notes, latest, store, pullFeed, exporterVars, cloneVars>>

\* Mutant: the pull has no notification URL.
PullNotify_Silent ==
  /\ pbs.task \in {"cleaning", "checked"}
  /\ pullFeed' = [status |-> "OK", ts |-> pbs.ts]
  /\ Succeeded("pull", pbs.ts)
  /\ pbs' = IdlePbs
  /\ UNCHANGED <<notes, failures, mirror, store, unfinished, exporterVars, cloneVars>>

\* Unless the cleanup failed, the script ends with status 0, even if rdiff-backup
\* did not: the notifier
\* writes OK in the feed and notifies the PBS itself, which will push.
PullNotify ==
  /\ pbs.task \in {"cleaning", "checked"}
  /\ pullFeed' = [status |-> "OK", ts |-> pbs.ts]
  /\ Succeeded("pull", pbs.ts)
  /\ Notify({"push"}, pbs.ts)
  /\ pbs' = IdlePbs
  /\ UNCHANGED <<mirror, store, unfinished, exporterVars, cloneVars>>

PushStart(ts) ==
  /\ pbs.task = "idle"
  /\ Due("push", ts)
  /\ Take("push", ts)
  /\ pbs' = [task |-> "push", ts |-> ts, todo |-> Files]
  /\ UNCHANGED <<latest, failures, mirror, store, unfinished, pullFeed,
                 exporterVars, cloneVars>>

\* rdiff-backup --restore-as-of now --force writes in the directory in place,
\* whatever the clone is doing with it.
PushFile(f) ==
  /\ pbs.task = "push" /\ store # NoFile
  /\ f \in pbs.todo
  /\ backup' = [backup EXCEPT ![f] = store[f]]
  /\ exposed' = (exposed \/ (imp # IdleImp /\ store[f] # backup[f]))
  /\ pbs' = [pbs EXCEPT !.todo = @ \ {f}]
  /\ UNCHANGED <<notes, latest, failures, mirror, store, unfinished, pullFeed,
                 exporterVars, diffEmpty, imp, proof, image, imageReady, lastImage>>

\* The status of rdiff-backup is that of the script: OK notifies the clone.
PushDone ==
  /\ pbs.task = "push" /\ pbs.todo = {}
  /\ Succeeded("push", pbs.ts)
  /\ Notify({"check", "import"}, pbs.ts)
  /\ pbs' = IdlePbs
  /\ UNCHANGED <<mirror, store, unfinished, pullFeed, exporterVars, cloneVars>>

\* A failure, which is certain as long as there is no increment to restore.
PushFail ==
  /\ pbs.task = "push"
  /\ IF store = NoFile THEN UNCHANGED failures ELSE Fail
  /\ pbs' = IdlePbs
  /\ UNCHANGED <<notes, latest, mirror, store, unfinished, pullFeed,
                 exporterVars, cloneVars>>

\* The partition of the PBS is stopped: what its equeue had in memory is lost.
PbsRestart ==
  /\ pbs # IdlePbs
  /\ Fail
  /\ pbs' = IdlePbs
  /\ unfinished' = (unfinished \/ pbs.task = "pull")
  /\ notes' = [notes EXCEPT !["pull"] = {}, !["push"] = {}]
  /\ UNCHANGED <<latest, mirror, store, pullFeed, exporterVars, cloneVars>>

-----------------------------------------------------------------------------
(* The clone: post-notification-run, then the importer. *)

\* post-notification-run compares the signature; its status is not used.
CheckBackup(ts) ==
  /\ imp = IdleImp
  /\ Due("check", ts)
  /\ Take("check", ts)
  /\ diffEmpty' = Matches(backup)
  /\ latest' = IF Matches(backup) THEN [latest EXCEPT !["check"] = ts] ELSE latest
  /\ UNCHANGED <<failures, exporterVars, pbsVars, backup, importVars>>

\* The importer first hashes the backup again, piece by piece.
ImportStart(ts) ==
  /\ imp = IdleImp
  /\ Due("import", ts)
  /\ ts \notin notes["check"]
  /\ Take("import", ts)
  /\ imp' = [task |-> "verify", ts |-> ts, todo |-> Pieces]
  /\ UNCHANGED <<latest, failures, exporterVars, pbsVars, backup, diffEmpty,
                 proof, image, imageReady, lastImage, exposed>>

ImportHash(p) ==
  /\ imp.task = "verify"
  /\ p \in imp.todo
  /\ proof' = [proof EXCEPT ![p] = backup[p]]
  /\ imp' = [imp EXCEPT !.todo = @ \ {p}]
  /\ UNCHANGED <<notes, latest, failures, exporterVars, pbsVars, backup, diffEmpty,
                 image, imageReady, lastImage, exposed>>

\* diff fails on a signature that does not exist.
ProofMatches ==
  backup[Signature] # 0 /\ \A p \in Pieces : proof[p] = backup[Signature]

\* Mutant: the importer does not stop at a difference.
ImportVerify_NoCheck ==
  /\ imp.task = "verify" /\ imp.todo = {}
  /\ IF backup # NoFile
     THEN imp' = [imp EXCEPT !.task = "import", !.todo = Pieces] /\ UNCHANGED exposed
     ELSE imp' = IdleImp /\ exposed' = FALSE
  /\ proof' = NoPiece
  /\ UNCHANGED <<notes, latest, failures, exporterVars, pbsVars, backup, diffEmpty,
                 image, imageReady, lastImage>>

\* diff: it dies (set -e) if there is a difference.
ImportVerify ==
  /\ imp.task = "verify" /\ imp.todo = {}
  /\ IF ProofMatches
     THEN imp' = [imp EXCEPT !.task = "import", !.todo = Pieces] /\ UNCHANGED exposed
     ELSE imp' = IdleImp /\ exposed' = FALSE
  /\ proof' = NoPiece
  /\ UNCHANGED <<notes, latest, failures, exporterVars, pbsVars, backup, diffEmpty,
                 image, imageReady, lastImage>>

\* rm -f virtual.qcow2
ImportRemove ==
  /\ imp.task = "import"
  /\ image' = NoPiece
  /\ imageReady' = FALSE
  /\ imp' = [imp EXCEPT !.task = "merge"]
  /\ UNCHANGED <<notes, latest, failures, exporterVars, pbsVars, backup,
                 diffEmpty, proof, lastImage, exposed>>

\* qmprestore merge reads the pieces one after the other.
ImportPiece(p) ==
  /\ imp.task = "merge"
  /\ p \in imp.todo
  /\ image' = [image EXCEPT ![p] = backup[p]]
  /\ imp' = [imp EXCEPT !.todo = @ \ {p}]
  /\ UNCHANGED <<notes, latest, failures, exporterVars, pbsVars, backup,
                 diffEmpty, proof, imageReady, lastImage, exposed>>

ImportDone ==
  /\ imp.task = "merge" /\ imp.todo = {}
  /\ imageReady' = TRUE
  /\ lastImage' = image
  /\ Succeeded("import", imp.ts)
  /\ imp' = IdleImp
  /\ exposed' = FALSE
  /\ UNCHANGED <<notes, failures, exporterVars, pbsVars, backup, diffEmpty, proof, image>>

\* The importer fails or the partition of the clone is stopped.
ImportFail ==
  /\ imp # IdleImp
  /\ Fail
  /\ imp' = IdleImp
  /\ proof' = NoPiece
  /\ exposed' = FALSE
  /\ UNCHANGED <<notes, latest, exporterVars, pbsVars, backup, diffEmpty,
                 image, imageReady, lastImage>>

-----------------------------------------------------------------------------
Export == (\E p \in Pieces : ExportPiece(p)) \/ ExportSign

PbsStep ==
  \/ \E ts \in 1..MaxRuns : PullStart(ts) \/ PushStart(ts)
                            \/ EqueueSkip("pull", ts) \/ EqueueSkip("push", ts)
  \/ \E f \in Files : PullFile(f) \/ PushFile(f)
  \/ PullDone \/ CheckDestination \/ PullNotify \/ PushDone
  \/ unfinished /\ PullError
  \/ store = NoFile /\ PushFail

CloneStep ==
  \/ \E ts \in 1..MaxRuns : CheckBackup(ts) \/ ImportStart(ts)
                            \/ EqueueSkip("check", ts) \/ EqueueSkip("import", ts)
  \/ \E p \in Pieces : ImportHash(p) \/ ImportPiece(p)
  \/ ImportVerify \/ ImportRemove \/ ImportDone

Failure == ExportFail \/ PullCleanFail \/ PullError \/ PushFail \/ PbsRestart \/ ImportFail

Next == ExportStart \/ Export \/ PbsStep \/ CloneStep \/ Failure

Spec == Init /\ [][Next]_vars

\* An exporter that is started and the two equeues go on.
FairSpec == Spec /\ WF_vars(Export) /\ WF_vars(PbsStep) /\ WF_vars(CloneStep)

-----------------------------------------------------------------------------
(* Properties *)

\* The types.
TypeOK ==
  /\ run \in Versions
  /\ exporting \subseteq Files
  /\ source \in Directory /\ mirror \in Directory
  /\ store \in Directory /\ backup \in Directory
  /\ signed \subseteq 1..MaxRuns
  /\ notes \in [Callbacks -> SUBSET Versions]
  /\ latest \in [Callbacks -> Versions]
  /\ pbs \in [task : {"idle", "pull", "cleaning", "checking", "checked", "push"},
              ts : Versions, todo : SUBSET Files]
  /\ unfinished \in BOOLEAN
  /\ pullFeed \in [status : {"none", "OK", "FAILURE"}, ts : Versions]
  /\ diffEmpty \in BOOLEAN
  /\ imp \in [task : {"idle", "verify", "import", "merge"}, ts : Versions,
              todo : SUBSET Pieces]
  /\ proof \in [Pieces -> Versions]
  /\ image \in [Pieces -> Versions]
  /\ imageReady \in BOOLEAN
  /\ lastImage \in [Pieces -> Versions]
  /\ exposed \in BOOLEAN
  /\ failures \in 0..MaxFailures

\* Nothing goes backwards: whatever was lost, interrupted or run late, what is
\* further down the pipeline is never newer than what is further up, file by
\* file, so that no step can replace data with older data.
InOrder ==
  \A f \in Files : /\ backup[f] <= store[f]
                   /\ store[f] <= mirror[f]
                   /\ mirror[f] <= source[f]
                   /\ source[f] <= run

\* The abstract image: none while the importer has not completed one.
ReplicaImage == IF imageReady THEN image ELSE NoPiece

\* An image of the clone is a snapshot the exporter signed, as long as no push
\* changed the directory under its import; when one did, each piece is still at
\* least as recent as a signed snapshot; and no piece is ever older than in the
\* image before: whatever transfers were torn, interrupted, lost or late.
R == INSTANCE Replica WITH image <- ReplicaImage, latest <- lastImage
ImplementsReplica == R!Spec

\* When nothing fails, and once the exporter has no more backup to make, the
\* clone ends with the image of the last one, all of it, however the stages of
\* successive backups, push and import included, overlapped.
UpToDate ==
  \A v \in signed : /\ imageReady
                    /\ \A p \in Pieces : image[p] >= v
                    /\ \A p, q \in Pieces : image[p] = image[q]
CatchesUp == [](failures = 0) => <>[]UpToDate
=============================================================================
