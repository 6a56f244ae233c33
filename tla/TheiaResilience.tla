--------------------------- MODULE TheiaResilience ---------------------------
(***************************************************************************)
(* How theia, an instance that runs a SlapOS of its own, is exported to    *)
(* its backup directory, and restored in a clone (software/theia).         *)
(*                                                                         *)
(* The export removes the signatures of the last one, writes a timestamp,  *)
(* copies its own directories, the database of slapproxy and each          *)
(* partition, signs what is not a partition ("the root") and then each     *)
(* partition, and at last checks that the partitions have not changed      *)
(* since they were copied.  All the while the services of the partitions   *)
(* create, write and delete files.  The backup directory reaches the clone *)
(* as BackupPipeline says: the transfer is external here, in pieces of any *)
(* size.  The import verifies the signatures, stops slapproxy, restores,   *)
(* starts slapproxy and builds the instances again.                        *)
(*                                                                         *)
(* The content of a file is its version, 0 if the file does not exist; the *)
(* services give a file a version that none has had, as the clock does.    *)
(* The version of Timestamp is the number of the export that wrote it.     *)
(***************************************************************************)
EXTENDS Naturals

CONSTANTS
  Partitions,   \* slappart*
  Root,         \* the unit of everything else
  Files,
  Timestamp,    \* etc/.resilient_timestamp
  Unit,         \* the unit of each file
  Kept,         \* files that no service deletes, such as buildout.cfg
  Pieces,       \* what is transferred at once: sets of files and signatures of units
  Custom,       \* partitions with srv/.backup_identity_script
  Watched,      \* files whose name, in their partition, holds /srv/backup/
  MaxRuns,      \* bound: exports
  MaxWrites,    \* bound: files that the services write or delete
  MaxFailures   \* bound: failures and kills

Units == Partitions \cup {Root}
Parts == Units \X {"data", "signature"}

ASSUME TheiaAssumption ==
  /\ Root \notin Partitions
  /\ Unit \in [Files -> Units]
  /\ Timestamp \in Kept /\ Unit[Timestamp] = Root
  /\ Kept \subseteq Files /\ \A u \in Units : \E f \in Kept : Unit[f] = u
  /\ Watched \subseteq {f \in Files : Unit[f] # Root}
  /\ Pieces \subseteq SUBSET Parts /\ UNION Pieces = Parts
  /\ Custom \subseteq Partitions
  /\ MaxRuns \in Nat /\ MaxWrites \in Nat /\ MaxFailures \in Nat

FilesOf(u) == {f \in Files : Unit[f] = u}

VARIABLES
  live,       \* the files of the exported theia
  writes,     \* how many writes and deletions the services have made
  run,        \* number of the last export
  export,     \* the step of the running export, and what is left of it
  source,     \* the backup directory of the export: files and signatures
  changed,    \* the check of the running export found a change
  began,      \* the newest version when each export began (history)
  moment,     \* the files when the copies of each export ended (history)
  copied,     \* what each export copied (history)
  good,       \* the exports that ended without an error (history)
  pending,    \* the backup is to be transferred
  transfer,   \* what the running transfer has still to copy
  clone,      \* the backup directory of the clone
  overlap,    \* what has ever overlapped a transfer or stopped one (history)
  notified,   \* the import is to be run
  import,     \* the step of the running import, and what is left of it
  home,       \* the files of the clone
  proxy,      \* the slapproxy of the clone runs
  importExit, \* import-exitcode-file
  whole,      \* home is what a completed import left (history)
  killed,     \* the last import was killed (history)
  failures

history == <<began, moment, copied, good>>
exportVars == <<live, writes, run, export, source, changed, history>>
transferVars == <<transfer, clone, overlap>>
importVars == <<import, home, proxy, importExit, whole, killed>>
outsideExport == <<pending, transferVars, notified, importVars, failures>>
outsideImport == <<exportVars, pending, transferVars, notified>>
vars == <<exportVars, outsideExport>>

Idle == [at |-> "idle", todo |-> {}]
NoFile == [f \in Files |-> 0]
NoSignature == {}
Empty == [data |-> NoFile, sig |-> [u \in Units |-> NoSignature]]

\* The lines of the signature of a unit: a checksum of each of its files.
Lines(data, u) == {<<f, data[f]>> : f \in {g \in FilesOf(u) : data[g] # 0}}

\* Those files are copied from one place to another, or deleted there.
Copy(from, to, files) == [f \in Files |-> IF f \in files THEN from[f] ELSE to[f]]

Fail == failures < MaxFailures /\ failures' = failures + 1

Init ==
  /\ live \in [Files -> {0, 1}] /\ \A f \in Kept : live[f] = IF f = Timestamp THEN 0 ELSE 1
  /\ writes = 0
  /\ run = 0 /\ export = Idle /\ source = Empty /\ changed = FALSE
  /\ moment = [r \in 1..MaxRuns |-> NoFile] /\ copied = moment
  /\ began = [r \in 1..MaxRuns |-> 0] /\ good = {}
  /\ pending = FALSE /\ transfer = {} /\ clone = Empty /\ overlap = {}
  /\ notified = FALSE /\ import = Idle /\ home = NoFile /\ proxy = TRUE
  /\ importExit = 0 /\ whole = FALSE /\ killed = FALSE
  /\ failures = 0

-----------------------------------------------------------------------------
(* The export: TheiaExport.export, and __call__ around it. *)

\* The newest version of the files of the services.
Newest == writes + 1

\* A service creates or rewrites a file of its partition.
Write(f) ==
  /\ writes < MaxWrites /\ writes' = writes + 1
  /\ Unit[f] # Root
  /\ live' = [live EXCEPT ![f] = Newest + 1]
  /\ UNCHANGED <<run, export, source, changed, history, outsideExport>>

Delete(f) ==
  /\ writes < MaxWrites /\ writes' = writes + 1
  /\ Unit[f] # Root /\ f \notin Kept /\ live[f] # 0
  /\ live' = [live EXCEPT ![f] = 0]
  /\ UNCHANGED <<run, export, source, changed, history, outsideExport>>

\* The timestamp is written, and the signatures of the last export removed.
ExportStart ==
  /\ export = Idle /\ run < MaxRuns
  /\ run' = run + 1
  /\ live' = [live EXCEPT ![Timestamp] = run + 1]
  /\ source' = [source EXCEPT !.sig = Empty.sig]
  /\ export' = [at |-> "root", todo |-> {}]
  /\ changed' = FALSE
  /\ began' = [began EXCEPT ![run + 1] = Newest]
  /\ overlap' = overlap \cup IF transfer = {} THEN {} ELSE {"export"}
  /\ UNCHANGED <<writes, moment, copied, good, pending, transfer, clone,
                 notified, importVars, failures>>

\* The timestamp, the directories, the files and the database of slapproxy.
BackupRoot ==
  /\ export.at = "root"
  /\ source' = [source EXCEPT !.data = Copy(live, source.data, FilesOf(Root))]
  /\ export' = [at |-> "copy", todo |-> Files \ FilesOf(Root)]
  /\ UNCHANGED <<live, writes, run, changed, history, outsideExport>>

\* rsync copies the files of a partition, or deletes their copies, one partition
\* after the other.
BackupPartition(f) ==
  /\ export.at = "copy" /\ f \in export.todo
  /\ \A g \in export.todo : Unit[g] = Unit[f] \/ FilesOf(Unit[g]) \subseteq export.todo
  /\ source' = [source EXCEPT !.data = Copy(live, source.data, {f})]
  /\ export' = [export EXCEPT !.todo = @ \ {f}]
  /\ UNCHANGED <<live, writes, run, changed, history, outsideExport>>

\* A signature is written aside and moved to its place.
SignRoot ==
  /\ export.at = "copy" /\ export.todo = {}
  /\ source' = [source EXCEPT !.sig[Root] = Lines(source.data, Root)]
  /\ export' = [at |-> "sign", todo |-> Partitions]
  /\ moment' = [moment EXCEPT ![run] = live]
  /\ copied' = [copied EXCEPT ![run] = source.data]
  /\ UNCHANGED <<live, writes, run, changed, began, good, outsideExport>>

SignPartition(p) ==
  /\ export.at = "sign" /\ p \in export.todo
  /\ source' = [source EXCEPT !.sig[p] = Lines(source.data, p)]
  /\ export' = [export EXCEPT !.todo = @ \ {p}]
  /\ UNCHANGED <<live, writes, run, changed, history, outsideExport>>

\* Ten seconds later.
CheckStart ==
  /\ export.at = "sign" /\ export.todo = {}
  /\ export' = [at |-> "check", todo |-> Partitions]
  /\ UNCHANGED <<live, writes, run, source, changed, history, outsideExport>>

\* Mutant: the dry run does not tell what it would delete.
CheckPartition_NewOnly(p) ==
  /\ export.at = "check" /\ p \in export.todo
  /\ export' = [export EXCEPT !.todo = @ \ {p}]
  /\ changed' = (changed \/ \E f \in Watched \cap FilesOf(p) : live[f] > source.data[f])
  /\ UNCHANGED <<live, writes, run, source, history, outsideExport>>

\* A dry run of the copy tells the files that are newer than their copy, and the
\* copies of files that are no more.
CheckPartition(p) ==
  /\ export.at = "check" /\ p \in export.todo
  /\ export' = [export EXCEPT !.todo = @ \ {p}]
  /\ changed' = (changed \/ \E f \in Watched \cap FilesOf(p) :
                    live[f] > source.data[f] \/ (live[f] = 0 /\ source.data[f] # 0))
  /\ UNCHANGED <<live, writes, run, source, history, outsideExport>>

\* Exit code 0, and the notifier has the backup pulled; or the error, and not.
ExportEnd ==
  /\ export.at = "check" /\ export.todo = {}
  /\ export' = Idle
  /\ IF changed THEN UNCHANGED <<good, pending>>
                ELSE good' = good \cup {run} /\ pending' = TRUE
  /\ UNCHANGED <<live, writes, run, source, changed, began, moment, copied,
                 transferVars, notified, importVars, failures>>

\* A command of the export fails, or the export is killed: the backup stays as
\* it is, with the signatures it has.
ExportFail ==
  /\ export # Idle
  /\ Fail
  /\ export' = Idle
  /\ UNCHANGED <<live, writes, run, source, changed, history, pending,
                 transferVars, notified, importVars>>

-----------------------------------------------------------------------------
(* The transfer (external: BackupPipeline models it). *)

\* The backup of the clone once these files and signatures are as in the export.
Arrive(q) ==
  [data |-> Copy(source.data, clone.data, {f \in Files : <<Unit[f], "data">> \in q}),
   sig |-> [u \in Units |-> IF <<u, "signature">> \in q THEN source.sig[u] ELSE clone.sig[u]]]

TransferStart ==
  /\ pending /\ transfer = {}
  /\ pending' = FALSE
  /\ transfer' = Pieces
  /\ overlap' = overlap \cup (IF export = Idle THEN {} ELSE {"export"})
                        \cup (IF import = Idle THEN {} ELSE {"import"})
  /\ UNCHANGED <<exportVars, clone, notified, importVars, failures>>

\* Mutant: a backup that arrives while an import runs is not imported.
TransferPiece_NotNow(q) ==
  /\ q \in transfer
  /\ transfer' = transfer \ {q}
  /\ clone' = Arrive(q)
  /\ notified' = (notified \/ (transfer' = {} /\ import = Idle))
  /\ UNCHANGED <<exportVars, pending, overlap, importVars, failures>>

TransferPiece(q) ==
  /\ q \in transfer
  /\ transfer' = transfer \ {q}
  /\ clone' = Arrive(q)
  /\ notified' = (notified \/ transfer' = {})
  /\ UNCHANGED <<exportVars, pending, overlap, importVars, failures>>

\* The equeue runs a transfer that failed again; until then the clone has part of it.
TransferFail ==
  /\ transfer # {}
  /\ Fail
  /\ transfer' = {} /\ pending' = TRUE
  /\ overlap' = overlap \cup {"failure"}
  /\ UNCHANGED <<exportVars, clone, notified, importVars>>

-----------------------------------------------------------------------------
(* The import: TheiaImport.restore, and __call__ around it. *)

Mirrors == {p \in Partitions : Lines(clone.data, p) # {}}

ImportStart ==
  /\ notified /\ import = Idle
  /\ notified' = FALSE
  /\ import' = [at |-> "verify", todo |-> {Root} \cup Mirrors]
  /\ overlap' = overlap \cup IF transfer = {} THEN {} ELSE {"import"}
  /\ UNCHANGED <<exportVars, pending, transfer, clone, home, proxy, importExit,
                 whole, killed, failures>>

\* Mutant: it is enough that there is a signature.
Matches_Present(u) == clone.sig[u] # NoSignature

\* The lines of a signature are looked for in the backup: a file that no line
\* names is not seen.  A custom signature is made again and compared, at the
\* end of the import, with the script the import has restored.
Matches(u) ==
  LET sig == clone.sig[u] IN
  /\ sig # NoSignature
  /\ u \notin Custom => \A l \in sig : clone.data[l[1]] = l[2]
  /\ u \in Custom /\ import.at = "customs" => sig = Lines(clone.data, u)

\* After the root, the partitions; after the last one, slapproxy is stopped.
Verify(u) ==
  /\ import.at = "verify" /\ u \in import.todo
  /\ Root \in import.todo => u = Root
  /\ Matches(u)
  /\ IF import.todo = {u}
     THEN import' = [at |-> "stop", todo |-> Mirrors]
     ELSE import' = [import EXCEPT !.todo = @ \ {u}]
  /\ UNCHANGED <<outsideImport, home, proxy, importExit, whole, killed, failures>>

VerifyFail(u) ==
  /\ import.at \in {"verify", "customs"} /\ u \in import.todo
  /\ Root \in import.todo => u = Root
  /\ ~Matches(u)
  /\ import' = Idle
  /\ importExit' = 1 /\ killed' = FALSE
  /\ UNCHANGED <<outsideImport, home, proxy, whole, failures>>

StopProxy ==
  /\ import.at = "stop"
  /\ proxy' = FALSE /\ whole' = FALSE
  /\ import' = [import EXCEPT !.at = "restore"]
  /\ UNCHANGED <<outsideImport, home, importExit, killed, failures>>

RestorePartition(p) ==
  /\ import.at = "restore" /\ p \in import.todo
  /\ home' = Copy(clone.data, home, FilesOf(p))
  /\ import' = [import EXCEPT !.todo = @ \ {p}]
  /\ UNCHANGED <<outsideImport, proxy, importExit, whole, killed, failures>>

\* Directories, files, database, and last the timestamp, that must be there.
RestoreRoot ==
  /\ import.at = "restore" /\ import.todo = {}
  /\ clone.data[Timestamp] # 0
  /\ home' = Copy(clone.data, home, FilesOf(Root))
  /\ import' = [import EXCEPT !.at = "start"]
  /\ UNCHANGED <<outsideImport, proxy, importExit, whole, killed, failures>>

StartProxy ==
  /\ import.at = "start"
  /\ proxy' = TRUE
  /\ import' = [at |-> "customs", todo |-> Mirrors \cap Custom]
  /\ UNCHANGED <<outsideImport, home, importExit, whole, killed, failures>>

\* Once slapproxy answers: format, prune, software and instance, then the
\* custom signatures.
VerifyCustom(p) ==
  /\ import.at = "customs" /\ p \in import.todo
  /\ Matches(p)
  /\ import' = [import EXCEPT !.todo = @ \ {p}]
  /\ UNCHANGED <<outsideImport, home, proxy, importExit, whole, killed, failures>>

ImportEnd ==
  /\ import.at = "customs" /\ import.todo = {}
  /\ import' = Idle
  /\ importExit' = 0 /\ whole' = TRUE /\ killed' = FALSE
  /\ UNCHANGED <<outsideImport, home, proxy, failures>>

\* Mutant: the exit file is not written in a finally clause.
ImportFail_NoFinally(kill) ==
  /\ import # Idle
  /\ Fail
  /\ import' = Idle
  /\ killed' = kill
  /\ UNCHANGED <<outsideImport, home, proxy, whole, importExit>>

\* A command fails (its last attempt, if it is tried again) and the finally
\* clause writes 1; or the import is killed, and the exit file keeps its value.
ImportFail(kill) ==
  /\ import # Idle
  /\ Fail
  /\ import' = Idle
  /\ killed' = kill /\ importExit' = IF kill THEN importExit ELSE 1
  /\ UNCHANGED <<outsideImport, home, proxy, whole>>

-----------------------------------------------------------------------------
Services == \E f \in Files : Write(f) \/ Delete(f)
Export == ExportStart \/ BackupRoot \/ SignRoot \/ CheckStart \/ ExportEnd
          \/ \E f \in Files : BackupPartition(f)
          \/ \E p \in Partitions : SignPartition(p) \/ CheckPartition(p)
Transfer == TransferStart \/ \E q \in Pieces : TransferPiece(q)
Import == ImportStart \/ StopProxy \/ RestoreRoot \/ StartProxy \/ ImportEnd
          \/ \E u \in Units : Verify(u) \/ VerifyFail(u)
          \/ \E p \in Partitions : RestorePartition(p) \/ VerifyCustom(p)

Next == \/ Export \/ Transfer \/ Import
        \/ Services
        \/ ExportFail \/ TransferFail
        \/ \E kill \in BOOLEAN : ImportFail(kill)

Spec == Init /\ [][Next]_vars

\* cron, the equeue and the notifier go on; every command ends.
FairSpec == Spec /\ WF_vars(Export) /\ WF_vars(Transfer) /\ WF_vars(Import)

-----------------------------------------------------------------------------
(* Properties. *)

(* Each step of an export or of an import has something of its own to do: a *)
(* verification is always of a unit, and restores follow the last of them.  *)
TypeOK ==
  /\ live \in [Files -> Nat] /\ writes \in 0..MaxWrites /\ run \in 0..MaxRuns
  /\ export.at \in {"idle", "root", "copy", "sign", "check"}
  /\ export.todo \subseteq Files \cup Partitions
  /\ source.data \in [Files -> Nat] /\ clone.data \in [Files -> Nat]
  /\ DOMAIN source.sig = Units /\ DOMAIN clone.sig = Units
  /\ changed \in BOOLEAN /\ pending \in BOOLEAN /\ notified \in BOOLEAN
  /\ began \in [1..MaxRuns -> Nat]
  /\ moment \in [1..MaxRuns -> [Files -> Nat]]
  /\ copied \in [1..MaxRuns -> [Files -> Nat]]
  /\ good \subseteq 1..MaxRuns
  /\ transfer \subseteq Pieces /\ overlap \subseteq {"export", "import", "failure"}
  /\ import.at \in {"idle", "verify", "stop", "restore", "start", "customs"}
  /\ import.todo \subseteq Units
  /\ import.at = "verify" => import.todo # {}
  /\ home \in [Files -> Nat] /\ proxy \in BOOLEAN /\ importExit \in {0, 1}
  /\ whole \in BOOLEAN /\ killed \in BOOLEAN /\ failures \in 0..MaxFailures

(* What "Some files have been modified since the backup started" is for: if *)
(* the timestamp of a restored theia is that of an export that succeeded,   *)
(* and nothing overlapped a transfer or stopped one, every file the check   *)
(* watches is as it was at one moment; a file that was there only then,     *)
(* created since the export began and deleted before the check, is missing. *)
OneMoment ==
  LET r == home[Timestamp] IN
  (whole /\ overlap = {} /\ r \in good) =>
    \A f \in Watched : \/ home[f] = moment[r][f]
                       \/ home[f] = 0 /\ moment[r][f] > began[r]

(* Even when an export overlaps the transfer, or the transfer fails half    *)
(* way, the signatures let an import complete only with what one export     *)
(* copied in each partition and in the root: partitions may be of two       *)
(* exports, never one partition.  A file that this export did not copy may  *)
(* be there too then, since no signature tells that a file is one too many. *)
UnitsIntact ==
  (whole /\ "import" \notin overlap) =>
    \A u \in Units : \E r \in 1..run :
      /\ Lines(copied[r], u) # {}
      /\ Lines(copied[r], u) \subseteq Lines(home, u)
      /\ overlap = {} => Lines(home, u) = Lines(copied[r], u)

(* The promise that reads the exit file is not satisfied by a theia whose   *)
(* slapproxy an import has left stopped, unless that import was killed.     *)
ExitFileTells == (importExit = 0 /\ import = Idle /\ ~killed) => proxy

(* The backup of the last export, if it succeeded, reaches the clone once   *)
(* it is to be transferred and nothing fails any more: earlier transfers    *)
(* and imports may have been overlapped by later ones, been refused, or     *)
(* failed and left slapproxy stopped.                                       *)
Cloned ==
  \A k \in 0..MaxFailures :
    (run = MaxRuns /\ run \in good /\ pending /\ failures = k)
      ~> (failures > k \/ (whole /\ proxy /\ importExit = 0 /\ home[Timestamp] = run))

=============================================================================
