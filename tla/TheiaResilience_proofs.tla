------------------------ MODULE TheiaResilience_proofs ------------------------
(* An import leaves slapproxy running or says so, and restores whole units.   *)
EXTENDS TheiaResilience, TLAPS

ImportSteps == {"idle", "verify", "stop", "restore", "start", "customs"}

ImportTyped ==
  /\ import \in [at : ImportSteps, todo : SUBSET Units]
  /\ proxy \in BOOLEAN

\* An import that can still succeed has nothing left to do that needs slapproxy stopped.
ProxyBack == import.at = "customs" => proxy

ExitInv == ImportTyped /\ ProxyBack /\ ExitFileTells

LEMMA ExitInvInit == Init => ExitInv
  BY DEF Init, ExitInv, ImportTyped, ProxyBack, ExitFileTells, Idle, ImportSteps, Units

\* The export and the transfer do not touch what the invariant is about.
LEMMA OthersLeaveTheImport ==
  ASSUME \/ ExportStart \/ BackupRoot \/ SignRoot \/ CheckStart \/ ExportEnd
         \/ \E f \in Files : BackupPartition(f)
         \/ Services
         \/ \E p \in Partitions : SignPartition(p) \/ CheckPartition(p)
         \/ Transfer \/ ExportFail \/ TransferFail
  PROVE  UNCHANGED <<import, proxy, importExit, killed>>
  BY DEF ExportStart, BackupRoot, SignRoot, CheckStart, ExportEnd, BackupPartition, Services,
         Write, Delete,
         SignPartition, CheckPartition, Transfer, TransferStart, TransferPiece,
         ExportFail, TransferFail, outsideExport, importVars

LEMMA ExitInvStep == ExitInv /\ [Next]_vars => ExitInv'
<1> SUFFICES ASSUME ExitInv, [Next]_vars PROVE ExitInv'
  OBVIOUS
<1> USE DEF ExitInv, ImportTyped, ProxyBack, ExitFileTells, Idle, ImportSteps
<1>0. Mirrors \subseteq Units /\ Root \in Units
  BY DEF Mirrors, Units
<1>1. CASE ImportStart
  BY <1>0, <1>1 DEF ImportStart
<1>2. CASE StopProxy
  BY <1>2 DEF StopProxy
<1>3. CASE RestoreRoot
  BY <1>3 DEF RestoreRoot
<1>4. CASE StartProxy
  BY <1>0, <1>4 DEF StartProxy
<1>5. CASE ImportEnd
  BY <1>5 DEF ImportEnd
<1>6. ASSUME NEW u \in Units, Verify(u) \/ VerifyFail(u)
      PROVE  ExitInv'
  BY <1>0, <1>6 DEF Verify, VerifyFail
<1>7. ASSUME NEW p \in Partitions, RestorePartition(p) \/ VerifyCustom(p)
      PROVE  ExitInv'
  BY <1>7 DEF RestorePartition, VerifyCustom
<1>8. ASSUME NEW kill \in BOOLEAN, ImportFail(kill)
      PROVE  ExitInv'
  \* A kill is remembered, and the finally clause writes 1 otherwise.
  BY <1>8 DEF ImportFail
<1>9. CASE UNCHANGED <<import, proxy, importExit, killed>>
  BY <1>9
<1>10. CASE UNCHANGED vars
  BY <1>9, <1>10 DEF vars, outsideExport, importVars
<1> QED
  BY <1>1, <1>2, <1>3, <1>4, <1>5, <1>6, <1>7, <1>8, <1>9, <1>10, OthersLeaveTheImport
  DEF Next, Export, Import

\* Whatever fails, and however many imports are refused, killed or run again: an exit file
\* that says 0 after an import that was not killed is that of a theia with its slapproxy.
THEOREM ExitFileIsRight == Spec => []ExitFileTells
<1>1. ExitInv => ExitFileTells
  BY DEF ExitInv
<1> QED
  BY <1>1, ExitInvInit, ExitInvStep, PTL DEF Spec
-----------------------------------------------------------------------------
(* UnitsIntact: types first, then what the export leaves in its backup, what *)
(* the transfers carry to the clone, and what an import has verified of it.   *)

ExportSteps == {"idle", "root", "copy", "sign", "check"}
Data == [Files -> Nat]
Backups == [data : Data, sig : [Units -> SUBSET (Files \X Nat)]]

ExportTyped ==
  /\ live \in Data /\ writes \in Nat /\ run \in 0..MaxRuns
  /\ export \in [at : ExportSteps, todo : SUBSET (Files \cup Partitions)]
  /\ source \in Backups
  /\ copied \in [1..MaxRuns -> Data]

CloneTyped ==
  /\ transfer \subseteq Pieces /\ clone \in Backups
  /\ home \in Data /\ whole \in BOOLEAN

Typed == ExportTyped /\ CloneTyped /\ ExitInv

LEMMA CopyTyped ==
  ASSUME NEW from \in Data, NEW to \in Data, NEW files
  PROVE  /\ Copy(from, to, files) \in Data
         /\ \A f \in Files : Copy(from, to, files)[f] = IF f \in files THEN from[f] ELSE to[f]
  BY DEF Copy, Data

LEMMA LinesTyped ==
  ASSUME NEW data \in Data, NEW u
  PROVE  Lines(data, u) \in SUBSET (Files \X Nat)
  BY DEF Lines, FilesOf, Data

LEMMA EmptyTyped == Empty \in Backups /\ NoFile \in Data
  BY DEF Empty, NoFile, NoSignature, Backups, Data

LEMMA TypedInit == Init => Typed
<1> SUFFICES ASSUME Init PROVE Typed
  OBVIOUS
<1>1. ExitInv
  BY ExitInvInit
<1>2. ExportTyped
  <2>1. live \in Data /\ writes \in Nat /\ run = 0 /\ 0 \in 0..MaxRuns
    BY TheiaAssumption DEF Init, Data
  <2>2. export \in [at : ExportSteps, todo : SUBSET (Files \cup Partitions)]
    BY DEF Init, Idle, ExportSteps
  <2>3. source \in Backups /\ copied \in [1..MaxRuns -> Data]
    BY EmptyTyped DEF Init
  <2> QED
    BY <2>1, <2>2, <2>3 DEF ExportTyped
<1>3. CloneTyped
  BY EmptyTyped DEF Init, CloneTyped
<1> QED
  BY <1>1, <1>2, <1>3 DEF Typed

\* The import and the transfer leave the export alone.
LEMMA ImportLeavesTheExport ==
  ASSUME Transfer \/ Import \/ TransferFail \/ \E kill \in BOOLEAN : ImportFail(kill)
  PROVE  UNCHANGED exportVars
  BY DEF Transfer, TransferStart, TransferPiece, TransferFail, Import,
         ImportStart, StopProxy, RestoreRoot, StartProxy, ImportEnd, Verify, VerifyFail,
         RestorePartition, VerifyCustom, ImportFail, outsideImport, exportVars

LEMMA ExportTypedStep == Typed /\ [Next]_vars => ExportTyped'
<1> SUFFICES ASSUME Typed, [Next]_vars PROVE ExportTyped'
  OBVIOUS
<1> USE DEF Typed, ExportTyped, ExportSteps, history
<1>1. CASE ExportStart
  <2>1. source' \in Backups
    BY <1>1, EmptyTyped DEF ExportStart, Backups
  <2>2. run' = run + 1 /\ run' \in 0..MaxRuns /\ run + 1 \in Nat
    BY <1>1, TheiaAssumption DEF ExportStart
  <2>3. live' \in Data
    BY <1>1, <2>2 DEF ExportStart, Data
  <2> QED
    BY <1>1, <2>1, <2>2, <2>3 DEF ExportStart
<1>2. CASE BackupRoot
  <2>1. source' \in Backups
    BY <1>2, CopyTyped DEF BackupRoot, Backups
  <2> QED
    BY <1>2, <2>1 DEF BackupRoot
<1>3. ASSUME NEW f \in Files, BackupPartition(f) PROVE ExportTyped'
  <2>1. source' \in Backups
    BY <1>3, CopyTyped DEF BackupPartition, Backups
  <2> QED
    BY <1>3, <2>1 DEF BackupPartition
<1>4. CASE SignRoot
  <2>1. source' \in Backups
    BY <1>4, LinesTyped DEF SignRoot, Backups
  <2>2. copied' \in [1..MaxRuns -> Data]
    BY <1>4 DEF SignRoot, Backups
  <2> QED
    BY <1>4, <2>1, <2>2 DEF SignRoot
<1>5. ASSUME NEW p \in Partitions, SignPartition(p) PROVE ExportTyped'
  <2>1. source' \in Backups
    BY <1>5, LinesTyped DEF SignPartition, Backups
  <2> QED
    BY <1>5, <2>1 DEF SignPartition
<1>6. CASE CheckStart
  BY <1>6 DEF CheckStart
<1>7. ASSUME NEW p \in Partitions, CheckPartition(p) PROVE ExportTyped'
  BY <1>7 DEF CheckPartition
<1>8. CASE ExportEnd \/ ExportFail
  BY <1>8 DEF ExportEnd, ExportFail, Idle
<1>9. ASSUME NEW f \in Files, Write(f) \/ Delete(f) PROVE ExportTyped'
  BY <1>9 DEF Write, Delete, Newest, Data
<1>10. CASE UNCHANGED exportVars
  BY <1>10 DEF exportVars
<1>11. CASE UNCHANGED vars
  BY <1>10, <1>11 DEF vars
<1> QED
  BY <1>1, <1>2, <1>3, <1>4, <1>5, <1>6, <1>7, <1>8, <1>9, <1>10, <1>11,
     ImportLeavesTheExport
  DEF Next, Export, Services

\* Only what the piece holds changes in the clone.
LEMMA ArriveTyped ==
  ASSUME Typed, NEW q
  PROVE  /\ Arrive(q) \in Backups
         /\ \A f \in Files : Arrive(q).data[f] =
              IF <<Unit[f], "data">> \in q THEN source.data[f] ELSE clone.data[f]
         /\ \A u \in Units : Arrive(q).sig[u] =
              IF <<u, "signature">> \in q THEN source.sig[u] ELSE clone.sig[u]
<1> DEFINE files == {f \in Files : <<Unit[f], "data">> \in q}
<1>1. source \in Backups /\ clone \in Backups
  BY DEF Typed, ExportTyped, CloneTyped
<1>2. source.data \in Data /\ clone.data \in Data
  BY <1>1 DEF Backups
<1>3. /\ Copy(source.data, clone.data, files) \in Data
      /\ \A f \in Files : Copy(source.data, clone.data, files)[f] =
           IF f \in files THEN source.data[f] ELSE clone.data[f]
  BY <1>2, CopyTyped
<1> QED
  BY <1>1, <1>3 DEF Arrive, Backups

\* The export leaves the clone alone.
LEMMA ExportLeavesTheClone ==
  ASSUME Export \/ ExportFail \/ Services
  PROVE  /\ UNCHANGED <<transfer, clone, notified, import, home, whole>>
         /\ overlap \subseteq overlap'
         /\ "import" \in overlap' => "import" \in overlap
  BY DEF Export, ExportStart, BackupRoot, BackupPartition, SignRoot, SignPartition, CheckStart,
         CheckPartition, ExportEnd, ExportFail, Services, Write, Delete, outsideExport,
         transferVars, importVars

LEMMA CloneTypedStep == Typed /\ [Next]_vars => CloneTyped'
<1> SUFFICES ASSUME Typed, [Next]_vars PROVE CloneTyped'
  OBVIOUS
<1> USE DEF Typed, CloneTyped, ExportTyped, outsideImport, transferVars
<1>1. CASE TransferStart
  BY <1>1 DEF TransferStart, importVars
<1>2. ASSUME NEW q \in Pieces, TransferPiece(q) PROVE CloneTyped'
  BY <1>2, ArriveTyped DEF TransferPiece, importVars
<1>3. CASE TransferFail
  BY <1>3 DEF TransferFail, importVars
<1>4. ASSUME NEW p \in Partitions, RestorePartition(p) PROVE CloneTyped'
  <2>1. home' \in Data
    BY <1>4, CopyTyped DEF RestorePartition, Backups
  <2> QED
    BY <1>4, <2>1 DEF RestorePartition
<1>5. CASE RestoreRoot
  <2>1. home' \in Data
    BY <1>5, CopyTyped DEF RestoreRoot, Backups
  <2> QED
    BY <1>5, <2>1 DEF RestoreRoot
<1>6. CASE StopProxy \/ ImportEnd
  BY <1>6 DEF StopProxy, ImportEnd
<1>7. CASE \/ ImportStart \/ StartProxy
           \/ \E u \in Units : Verify(u) \/ VerifyFail(u)
           \/ \E p \in Partitions : VerifyCustom(p)
           \/ \E kill \in BOOLEAN : ImportFail(kill)
  BY <1>7 DEF ImportStart, StartProxy, Verify, VerifyFail, VerifyCustom, ImportFail
<1>8. CASE Export \/ ExportFail \/ Services
  BY <1>8, ExportLeavesTheClone
<1>9. CASE UNCHANGED vars
  BY <1>9 DEF vars, outsideExport, importVars
<1> QED
  BY <1>1, <1>2, <1>3, <1>4, <1>5, <1>6, <1>7, <1>8, <1>9 DEF Next, Transfer, Import

LEMMA TypedStep == Typed /\ [Next]_vars => Typed'
  BY ExportTypedStep, CloneTypedStep, ExitInvStep DEF Typed

-----------------------------------------------------------------------------
(* The backup directory of the export. *)

\* What no service deletes is there.
Complete(data) == \A f \in Kept : data[f] # 0

\* From the first export on that is so of the exported theia, and of each copy that went
\* on to the signatures.  What an export copied is written down once.
SourceSound ==
  /\ \A f \in Kept : f # Timestamp => live[f] # 0
  /\ live[Timestamp] = run
  /\ export.at # "idle" => run # 0
  /\ export.at = "copy" => \A f \in Kept \ export.todo : source.data[f] # 0
  /\ export.at \in {"sign", "check"} => Complete(source.data) /\ copied[run] = source.data
  /\ export.at \in {"root", "copy"} => ~Complete(copied[run])
  /\ \A r \in 1..MaxRuns : r > run => copied[r] = NoFile

LEMMA NoFileIncomplete == ~Complete(NoFile)
  BY TheiaAssumption DEF Complete, NoFile

LEMMA SourceSoundInit == Init => SourceSound
<1> SUFFICES ASSUME Init PROVE SourceSound
  OBVIOUS
<1> USE DEF Init
<1>1. /\ \A f \in Kept : f # Timestamp => live[f] # 0
      /\ live[Timestamp] = run /\ export.at = "idle"
  BY TheiaAssumption DEF Idle
<1>2. \A r \in 1..MaxRuns : copied[r] = NoFile
  OBVIOUS
<1> QED
  BY <1>1, <1>2 DEF SourceSound

LEMMA SourceSoundStep == Typed /\ SourceSound /\ [Next]_vars => SourceSound'
<1> SUFFICES ASSUME Typed, SourceSound, [Next]_vars PROVE SourceSound'
  OBVIOUS
<1> USE DEF Typed, ExportTyped, ExportSteps, SourceSound, Complete, history
<1>1. CASE ExportStart
  <2>1. /\ run' = run + 1 /\ run' \in 1..MaxRuns /\ export'.at = "root"
        /\ live' = [live EXCEPT ![Timestamp] = run'] /\ UNCHANGED copied
    BY <1>1, TheiaAssumption DEF ExportStart
  <2>2. live'[Timestamp] = run' /\ \A f \in Kept : f # Timestamp => live'[f] # 0
    BY <2>1, TheiaAssumption DEF Data
  <2>3. copied[run'] = NoFile
    BY <2>1
  <2> QED
    BY <2>1, <2>2, <2>3, NoFileIncomplete
<1>2. CASE BackupRoot
  <2>1. /\ export.at = "root" /\ UNCHANGED <<live, run, copied>>
        /\ export' = [at |-> "copy", todo |-> Files \ FilesOf(Root)]
        /\ source'.data = Copy(live, source.data, FilesOf(Root))
    BY <1>2 DEF BackupRoot, Backups
  <2>2. \A f \in Kept \ export'.todo : source'.data[f] = live[f] /\ live[f] # 0
    BY <2>1, CopyTyped, TheiaAssumption DEF Backups
  <2> QED
    BY <2>1, <2>2
<1>3. ASSUME NEW f \in Files, BackupPartition(f) PROVE SourceSound'
  <2>1. /\ export.at = "copy" /\ export'.at = "copy" /\ export'.todo = export.todo \ {f}
        /\ UNCHANGED <<live, run, copied>>
        /\ source'.data = Copy(live, source.data, {f})
    BY <1>3 DEF BackupPartition, Backups
  <2>2. \A g \in Kept \ export'.todo : source'.data[g] # 0
    BY <2>1, CopyTyped, TheiaAssumption DEF Backups
  <2> QED
    BY <2>1, <2>2
<1>4. CASE SignRoot
  <2>1. /\ export.at = "copy" /\ export.todo = {} /\ export'.at = "sign"
        /\ source'.data = source.data /\ UNCHANGED <<live, run>>
        /\ copied' = [copied EXCEPT ![run] = source.data]
    BY <1>4 DEF SignRoot, Backups
  <2>2. run \in 1..MaxRuns
    BY <2>1
  <2> QED
    BY <2>1, <2>2
<1>5. CASE CheckStart \/ ExportEnd \/ ExportFail
  <2>1. /\ export'.at = "idle" \/ (export.at = "sign" /\ export'.at = "check")
        /\ UNCHANGED <<live, run, source, copied>>
    BY <1>5 DEF CheckStart, ExportEnd, ExportFail, Idle
  <2> QED
    BY <2>1
<1>6. ASSUME NEW p \in Partitions, SignPartition(p) PROVE SourceSound'
  <2>1. /\ export'.at = export.at /\ export.at = "sign" /\ source'.data = source.data
        /\ UNCHANGED <<live, run, copied>>
    BY <1>6 DEF SignPartition, Backups
  <2> QED
    BY <2>1
<1>7. ASSUME NEW p \in Partitions, CheckPartition(p) PROVE SourceSound'
  BY <1>7 DEF CheckPartition
<1>8. ASSUME NEW f \in Files, Write(f) \/ Delete(f) PROVE SourceSound'
  <2>1. f # Timestamp /\ UNCHANGED <<run, export, source, copied>>
    BY <1>8, TheiaAssumption DEF Write, Delete
  <2>2. Newest + 1 # 0
    BY DEF Newest
  <2>3. (f \in Kept => live'[f] # 0) /\ \A g \in Files \ {f} : live'[g] = live[g]
    BY <1>8, <2>2 DEF Write, Delete, Data
  <2> QED
    BY <2>1, <2>3, TheiaAssumption
<1>9. CASE UNCHANGED exportVars
  BY <1>9 DEF exportVars
<1>10. CASE UNCHANGED vars
  BY <1>9, <1>10 DEF vars
<1> QED
  BY <1>1, <1>2, <1>3, <1>4, <1>5, <1>6, <1>7, <1>8, <1>9, <1>10, ImportLeavesTheExport
  DEF Next, Export, Services

-----------------------------------------------------------------------------
(* Signatures, and what the clone has.                                       *)

\* The exports that have copied everything.
Copies == {r \in 1..run : Complete(copied[r])}

\* A copy that is complete stays what it is.
LEMMA CopiesStay ==
  ASSUME Typed, SourceSound, [Next]_vars
  PROVE  \A r \in Copies : r \in Copies' /\ copied'[r] = copied[r]
<1> USE DEF Copies, Typed, ExportTyped
<1>1. CASE ExportStart
  <2>1. run' = run + 1 /\ run \in Nat /\ UNCHANGED copied
    BY <1>1, TheiaAssumption DEF ExportStart
  <2> QED
    BY <2>1
<1>2. CASE SignRoot
  \* The export that is signed had none.
  <2>1. /\ run' = run /\ run \notin Copies
        /\ \A r \in 1..MaxRuns : r # run => copied'[r] = copied[r]
    BY <1>2 DEF SignRoot, SourceSound
  <2>2. 1..run \subseteq 1..MaxRuns
    BY TheiaAssumption
  <2> QED
    BY <2>1, <2>2 DEF Complete
<1>3. CASE UNCHANGED <<run, copied>>
  BY <1>3
<1>4. CASE UNCHANGED exportVars
  BY <1>3, <1>4 DEF exportVars, history
<1>5. CASE \/ BackupRoot \/ CheckStart \/ ExportEnd \/ ExportFail
           \/ \E f \in Files : BackupPartition(f)
           \/ Services
           \/ \E p \in Partitions : SignPartition(p) \/ CheckPartition(p)
  BY <1>3, <1>5 DEF BackupRoot, CheckStart, ExportEnd, ExportFail, BackupPartition, Services,
                    Write, Delete,
                    SignPartition, CheckPartition, history
<1>6. CASE UNCHANGED vars
  BY <1>4, <1>6 DEF vars
<1> QED
  BY <1>1, <1>2, <1>4, <1>5, <1>6, ImportLeavesTheExport DEF Next, Export

\* Each signature is of what one export copied.
Signed(sig) ==
  \A u \in Units : sig[u] = NoSignature \/ \E r \in Copies : sig[u] = Lines(copied[r], u)

LEMMA LinesStay ==
  ASSUME Typed, SourceSound, [Next]_vars, NEW u, NEW sig,
         \E r \in Copies : sig = Lines(copied[r], u)
  PROVE  \E r \in Copies' : sig = Lines(copied'[r], u)
  BY CopiesStay

SignaturesSound == Signed(source.sig) /\ Signed(clone.sig)

LEMMA SignaturesSoundInit == Init => SignaturesSound
  BY DEF Init, Empty, SignaturesSound, Signed

LEMMA SignaturesSoundStep ==
  Typed /\ SourceSound /\ SignaturesSound /\ [Next]_vars => SignaturesSound'
<1> SUFFICES ASSUME Typed, SourceSound, SignaturesSound, [Next]_vars,
                    NEW u \in Units
             PROVE  /\ source'.sig[u] = NoSignature
                       \/ \E r \in Copies' : source'.sig[u] = Lines(copied'[r], u)
                    /\ clone'.sig[u] = NoSignature
                       \/ \E r \in Copies' : clone'.sig[u] = Lines(copied'[r], u)
  BY DEF SignaturesSound, Signed
<1> DEFINE Good(sig) == sig = NoSignature \/ \E r \in Copies : sig = Lines(copied[r], u)
           GoodNow(sig) == sig = NoSignature \/ \E r \in Copies' : sig = Lines(copied'[r], u)
<1>1. Good(source.sig[u]) /\ Good(clone.sig[u])
  BY DEF SignaturesSound, Signed
<1>2. \A sig : Good(sig) => GoodNow(sig)
  BY LinesStay
<1>3. source'.sig[u] \in {NoSignature, source.sig[u]} \/ GoodNow(source'.sig[u])
  <2>1. CASE ExportStart
    BY <2>1 DEF ExportStart, Empty, Typed, ExportTyped, Backups
  <2>2. CASE SignRoot
    <3>1. /\ run \in 1..MaxRuns /\ run' = run /\ Complete(source.data)
          /\ copied' = [copied EXCEPT ![run] = source.data]
          /\ source'.sig = [source.sig EXCEPT ![Root] = Lines(source.data, Root)]
      BY <2>2 DEF SignRoot, Typed, ExportTyped, Backups, SourceSound, Complete
    <3>2. run \in Copies' /\ copied'[run] = source.data
      BY <3>1 DEF Copies, Complete, Typed, ExportTyped
    <3>3. source'.sig[u] = IF u = Root THEN Lines(copied'[run], Root) ELSE source.sig[u]
      BY <3>1, <3>2 DEF Typed, ExportTyped, Backups
    <3> QED
      BY <3>2, <3>3
  <2>3. ASSUME NEW p \in Partitions, SignPartition(p)
        PROVE  source'.sig[u] = source.sig[u] \/ GoodNow(source'.sig[u])
    <3>1. /\ run \in 1..MaxRuns /\ Complete(source.data) /\ copied[run] = source.data
          /\ UNCHANGED <<run, copied>>
          /\ source'.sig = [source.sig EXCEPT ![p] = Lines(source.data, p)]
      BY <2>3 DEF SignPartition, Typed, ExportTyped, Backups, SourceSound, history
    <3>2. run \in Copies' /\ copied'[run] = source.data
      BY <3>1 DEF Copies, Complete, Typed, ExportTyped
    <3>3. source'.sig[u] = IF u = p THEN Lines(copied'[run], p) ELSE source.sig[u]
      BY <3>1, <3>2 DEF Typed, ExportTyped, Backups
    <3> QED
      BY <3>2, <3>3
  <2>4. CASE BackupRoot \/ \E f \in Files : BackupPartition(f)
    BY <2>4 DEF BackupRoot, BackupPartition, Typed, ExportTyped, Backups
  <2>5. CASE UNCHANGED source
    BY <2>5
  <2>6. CASE \/ CheckStart \/ ExportEnd \/ ExportFail \/ UNCHANGED vars \/ UNCHANGED exportVars
             \/ Services
             \/ \E p \in Partitions : CheckPartition(p)
    BY <2>5, <2>6 DEF CheckStart, ExportEnd, ExportFail, Services, Write, Delete, CheckPartition,
                      vars, exportVars
  <2> QED
    BY <2>1, <2>2, <2>3, <2>4, <2>6, ImportLeavesTheExport DEF Next, Export
<1>4. clone'.sig[u] \in {clone.sig[u], source.sig[u]}
  <2>1. ASSUME NEW q \in Pieces, TransferPiece(q)
        PROVE  clone'.sig[u] \in {clone.sig[u], source.sig[u]}
    BY <2>1, ArriveTyped DEF TransferPiece
  <2>2. CASE UNCHANGED clone
    BY <2>2
  <2>3. CASE TransferStart \/ TransferFail \/ Import \/ \E kill \in BOOLEAN : ImportFail(kill)
    BY <2>2, <2>3 DEF TransferStart, TransferFail, Import, ImportStart, StopProxy, RestoreRoot,
         StartProxy, ImportEnd, Verify, VerifyFail, RestorePartition, VerifyCustom, ImportFail,
         outsideImport, transferVars
  <2>4. CASE UNCHANGED vars
    BY <2>2, <2>4 DEF vars, outsideExport, transferVars
  <2> QED
    BY <2>1, <2>2, <2>3, <2>4, ExportLeavesTheClone DEF Next, Transfer
<1> QED
  BY <1>1, <1>2, <1>3, <1>4

-----------------------------------------------------------------------------
(* What the transfers carry. *)

\* The running transfer has still to copy this file.
ToArrive(f) == \E q \in transfer : <<Unit[f], "data">> \in q

\* What is exported to the end, transferred or imported has every file that is kept.
TransferSound ==
  /\ pending \/ transfer # {} => Complete(source.data)
  /\ transfer # {} => \A f \in Kept : clone.data[f] # 0 \/ ToArrive(f)
  /\ notified \/ import.at # "idle" => Complete(clone.data)

LEMMA TransferSoundInit == Init => TransferSound
  BY DEF Init, TransferSound, Idle

\* A backup that is complete stays complete, whatever the next export copies into it.
LEMMA SourceStaysComplete ==
  ASSUME Typed, SourceSound, [Next]_vars, Complete(source.data)
  PROVE  Complete(source'.data)
<1> USE DEF Typed, ExportTyped
<1>1. CASE BackupRoot
  <2>1. source'.data = Copy(live, source.data, FilesOf(Root)) /\ run # 0
    BY <1>1 DEF BackupRoot, Backups, SourceSound
  <2>2. \A f \in Kept : live[f] # 0
    BY <2>1 DEF SourceSound
  <2> QED
    BY <2>1, <2>2, CopyTyped, TheiaAssumption DEF Backups, Complete
<1>2. ASSUME NEW f \in Files, BackupPartition(f) PROVE Complete(source'.data)
  <2>1. source'.data = Copy(live, source.data, {f}) /\ run # 0
    BY <1>2 DEF BackupPartition, Backups, SourceSound
  <2>2. \A g \in Kept : live[g] # 0
    BY <2>1 DEF SourceSound
  <2> QED
    BY <2>1, <2>2, CopyTyped, TheiaAssumption DEF Backups, Complete
<1>3. CASE ExportStart \/ SignRoot \/ \E p \in Partitions : SignPartition(p)
  BY <1>3 DEF ExportStart, SignRoot, SignPartition, Backups
<1>4. CASE UNCHANGED source
  BY <1>4
<1>5. CASE \/ CheckStart \/ ExportEnd \/ ExportFail \/ UNCHANGED vars \/ UNCHANGED exportVars
           \/ Services
           \/ \E p \in Partitions : CheckPartition(p)
  BY <1>4, <1>5 DEF CheckStart, ExportEnd, ExportFail, Services, Write, Delete, CheckPartition,
                    vars, exportVars
<1> QED
  BY <1>1, <1>2, <1>3, <1>5, ImportLeavesTheExport DEF Next, Export

\* And so does that of the clone, which is copied from it.
LEMMA CloneStaysComplete ==
  ASSUME Typed, TransferSound, NEW q, TransferPiece(q),
         NEW f \in Kept, clone.data[f] # 0 \/ <<Unit[f], "data">> \in q
  PROVE  clone'.data[f] # 0
<1>1. clone' = Arrive(q) /\ Complete(source.data) /\ f \in Files
  BY TheiaAssumption DEF TransferPiece, TransferSound
<1> QED
  BY <1>1, ArriveTyped DEF Complete

LEMMA TransferSoundStep ==
  Typed /\ SourceSound /\ TransferSound /\ [Next]_vars => TransferSound'
<1> SUFFICES ASSUME Typed, SourceSound, TransferSound, [Next]_vars PROVE TransferSound'
  OBVIOUS
<1>0. Complete(source.data) => Complete(source'.data)
  BY SourceStaysComplete
<1>1. CASE ExportEnd
  <2>1. /\ Complete(source.data) /\ UNCHANGED <<source, transfer, clone, notified, import>>
    BY <1>1 DEF ExportEnd, SourceSound, transferVars, importVars
  <2> QED
    BY <2>1 DEF TransferSound, Complete, ToArrive
<1>2. CASE Export \/ ExportFail \/ Services
  <2>1. UNCHANGED pending \/ ExportEnd
    BY <1>2 DEF Export, ExportStart, BackupRoot, BackupPartition, SignRoot, SignPartition,
                CheckStart, CheckPartition, ExportFail, Services, Write, Delete, outsideExport
  <2>2. UNCHANGED <<transfer, clone, notified, import>>
    BY <1>2, ExportLeavesTheClone
  <2> QED
    BY <1>0, <1>1, <2>1, <2>2 DEF TransferSound, Complete, ToArrive
<1>3. CASE TransferStart
  <2>1. /\ pending /\ transfer' = Pieces /\ UNCHANGED <<source, clone, notified, import>>
    BY <1>3 DEF TransferStart, exportVars, importVars
  <2>2. \A f \in Kept : \E q \in transfer' : <<Unit[f], "data">> \in q
    BY <2>1, TheiaAssumption DEF Parts
  <2> QED
    BY <2>1, <2>2 DEF TransferSound, Complete, ToArrive
<1>4. ASSUME NEW q \in Pieces, TransferPiece(q) PROVE TransferSound'
  <2>1. /\ q \in transfer /\ transfer' = transfer \ {q}
        /\ notified' = (notified \/ transfer' = {})
        /\ UNCHANGED <<source, import>>
    BY <1>4 DEF TransferPiece, exportVars, importVars
  <2>2. ASSUME NEW f \in Kept
        PROVE  clone'.data[f] # 0 \/ \E o \in transfer' : <<Unit[f], "data">> \in o
    <3>1. clone.data[f] # 0 \/ \E o \in transfer : <<Unit[f], "data">> \in o
      BY <2>1 DEF TransferSound, ToArrive
    <3> QED
      BY <1>4, <2>1, <3>1, CloneStaysComplete
  <2>3. Complete(clone.data) => Complete(clone'.data)
    BY <1>4, CloneStaysComplete DEF Complete
  <2>4. transfer' = {} => Complete(clone'.data)
    BY <2>2 DEF Complete
  <2>5. Complete(source'.data)
    BY <1>0, <2>1 DEF TransferSound
  <2>6. notified' \/ import'.at # "idle" => Complete(clone'.data)
    BY <2>1, <2>3, <2>4 DEF TransferSound
  <2> QED
    BY <2>2, <2>5, <2>6 DEF TransferSound, Complete, ToArrive
<1>5. CASE TransferFail
  <2>1. /\ transfer # {} /\ transfer' = {} /\ UNCHANGED <<source, clone, notified, import>>
    BY <1>5 DEF TransferFail, exportVars, importVars
  <2> QED
    BY <2>1 DEF TransferSound, Complete, ToArrive
<1>6. CASE Import \/ \E kill \in BOOLEAN : ImportFail(kill)
  <2>1. UNCHANGED <<source, clone, pending, transfer>>
    BY <1>6 DEF Import, ImportStart, StopProxy, RestoreRoot, StartProxy, ImportEnd, Verify,
         VerifyFail, RestorePartition, VerifyCustom, ImportFail, outsideImport, exportVars,
         transferVars
  <2>2. notified' => notified
    BY <1>6 DEF Import, ImportStart, StopProxy, RestoreRoot, StartProxy, ImportEnd, Verify,
         VerifyFail, RestorePartition, VerifyCustom, ImportFail, outsideImport
  <2>3. import'.at # "idle" => notified \/ import.at # "idle"
    BY <1>6 DEF Import, ImportStart, StopProxy, RestoreRoot, StartProxy, ImportEnd, Verify,
         VerifyFail, RestorePartition, VerifyCustom, ImportFail, Idle
  <2> QED
    BY <2>1, <2>2, <2>3 DEF TransferSound, Complete, ToArrive
<1>7. CASE UNCHANGED vars
  <2>1. UNCHANGED <<source, clone, pending, transfer, notified, import>>
    BY <1>7 DEF vars, exportVars, outsideExport, transferVars, importVars
  <2> QED
    BY <2>1 DEF TransferSound, Complete, ToArrive
<1> QED
  BY <1>2, <1>3, <1>4, <1>5, <1>6, <1>7 DEF Next, Transfer

-----------------------------------------------------------------------------
(* What an import has verified, and restored. *)

\* All that one export copied of a unit is there, as it was copied.
Holds(data, u, copy) == \A f \in FilesOf(u) : copy[f] # 0 => data[f] = copy[f]
IsCopy(data, u) == \E r \in Copies : Holds(data, u, copied[r])

LEMMA IsCopyStays ==
  ASSUME Typed, SourceSound, [Next]_vars, NEW data, NEW u, IsCopy(data, u)
  PROVE  \E r \in Copies' : Holds(data, u, copied'[r])
<1>1. PICK r \in Copies : Holds(data, u, copied[r])
  BY DEF IsCopy
<1>2. r \in Copies' /\ copied'[r] = copied[r]
  BY CopiesStay
<1> QED
  BY <1>1, <1>2

ToVerify == {Root} \cup Mirrors

\* The units that are verified: the custom ones only after the restoration.
Verified ==
  CASE import.at = "verify" -> ToVerify \ (import.todo \cup Custom)
    [] import.at \in {"stop", "restore", "start"} -> ToVerify \ Custom
    [] import.at = "customs" -> ToVerify \ import.todo
    [] OTHER -> {}

\* The files that are restored.
Restored ==
  CASE import.at = "restore" -> {f \in Files : Unit[f] \notin import.todo \cup {Root}}
    [] import.at \in {"start", "customs"} -> Files
    [] OTHER -> {}

\* As long as no import has overlapped a transfer, what was verified is still what is
\* restored, and nobody takes a theia that is being restored for whole.
ImportSound ==
  "import" \notin overlap =>
    /\ import.at # "idle" => transfer = {}
    /\ \A u \in Verified : clone.sig[u] # NoSignature /\ IsCopy(clone.data, u)
    /\ \A f \in Restored : home[f] = clone.data[f]
    /\ import.at = "stop" => import.todo = Mirrors
    /\ import.at \in {"restore", "start", "customs"} => ~whole
    /\ whole => \A u \in Units : IsCopy(home, u)

LEMMA ImportSoundInit == Init => ImportSound
  BY DEF Init, ImportSound, Idle, Verified, Restored

\* A signature that matches is that of a copy; an older one, or one of another export,
\* does not match.
LEMMA MatchesIsCopy ==
  ASSUME Typed, SignaturesSound, NEW u \in Units, Matches(u),
         u \notin Custom \/ import.at = "customs"
  PROVE  clone.sig[u] # NoSignature /\ IsCopy(clone.data, u)
<1>1. clone.sig[u] # NoSignature
  BY DEF Matches
<1>2. PICK r \in Copies : clone.sig[u] = Lines(copied[r], u)
  BY <1>1 DEF SignaturesSound, Signed
<1>3. ASSUME NEW f \in FilesOf(u), copied[r][f] # 0 PROVE clone.data[f] = copied[r][f]
  <2>1. f \in Files /\ <<f, copied[r][f]>> \in clone.sig[u]
    BY <1>2, <1>3 DEF Lines, FilesOf
  <2>2. CASE u \notin Custom
    <3>1. \A l \in clone.sig[u] : clone.data[l[1]] = l[2]
      BY <2>2 DEF Matches
    <3> QED
      BY <2>1, <3>1
  <2>3. CASE u \in Custom
    <3>1. clone.sig[u] = Lines(clone.data, u)
      BY <2>3 DEF Matches
    <3> QED
      BY <2>1, <3>1 DEF Lines
  <2> QED
    BY <2>2, <2>3
<1> QED
  BY <1>1, <1>3 DEF IsCopy, Holds

\* In a complete backup, every partition is imported.
LEMMA AllMirrored ==
  ASSUME Complete(clone.data)
  PROVE  Mirrors = Partitions
<1>1. ASSUME NEW p \in Partitions PROVE p \in Mirrors
  <2>1. PICK f \in Kept : Unit[f] = p
    BY TheiaAssumption DEF Units
  <2>2. f \in Files /\ clone.data[f] # 0
    BY <2>1, TheiaAssumption DEF Complete
  <2>3. <<f, clone.data[f]>> \in Lines(clone.data, p)
    BY <2>1, <2>2 DEF Lines, FilesOf
  <2> QED
    BY <2>3 DEF Mirrors
<1> QED
  BY <1>1 DEF Mirrors

\* What an import that goes on leaves as it is.
LEMMA ImportKeeps ==
  ASSUME Import \/ \E kill \in BOOLEAN : ImportFail(kill)
  PROVE  /\ UNCHANGED <<clone, transfer, run, copied>> /\ Mirrors' = Mirrors
         /\ overlap' = overlap \/ ImportStart
  BY DEF Import, ImportStart, StopProxy, RestoreRoot, StartProxy, ImportEnd, Verify, VerifyFail,
       RestorePartition, VerifyCustom, ImportFail, outsideImport, exportVars, transferVars,
       history, Mirrors

LEMMA ImportSoundStep ==
  ASSUME Typed, SourceSound, SignaturesSound, TransferSound, ImportSound, [Next]_vars
  PROVE  ImportSound'
<1> SUFFICES ASSUME "import" \notin overlap' PROVE ImportSound'
  BY DEF ImportSound
<1>0. "import" \notin overlap
  <2>1. overlap \subseteq overlap' \/ "import" \notin overlap \/ UNCHANGED overlap
    BY ExportLeavesTheClone, ImportKeeps
    DEF Next, Transfer, TransferStart, TransferPiece, TransferFail,
        ImportStart, vars, outsideExport, transferVars
  <2> QED
    BY <2>1
<1> DEFINE Still(data, u) == \E r \in Copies' : Holds(data, u, copied'[r])
<1>1. \A data, u : IsCopy(data, u) => Still(data, u)
  BY IsCopyStays
<1>2. /\ import.at # "idle" => transfer = {} /\ Complete(clone.data)
      /\ \A u \in Verified : clone.sig[u] # NoSignature /\ IsCopy(clone.data, u)
      /\ \A f \in Restored : home[f] = clone.data[f]
      /\ import.at = "stop" => import.todo = Mirrors
      /\ import.at \in {"restore", "start", "customs"} => ~whole
      /\ whole => \A u \in Units : IsCopy(home, u)
  BY <1>0 DEF ImportSound, TransferSound
<1>3. ASSUME /\ import'.at # "idle" => transfer' = {}
             /\ \A u \in Verified' : clone'.sig[u] # NoSignature /\ Still(clone'.data, u)
             /\ \A f \in Restored' : home'[f] = clone'.data[f]
             /\ import'.at = "stop" => import'.todo = Mirrors'
             /\ import'.at \in {"restore", "start", "customs"} => ~whole'
             /\ whole' => \A u \in Units : Still(home', u)
      PROVE  ImportSound'
  BY <1>3 DEF ImportSound, IsCopy
<1>typed. import \in [at : ImportSteps, todo : SUBSET Units] /\ home \in Data /\ clone.data \in Data
  BY DEF Typed, ExitInv, ImportTyped, CloneTyped, Backups
<1>4. ASSUME UNCHANGED <<clone, import, home, whole>>,
             import'.at # "idle" => transfer' = {}
      PROVE  ImportSound'
  <2>1. Verified' = Verified /\ Restored' = Restored /\ Mirrors' = Mirrors
    BY <1>4 DEF Verified, Restored, ToVerify, Mirrors
  <2> QED
    BY <1>1, <1>2, <1>3, <1>4, <2>1
<1>5. ASSUME import'.at = "idle", UNCHANGED <<home, whole>>
      PROVE  ImportSound'
  <2>1. Verified' = {} /\ Restored' = {}
    BY <1>5 DEF Verified, Restored
  <2> QED
    BY <1>1, <1>2, <1>3, <1>5, <2>1
<1>6. CASE Export \/ ExportFail \/ Services
  BY <1>2, <1>4, <1>6, ExportLeavesTheClone
<1>7. CASE TransferStart
  <2>1. import = Idle /\ UNCHANGED <<import, clone, home, whole>>
    BY <1>7 DEF TransferStart, importVars
  <2> QED
    BY <1>4, <2>1 DEF Idle
<1>8. CASE \E q \in Pieces : TransferPiece(q)
  <2>1. transfer # {} /\ UNCHANGED <<import, home, whole>>
    BY <1>8 DEF TransferPiece, importVars
  <2> QED
    BY <1>2, <1>5, <2>1
<1>9. CASE TransferFail
  BY <1>4, <1>9 DEF TransferFail, importVars
<1>10. CASE ImportStart
  <2>1. /\ import' = [at |-> "verify", todo |-> ToVerify] /\ transfer = {}
        /\ UNCHANGED <<clone, transfer, home, whole>> /\ Mirrors' = Mirrors
    BY <1>10, ImportKeeps DEF ImportStart, Import, ToVerify
  <2>2. Verified' = {} /\ Restored' = {}
    BY <2>1 DEF Verified, Restored, ToVerify
  <2> QED
    BY <1>1, <1>2, <1>3, <2>1, <2>2
<1>11. ASSUME NEW u \in Units, Verify(u) PROVE ImportSound'
  <2>1. /\ import.at = "verify" /\ u \in import.todo /\ Matches(u)
        /\ import' = IF import.todo = {u} THEN [at |-> "stop", todo |-> Mirrors]
                     ELSE [import EXCEPT !.todo = @ \ {u}]
        /\ UNCHANGED <<clone, transfer, home, whole>> /\ Mirrors' = Mirrors
    BY <1>11, ImportKeeps DEF Verify, Import
  <2>2. Restored' = {} /\ Verified' \subseteq Verified \cup ({u} \ Custom)
    BY <1>typed, <2>1 DEF Verified, Restored, ToVerify
  <2>3. u \notin Custom => clone.sig[u] # NoSignature /\ IsCopy(clone.data, u)
    BY <2>1, MatchesIsCopy
  <2> QED
    BY <1>typed, <1>1, <1>2, <1>3, <2>1, <2>2, <2>3
<1>12. ASSUME NEW u \in Units, VerifyFail(u) PROVE ImportSound'
  BY <1>5, <1>12 DEF VerifyFail, Idle
<1>13. ASSUME NEW kill \in BOOLEAN, ImportFail(kill) PROVE ImportSound'
  BY <1>5, <1>13 DEF ImportFail, Idle
<1>14. CASE StopProxy
  <2>1. /\ import.at = "stop" /\ import'.at = "restore" /\ import'.todo = import.todo
        /\ ~whole' /\ UNCHANGED <<clone, transfer, home>> /\ Mirrors' = Mirrors
    BY <1>typed, <1>14, ImportKeeps DEF StopProxy, Import
  <2>2. Verified' = Verified
    BY <2>1 DEF Verified, ToVerify
  <2>3. Restored' = {}
    BY <1>2, <2>1, AllMirrored, TheiaAssumption DEF Restored, Units
  <2> QED
    BY <1>1, <1>2, <1>3, <2>1, <2>2, <2>3
<1>15. ASSUME NEW p \in Partitions, RestorePartition(p) PROVE ImportSound'
  <2>1. /\ import.at = "restore" /\ import'.at = "restore" /\ import'.todo = import.todo \ {p}
        /\ home' = Copy(clone.data, home, FilesOf(p))
        /\ UNCHANGED <<clone, transfer, whole>> /\ Mirrors' = Mirrors
    BY <1>typed, <1>15, ImportKeeps DEF RestorePartition, Import
  <2>2. Verified' = Verified /\ \A f \in Restored' : f \in Restored \/ f \in FilesOf(p)
    BY <2>1 DEF Verified, ToVerify, Restored, FilesOf
  <2>3. \A f \in Restored' : f \in Files /\ home'[f] = clone.data[f]
    BY <1>typed, <1>2, <2>1, <2>2, CopyTyped DEF Restored
  <2> QED
    BY <1>1, <1>2, <1>3, <2>1, <2>2, <2>3
<1>16. CASE RestoreRoot
  <2>1. /\ import.at = "restore" /\ import.todo = {} /\ import'.at = "start"
        /\ home' = Copy(clone.data, home, FilesOf(Root))
        /\ UNCHANGED <<clone, transfer, whole>> /\ Mirrors' = Mirrors
    BY <1>typed, <1>16, ImportKeeps DEF RestoreRoot, Import
  <2>2. Verified' = Verified /\ \A f \in Files : f \in Restored \/ f \in FilesOf(Root)
    BY <2>1 DEF Verified, ToVerify, Restored, FilesOf
  <2>3. \A f \in Files : home'[f] = clone.data[f]
    BY <1>typed, <1>2, <2>1, <2>2, CopyTyped
  <2> QED
    BY <1>1, <1>2, <1>3, <2>1, <2>2, <2>3 DEF Restored
<1>17. CASE StartProxy
  <2>1. /\ import.at = "start" /\ import'.at = "customs" /\ import'.todo = Mirrors \cap Custom
        /\ UNCHANGED <<clone, transfer, home, whole>> /\ Mirrors' = Mirrors
    BY <1>17, ImportKeeps DEF StartProxy, Import
  <2>2. Verified' = Verified /\ Restored' = Restored
    BY <2>1, TheiaAssumption DEF Verified, ToVerify, Restored
  <2> QED
    BY <1>1, <1>2, <1>3, <2>1, <2>2
<1>18. ASSUME NEW p \in Partitions, VerifyCustom(p) PROVE ImportSound'
  <2>1. /\ import.at = "customs" /\ import'.at = "customs" /\ import'.todo = import.todo \ {p}
        /\ Matches(p) /\ UNCHANGED <<clone, transfer, home, whole>> /\ Mirrors' = Mirrors
    BY <1>typed, <1>18, ImportKeeps DEF VerifyCustom, Import
  <2>2. clone.sig[p] # NoSignature /\ IsCopy(clone.data, p)
    BY <2>1, MatchesIsCopy DEF Units
  <2>3. Verified' \subseteq Verified \cup {p} /\ Restored' = Restored
    BY <2>1 DEF Verified, ToVerify, Restored
  <2> QED
    BY <1>1, <1>2, <1>3, <2>1, <2>2, <2>3
<1>19. CASE ImportEnd
  <2>1. /\ import.at = "customs" /\ import.todo = {} /\ import' = Idle
        /\ UNCHANGED <<clone, transfer, home>>
    BY <1>19, ImportKeeps DEF ImportEnd, Import
  <2>2. \A f \in Files : home[f] = clone.data[f]
    BY <1>2, <2>1 DEF Restored
  <2>3. \A u \in ToVerify : Still(home, u)
    <3> SUFFICES ASSUME NEW u \in ToVerify PROVE Still(home, u)
      OBVIOUS
    <3>1. IsCopy(clone.data, u)
      BY <1>2, <2>1 DEF Verified
    <3>2. IsCopy(home, u)
      BY <2>2, <3>1 DEF IsCopy, Holds, FilesOf
    <3> QED
      BY <1>1, <3>2
  <2>4. Units = ToVerify
    BY <1>2, <2>1, AllMirrored DEF ToVerify, Units
  <2>5. \A u \in Units : Still(home, u)
    BY <2>3, <2>4
  <2>6. Verified' = {} /\ Restored' = {}
    BY <2>1 DEF Verified, Restored, Idle
  <2> QED
    BY <1>3, <2>1, <2>5, <2>6 DEF Idle
<1>20. CASE UNCHANGED vars
  BY <1>2, <1>4, <1>20 DEF vars, outsideExport, transferVars, importVars
<1> QED
  BY <1>6, <1>7, <1>8, <1>9, <1>10, <1>11, <1>12, <1>13, <1>14, <1>15, <1>16, <1>17, <1>18,
     <1>19, <1>20
  DEF Next, Transfer, Import

-----------------------------------------------------------------------------
(* The clone when nothing has overlapped a transfer or stopped one. *)

\* All the files are as one export copied them, and there is no other.
IsBackup(data) == \E r \in Copies : \A f \in Files : data[f] = copied[r][f]

\* The root is signed first, and only once everything is copied.
RootSound ==
  /\ source.sig[Root] # NoSignature => IsBackup(source.data)
  /\ export.at \in {"root", "copy"} => source.sig[Root] = NoSignature

LEMMA RootSoundInit == Init => RootSound
  BY DEF Init, Empty, RootSound, Idle, Units

LEMMA IsBackupStays ==
  ASSUME Typed, SourceSound, [Next]_vars, NEW data, IsBackup(data)
  PROVE  \E r \in Copies' : \A f \in Files : data[f] = copied'[r][f]
<1>1. PICK r \in Copies : \A f \in Files : data[f] = copied[r][f]
  BY DEF IsBackup
<1>2. r \in Copies' /\ copied'[r] = copied[r]
  BY CopiesStay
<1> QED
  BY <1>1, <1>2

LEMMA RootSoundStep ==
  ASSUME Typed, SourceSound, RootSound, [Next]_vars
  PROVE  RootSound'
<1> DEFINE Still(data) == \E r \in Copies' : \A f \in Files : data[f] = copied'[r][f]
<1>0. Root \in Units
  BY DEF Units
<1>1. \A data : IsBackup(data) => Still(data)
  BY IsBackupStays
<1>2. ASSUME source'.sig[Root] # NoSignature => Still(source'.data),
             export'.at \in {"root", "copy"} => source'.sig[Root] = NoSignature
      PROVE  RootSound'
  BY <1>2 DEF RootSound, IsBackup
<1> USE DEF Typed, ExportTyped, ExportSteps
<1>3. CASE ExportStart
  <2>1. source'.sig[Root] = NoSignature
    BY <1>0, <1>3 DEF ExportStart, Empty, Backups
  <2> QED
    BY <1>2, <2>1
<1>4. CASE BackupRoot \/ \E f \in Files : BackupPartition(f)
  <2>1. export.at \in {"root", "copy"} /\ source'.sig = source.sig
    BY <1>4 DEF BackupRoot, BackupPartition, Backups
  <2> QED
    BY <1>2, <2>1 DEF RootSound
<1>5. CASE SignRoot
  <2>1. /\ run \in 1..MaxRuns /\ run' = run /\ Complete(source.data)
        /\ copied' = [copied EXCEPT ![run] = source.data]
        /\ source'.data = source.data /\ export'.at = "sign"
    BY <1>5 DEF SignRoot, Backups, SourceSound, Complete
  <2>2. run \in Copies' /\ copied'[run] = source'.data
    BY <2>1 DEF Copies, Complete
  <2>3. Still(source'.data)
    BY <2>2
  <2> QED
    BY <1>2, <2>1, <2>3
<1>6. ASSUME NEW p \in Partitions, SignPartition(p) PROVE RootSound'
  <2>1. /\ source'.data = source.data /\ source'.sig[Root] = source.sig[Root]
        /\ export'.at = "sign"
    BY <1>0, <1>6, TheiaAssumption DEF SignPartition, Backups
  <2> QED
    BY <1>1, <1>2, <2>1 DEF RootSound
<1>7. CASE UNCHANGED source /\ export'.at \in {export.at, "check", "idle"}
  BY <1>1, <1>2, <1>7 DEF RootSound
<1>8. CASE \/ CheckStart \/ ExportEnd \/ ExportFail \/ Services
           \/ \E p \in Partitions : CheckPartition(p)
  BY <1>7, <1>8 DEF CheckStart, ExportEnd, ExportFail, Services, Write, Delete, CheckPartition,
                    Idle
<1>9. CASE UNCHANGED exportVars \/ UNCHANGED vars
  BY <1>7, <1>9 DEF exportVars, vars
<1> QED
  BY <1>3, <1>4, <1>5, <1>6, <1>8, <1>9, ImportLeavesTheExport DEF Next, Export

\* A signature that the running transfer has still to copy.
SigToArrive(u) == \E q \in transfer : <<u, "signature">> \in q

\* What has arrived is what the export holds, which no export changes meanwhile.
CleanSound ==
  overlap = {} =>
    /\ transfer # {} =>
         /\ export = Idle
         /\ \A f \in Files : ToArrive(f) \/ clone.data[f] = source.data[f]
         /\ \A u \in Units : SigToArrive(u) \/ clone.sig[u] = source.sig[u]
    /\ transfer = {} /\ clone.sig[Root] # NoSignature => IsBackup(clone.data)
    /\ whole => IsBackup(home)

LEMMA CleanSoundInit == Init => CleanSound
  BY DEF Init, CleanSound, Empty, Units

\* What has happened to a transfer is not forgotten.
LEMMA OverlapGrows == [Next]_vars => overlap \subseteq overlap'
<1> SUFFICES ASSUME [Next]_vars PROVE overlap \subseteq overlap'
  OBVIOUS
<1>1. CASE Export \/ ExportFail \/ Services
  BY <1>1, ExportLeavesTheClone
<1>2. CASE Transfer \/ TransferFail
  BY <1>2 DEF Transfer, TransferStart, TransferPiece, TransferFail
<1>3. CASE Import \/ \E kill \in BOOLEAN : ImportFail(kill)
  BY <1>3, ImportKeeps DEF ImportStart
<1>4. CASE UNCHANGED vars
  BY <1>4 DEF vars, outsideExport, transferVars
<1> QED
  BY <1>1, <1>2, <1>3, <1>4 DEF Next

\* An import changes what is restored, and calls it whole, only where the other
\* invariants say what it is.
LEMMA WholeStays ==
  ASSUME ImportSound, "import" \notin overlap, [Next]_vars, whole', ~ImportEnd
  PROVE  whole /\ UNCHANGED home
<1>1. CASE Export \/ ExportFail \/ Services
  BY <1>1, ExportLeavesTheClone
<1>2. CASE Transfer \/ TransferFail
  BY <1>2 DEF Transfer, TransferStart, TransferPiece, TransferFail, importVars
<1>3. CASE RestoreRoot \/ \E p \in Partitions : RestorePartition(p)
  BY <1>3 DEF RestoreRoot, RestorePartition, ImportSound
<1>4. CASE \/ ImportStart \/ StopProxy \/ StartProxy
           \/ \E u \in Units : Verify(u) \/ VerifyFail(u)
           \/ \E p \in Partitions : VerifyCustom(p)
           \/ \E kill \in BOOLEAN : ImportFail(kill)
  BY <1>4 DEF ImportStart, StopProxy, StartProxy, Verify, VerifyFail, VerifyCustom, ImportFail
<1>5. CASE UNCHANGED vars
  BY <1>5 DEF vars, outsideExport, importVars
<1> QED
  BY <1>1, <1>2, <1>3, <1>4, <1>5 DEF Next, Import

\* An import that completes has verified the signature of the root.
LEMMA RestoredIsBackup ==
  ASSUME Typed, TransferSound, ImportSound, CleanSound, ImportEnd, overlap = {}
  PROVE  IsBackup(home)
<1>1. import.at = "customs" /\ import.todo = {}
  BY DEF ImportEnd
<1>2. /\ transfer = {} /\ clone.sig[Root] # NoSignature
      /\ \A f \in Files : home[f] = clone.data[f]
  BY <1>1 DEF ImportSound, Restored, Verified, ToVerify
<1>3. IsBackup(clone.data)
  BY <1>2 DEF CleanSound
<1> QED
  BY <1>2, <1>3 DEF IsBackup

LEMMA CleanSoundStep ==
  ASSUME Typed, SourceSound, TransferSound, ImportSound, RootSound, CleanSound, [Next]_vars
  PROVE  CleanSound'
<1> SUFFICES ASSUME overlap' = {} PROVE CleanSound'
  BY DEF CleanSound
<1> DEFINE Still(data) == \E r \in Copies' : \A f \in Files : data[f] = copied'[r][f]
           Waits(f) == \E q \in transfer' : <<Unit[f], "data">> \in q
           SigWaits(u) == \E q \in transfer' : <<u, "signature">> \in q
<1>0. overlap = {}
  BY OverlapGrows
<1>1. \A data : IsBackup(data) => Still(data)
  BY IsBackupStays
<1>2. /\ transfer # {} =>
           /\ export = Idle
           /\ \A f \in Files : ToArrive(f) \/ clone.data[f] = source.data[f]
           /\ \A u \in Units : SigToArrive(u) \/ clone.sig[u] = source.sig[u]
      /\ transfer = {} /\ clone.sig[Root] # NoSignature => IsBackup(clone.data)
      /\ whole => IsBackup(home)
  BY <1>0 DEF CleanSound
<1>3. whole' => Still(home')
  <2>1. ImportEnd => UNCHANGED home /\ IsBackup(home)
    BY <1>0, RestoredIsBackup DEF ImportEnd
  <2>2. whole' => IsBackup(home) /\ UNCHANGED home
    BY <1>0, <1>2, <2>1, WholeStays
  <2> QED
    BY <1>1, <2>2
<1>4. ASSUME transfer' # {} =>
               /\ export' = Idle
               /\ \A f \in Files : Waits(f) \/ clone'.data[f] = source'.data[f]
               /\ \A u \in Units : SigWaits(u) \/ clone'.sig[u] = source'.sig[u],
             transfer' = {} /\ clone'.sig[Root] # NoSignature => Still(clone'.data)
      PROVE  CleanSound'
  BY <1>3, <1>4 DEF CleanSound, IsBackup, ToArrive, SigToArrive, Idle
<1>5. ASSUME UNCHANGED <<transfer, clone>>,
             transfer # {} => export' = Idle /\ UNCHANGED source
      PROVE  CleanSound'
  BY <1>1, <1>2, <1>4, <1>5 DEF ToArrive, SigToArrive
<1>6. CASE Export \/ ExportFail \/ Services
  <2>1. UNCHANGED <<transfer, clone>>
    BY <1>6, ExportLeavesTheClone
  <2>2. ASSUME transfer # {} PROVE export' = Idle /\ UNCHANGED source
    <3>1. export = Idle
      BY <1>2, <2>2
    <3>2. ~ExportStart
      BY <2>2 DEF ExportStart
    <3>3. Services
      BY <1>6, <3>1, <3>2 DEF Export, BackupRoot, BackupPartition, SignRoot, SignPartition,
                              CheckStart, CheckPartition, ExportEnd, ExportFail, Idle
    <3> QED
      BY <3>1, <3>3 DEF Services, Write, Delete
  <2> QED
    BY <1>5, <2>1, <2>2
<1>7. CASE TransferStart
  <2>1. /\ transfer' = Pieces /\ export = Idle /\ UNCHANGED <<export, source, clone>>
    BY <1>7 DEF TransferStart, exportVars
  <2>2. \A f \in Files : Waits(f)
    BY <2>1, TheiaAssumption DEF Parts
  <2>3. \A u \in Units : SigWaits(u)
    BY <2>1, TheiaAssumption DEF Parts
  <2>4. transfer' # {} /\ export' = Idle
    BY <2>1, <2>3 DEF Units
  <2> QED
    BY <1>4, <2>2, <2>3, <2>4
<1>8. ASSUME NEW q \in Pieces, TransferPiece(q) PROVE CleanSound'
  <2>1. /\ q \in transfer /\ transfer' = transfer \ {q} /\ clone' = Arrive(q)
        /\ UNCHANGED <<export, source>>
    BY <1>8 DEF TransferPiece, exportVars
  <2>2. ASSUME NEW f \in Files PROVE Waits(f) \/ clone'.data[f] = source'.data[f]
    <3>1. (\E o \in transfer : <<Unit[f], "data">> \in o) \/ clone.data[f] = source.data[f]
      BY <1>2, <2>1 DEF ToArrive
    <3> QED
      BY <2>1, <3>1, ArriveTyped
  <2>3. ASSUME NEW u \in Units PROVE SigWaits(u) \/ clone'.sig[u] = source'.sig[u]
    <3>1. (\E o \in transfer : <<u, "signature">> \in o) \/ clone.sig[u] = source.sig[u]
      BY <1>2, <2>1 DEF SigToArrive
    <3> QED
      BY <2>1, <3>1, ArriveTyped
  <2>4. ASSUME transfer' = {}, clone'.sig[Root] # NoSignature PROVE Still(clone'.data)
    <3>1. clone'.sig[Root] = source.sig[Root] /\ \A f \in Files : clone'.data[f] = source.data[f]
      BY <2>1, <2>2, <2>3, <2>4 DEF Units
    <3>2. IsBackup(source.data)
      BY <2>4, <3>1 DEF RootSound
    <3> QED
      BY <1>1, <3>1, <3>2
  <2>5. export' = Idle
    BY <1>2, <2>1
  <2> QED
    BY <1>4, <2>2, <2>3, <2>4, <2>5
<1>9. CASE TransferFail
  BY <1>9 DEF TransferFail
<1>10. CASE Import \/ \E kill \in BOOLEAN : ImportFail(kill)
  BY <1>2, <1>5, <1>10, ImportKeeps, ImportLeavesTheExport DEF exportVars
<1>11. CASE UNCHANGED vars
  BY <1>2, <1>5, <1>11 DEF vars, exportVars, outsideExport, transferVars
<1> QED
  BY <1>6, <1>7, <1>8, <1>9, <1>10, <1>11 DEF Next, Transfer

-----------------------------------------------------------------------------
TheiaInv ==
  /\ Typed /\ SourceSound /\ SignaturesSound /\ TransferSound /\ ImportSound
  /\ RootSound /\ CleanSound

LEMMA TheiaInvInit == Init => TheiaInv
  BY TypedInit, SourceSoundInit, SignaturesSoundInit, TransferSoundInit, ImportSoundInit,
     RootSoundInit, CleanSoundInit
  DEF TheiaInv

LEMMA TheiaInvStep == TheiaInv /\ [Next]_vars => TheiaInv'
  BY TypedStep, SourceSoundStep, SignaturesSoundStep, TransferSoundStep, ImportSoundStep,
     RootSoundStep, CleanSoundStep
  DEF TheiaInv

LEMMA CopiesAreIntact == TheiaInv => UnitsIntact
<1> SUFFICES ASSUME TheiaInv, whole, "import" \notin overlap, NEW u \in Units
             PROVE  \E r \in 1..run :
                      /\ Lines(copied[r], u) # {}
                      /\ Lines(copied[r], u) \subseteq Lines(home, u)
                      /\ overlap = {} => Lines(home, u) = Lines(copied[r], u)
  BY DEF UnitsIntact
<1>1. PICK k \in Kept : k \in Files /\ Unit[k] = u
  BY TheiaAssumption
<1>2. \A r \in Copies : Lines(copied[r], u) # {}
  BY <1>1 DEF Copies, Complete, Lines, FilesOf
<1>3. CASE overlap = {}
  <2>1. PICK r \in Copies : \A f \in Files : home[f] = copied[r][f]
    BY <1>3 DEF TheiaInv, CleanSound, IsBackup
  <2>2. Lines(home, u) = Lines(copied[r], u)
    BY <2>1 DEF Lines, FilesOf
  <2> QED
    BY <1>2, <2>2 DEF Copies
<1>4. CASE overlap # {}
  <2>1. PICK r \in Copies : \A f \in FilesOf(u) : copied[r][f] # 0 => home[f] = copied[r][f]
    BY DEF TheiaInv, ImportSound, IsCopy, Holds
  <2>2. Lines(copied[r], u) \subseteq Lines(home, u)
    BY <2>1 DEF Lines
  <2> QED
    BY <1>2, <1>4, <2>2 DEF Copies
<1> QED
  BY <1>3, <1>4

\* For any files and partitions, any pieces that the transfers are made of, and any number
\* of exports, writes, deletions, failures and kills: an import completes only with what
\* one export copied in each unit, although exports overlap the transfers, and transfers
\* fail and mix; and with nothing else if they did not.
THEOREM UnitsAreIntact == Spec => []UnitsIntact
  BY TheiaInvInit, TheiaInvStep, CopiesAreIntact, PTL DEF Spec

-----------------------------------------------------------------------------
(* OneMoment: that export wrote the timestamp, and what its check has not     *)
(* refused has not changed since it was copied.                               *)

\* What the version of a file may be, once the export that began at version b has copied
\* it as s.
Later(s, now, b) ==
  IF s = 0 THEN now = 0 \/ now > b ELSE now = 0 \/ now = s \/ now > s

\* The copy and the version m of that moment, as long as the version is now what it is.
Seen(s, m, now, b) == IF s = 0 THEN m = 0 \/ m > b ELSE m = s \/ now # s

\* The copy is of that moment, but for a file the export did not see.
Same(s, m, b) == m = s \/ (s = 0 /\ m > b)

LEMMA CopiedNow == \A now, b \in Nat : Later(now, now, b)
  BY DEF Later

LEMMA SignedNow == \A s, now, b \in Nat : Later(s, now, b) => Seen(s, now, now, b)
  BY DEF Later, Seen

LEMMA WriteIsLater ==
  \A s, m, now, b, n \in Nat :
    s <= n /\ b <= n => Later(s, n + 1, b) /\ (Seen(s, m, now, b) => Seen(s, m, n + 1, b))
  BY DEF Later, Seen

LEMMA DeletionIsLater ==
  \A s, m, now, b \in Nat : Later(s, 0, b) /\ (Seen(s, m, now, b) => Seen(s, m, 0, b))
  BY DEF Later, Seen

LEMMA CheckedIsSame ==
  \A s, m, now, b \in Nat :
    /\ Later(s, now, b) /\ Seen(s, m, now, b)
    /\ ~(now > s) /\ ~(now = 0 /\ s # 0)
    => Same(s, m, b)
  BY DEF Later, Seen, Same

Moments ==
  /\ moment \in [1..MaxRuns -> Data] /\ began \in [1..MaxRuns -> Nat]
  /\ changed \in BOOLEAN

\* No version is newer than the newest, and none comes back.
MomentSound ==
  /\ Moments
  /\ \A f \in Watched : live[f] <= Newest /\ source.data[f] <= Newest
  /\ good \subseteq Copies
  /\ \A r \in good : \A f \in Watched : Same(copied[r][f], moment[r][f], began[r])
  /\ \A r \in Copies : copied[r][Timestamp] = r
  /\ export.at # "idle" => began[run] <= Newest
  /\ export.at \in {"copy", "sign", "check"} => source.data[Timestamp] = run
  /\ export.at = "copy" =>
       /\ Timestamp \notin export.todo
       /\ \A f \in Watched \ export.todo : Later(source.data[f], live[f], began[run])
  /\ export.at \in {"sign", "check"} =>
       \A f \in Watched : /\ Later(source.data[f], live[f], began[run])
                          /\ Seen(source.data[f], moment[run][f], live[f], began[run])
  /\ export.at = "check" /\ ~changed =>
       \A f \in Watched : Unit[f] \notin export.todo =>
         Same(source.data[f], moment[run][f], began[run])

LEMMA MomentSoundInit == Init => MomentSound
<1> SUFFICES ASSUME Init PROVE MomentSound
  OBVIOUS
<1>1. Moments
  BY EmptyTyped DEF Init, Moments
<1>2. good = {} /\ Copies = {} /\ export.at = "idle" /\ writes = 0
  BY DEF Init, Copies, Idle
<1>3. \A f \in Watched : live[f] \in {0, 1} /\ source.data[f] = 0
  BY TheiaAssumption DEF Init, Empty, NoFile
<1>4. Newest = 1
  BY <1>2 DEF Newest
<1>5. \A f \in Watched : live[f] <= Newest /\ source.data[f] <= Newest
  BY <1>3, <1>4
<1> QED
  BY <1>1, <1>2, <1>5 DEF MomentSound

LEMMA DataAreNumbers ==
  ASSUME NEW data \in Data
  PROVE  \A f \in Files : data[f] \in Nat
  BY DEF Data

\* The numbers that the invariant compares.
LEMMA Numbers ==
  ASSUME Typed, SourceSound, MomentSound
  PROVE  /\ \A f \in Files : live[f] \in Nat /\ source.data[f] \in Nat
         /\ \A r \in 1..MaxRuns, f \in Files : moment[r][f] \in Nat
         /\ \A r \in 1..MaxRuns : began[r] \in Nat
         /\ Newest \in Nat /\ Timestamp \in Files /\ Watched \subseteq Files
         /\ export.at # "idle" => run \in 1..MaxRuns
         /\ Copies \subseteq 1..MaxRuns
<1> USE DEF Typed, ExportTyped, ExportSteps
<1>1. live \in Data /\ source.data \in Data
  BY DEF Backups
<1>2. \A r \in 1..MaxRuns : moment[r] \in Data /\ began[r] \in Nat
  BY DEF MomentSound, Moments
<1>3. \A f \in Files : live[f] \in Nat /\ source.data[f] \in Nat
  BY <1>1, DataAreNumbers
<1>4. \A r \in 1..MaxRuns : \A f \in Files : moment[r][f] \in Nat
  BY <1>2, DataAreNumbers
<1>5. Newest \in Nat /\ Timestamp \in Files /\ Watched \subseteq Files
  BY TheiaAssumption DEF Newest
<1>6. export.at # "idle" => run \in 1..MaxRuns
  BY TheiaAssumption DEF SourceSound
<1>7. Copies \subseteq 1..MaxRuns
  BY TheiaAssumption DEF Copies
<1> QED
  BY <1>2, <1>3, <1>4, <1>5, <1>6, <1>7

\* What has been said of the exports that succeeded stays said.
LEMMA GoodStays ==
  ASSUME Typed, SourceSound, MomentSound, [Next]_vars,
         \A r \in good : moment'[r] = moment[r] /\ began'[r] = began[r]
  PROVE  /\ good \subseteq Copies'
         /\ \A r \in good : \A f \in Watched : Same(copied'[r][f], moment'[r][f], began'[r])
  BY CopiesStay DEF MomentSound

\* The steps of an export leave the live files.
LEMMA MomentSoundExport ==
  ASSUME Typed, SourceSound, MomentSound, Export
  PROVE  MomentSound'
<1> USE DEF Typed, ExportTyped, ExportSteps, history
<1>next. [Next]_vars
  BY DEF Next
<1>num. /\ \A f \in Files : live[f] \in Nat /\ source.data[f] \in Nat
        /\ \A r \in 1..MaxRuns, f \in Files : moment[r][f] \in Nat
        /\ \A r \in 1..MaxRuns : began[r] \in Nat
        /\ Newest \in Nat /\ Timestamp \in Files /\ Watched \subseteq Files
        /\ export.at # "idle" => run \in 1..MaxRuns
        /\ Copies \subseteq 1..MaxRuns
  BY Numbers
<1>0. /\ Moments /\ good \subseteq Copies
      /\ \A f \in Watched : live[f] <= Newest /\ source.data[f] <= Newest
      /\ \A r \in Copies : copied[r][Timestamp] = r
      /\ export.at # "idle" => began[run] <= Newest
  BY DEF MomentSound
<1>1. CASE ExportStart
  <2>1. /\ export'.at = "root" /\ run' = run + 1 /\ run' \in 1..MaxRuns
        /\ UNCHANGED <<moment, copied, good, writes>>
        /\ source'.data = source.data /\ changed' = FALSE
        /\ live' = [live EXCEPT ![Timestamp] = run + 1]
        /\ began' = [began EXCEPT ![run + 1] = Newest]
    BY <1>1, TheiaAssumption DEF ExportStart, Backups
  <2>2. run + 1 \notin Copies' /\ \A r \in Copies' : r \in Copies \/ r = run + 1
    BY <2>1, NoFileIncomplete DEF SourceSound, Copies
  <2>3. \A r \in good : moment'[r] = moment[r] /\ began'[r] = began[r]
    BY <1>0, <1>num, <2>1 DEF Copies, Moments
  <2>4. Moments' /\ began'[run'] = Newest
    BY <1>0, <1>num, <2>1 DEF Moments
  <2>5. \A f \in Watched : live'[f] = live[f]
    BY <2>1, TheiaAssumption DEF Data
  <2>6. Newest' = Newest
    BY <2>1 DEF Newest
  <2>7. /\ good' \subseteq Copies'
        /\ \A r \in good' : \A f \in Watched : Same(copied'[r][f], moment'[r][f], began'[r])
    BY <1>next, <2>1, <2>3, GoodStays
  <2>8. \A r \in Copies' : copied'[r][Timestamp] = r
    BY <1>0, <2>1, <2>2
  <2>9. /\ began'[run'] <= Newest'
        /\ \A f \in Watched : live'[f] <= Newest' /\ source'.data[f] <= Newest'
    BY <1>0, <1>num, <2>1, <2>4, <2>5, <2>6
  <2> QED
    BY <2>1, <2>4, <2>7, <2>8, <2>9 DEF MomentSound
<1>2. CASE BackupRoot
  <2>1. /\ export.at = "root" /\ export' = [at |-> "copy", todo |-> Files \ FilesOf(Root)]
        /\ UNCHANGED <<live, run, changed, began, moment, copied, good, writes>>
        /\ source'.data = Copy(live, source.data, FilesOf(Root))
    BY <1>2 DEF BackupRoot, Backups
  <2>2. \A f \in Files : source'.data[f] = IF f \in FilesOf(Root) THEN live[f] ELSE source.data[f]
    BY <2>1, CopyTyped DEF Backups
  <2>3. Timestamp \notin export'.todo /\ source'.data[Timestamp] = run
    BY <2>1, <2>2, TheiaAssumption DEF FilesOf, SourceSound
  <2>4. Copies' = Copies /\ Newest' = Newest /\ Moments'
    BY <1>0, <2>1 DEF Copies, Newest, Moments
  <2>5. \A f \in Watched : f \in export'.todo /\ source'.data[f] = source.data[f]
    BY <2>1, <2>2, TheiaAssumption DEF FilesOf
  <2> QED
    BY <2>1, <2>3, <2>4, <2>5 DEF MomentSound
<1>3. ASSUME NEW f \in Files, BackupPartition(f) PROVE MomentSound'
  <2>1. /\ export.at = "copy" /\ export'.at = "copy" /\ export'.todo = export.todo \ {f}
        /\ f \in export.todo
        /\ UNCHANGED <<live, run, changed, began, moment, copied, good, writes>>
        /\ source'.data = Copy(live, source.data, {f})
    BY <1>3 DEF BackupPartition, Backups
  <2>2. \A g \in Files : source'.data[g] = IF g = f THEN live[f] ELSE source.data[g]
    BY <2>1, CopyTyped DEF Backups
  <2>3. Copies' = Copies /\ Newest' = Newest /\ Moments'
    BY <1>0, <2>1 DEF Copies, Newest, Moments
  <2>4. Timestamp \notin export'.todo /\ source'.data[Timestamp] = run
    BY <1>num, <2>1, <2>2 DEF MomentSound
  <2>5. ASSUME NEW g \in Watched \ export'.todo
        PROVE  Later(source'.data[g], live[g], began[run])
    <3>1. CASE g = f
      BY <1>num, <2>1, <2>2, <3>1, CopiedNow
    <3>2. CASE g # f
      BY <1>num, <2>1, <2>2, <3>2 DEF MomentSound
    <3> QED
      BY <3>1, <3>2
  <2>6. \A g \in Watched : source'.data[g] <= Newest
    BY <1>0, <1>num, <2>2
  <2> QED
    BY <2>1, <2>3, <2>4, <2>5, <2>6 DEF MomentSound
<1>4. CASE SignRoot
  <2>1. /\ export.at = "copy" /\ export.todo = {} /\ export'.at = "sign"
        /\ source'.data = source.data /\ UNCHANGED <<live, run, changed, began, good, writes>>
        /\ copied' = [copied EXCEPT ![run] = source.data]
        /\ moment' = [moment EXCEPT ![run] = live]
    BY <1>4 DEF SignRoot, Backups
  <2>2. run \in 1..MaxRuns /\ run \notin good
    BY <1>0, <1>num, <2>1 DEF SourceSound, Copies
  <2>3. /\ Moments' /\ moment'[run] = live /\ copied'[run] = source.data
        /\ \A r \in 1..MaxRuns \ {run} : moment'[r] = moment[r] /\ copied'[r] = copied[r]
    BY <1>0, <2>1, <2>2 DEF Moments
  <2>4. /\ good' \subseteq Copies'
        /\ \A r \in good' : \A f \in Watched : Same(copied'[r][f], moment'[r][f], began'[r])
    BY <1>0, <1>next, <1>num, <2>1, <2>2, <2>3, GoodStays
  <2>5. \A r \in Copies' : copied'[r][Timestamp] = r
    BY <1>0, <1>num, <2>1, <2>2, <2>3 DEF Copies, MomentSound
  <2>6. \A f \in Watched : /\ Later(source.data[f], live[f], began[run])
                           /\ Seen(source.data[f], live[f], live[f], began[run])
    BY <1>num, <2>1, <2>2, SignedNow DEF MomentSound
  <2>7. Newest' = Newest
    BY <2>1 DEF Newest
  <2> QED
    BY <2>1, <2>3, <2>4, <2>5, <2>6, <2>7 DEF MomentSound
<1>5. ASSUME NEW p \in Partitions, SignPartition(p) PROVE MomentSound'
  <2>1. /\ export'.at = export.at /\ export.at = "sign" /\ source'.data = source.data
        /\ UNCHANGED <<live, run, changed, began, moment, copied, good, writes>>
    BY <1>5 DEF SignPartition, Backups
  <2>2. Copies' = Copies /\ Newest' = Newest /\ Moments'
    BY <1>0, <2>1 DEF Copies, Newest, Moments
  <2> QED
    BY <2>1, <2>2 DEF MomentSound
<1>6. CASE CheckStart
  <2>1. /\ export.at = "sign" /\ export' = [at |-> "check", todo |-> Partitions]
        /\ UNCHANGED <<live, run, source, changed, began, moment, copied, good, writes>>
    BY <1>6 DEF CheckStart
  <2>2. \A f \in Watched : Unit[f] \in export'.todo
    BY <2>1, TheiaAssumption DEF Units
  <2>3. Copies' = Copies /\ Newest' = Newest /\ Moments'
    BY <1>0, <2>1 DEF Copies, Newest, Moments
  <2> QED
    BY <2>1, <2>2, <2>3 DEF MomentSound
<1>7. ASSUME NEW p \in Partitions, CheckPartition(p) PROVE MomentSound'
  <2>1. /\ export.at = "check" /\ export'.at = "check" /\ export'.todo = export.todo \ {p}
        /\ changed' = (changed \/ \E f \in Watched \cap FilesOf(p) :
                         live[f] > source.data[f] \/ (live[f] = 0 /\ source.data[f] # 0))
        /\ UNCHANGED <<live, run, source, began, moment, copied, good, writes>>
    BY <1>7 DEF CheckPartition
  <2>2. changed' \in BOOLEAN
    BY <1>0, <2>1 DEF Moments
  <2>3. ASSUME ~changed', NEW f \in Watched, Unit[f] \notin export'.todo
        PROVE  Same(source.data[f], moment[run][f], began[run])
    <3>1. CASE Unit[f] = p
      <4>1. f \in Watched \cap FilesOf(p)
        BY <1>num, <3>1 DEF FilesOf
      <4>2. ~(live[f] > source.data[f]) /\ ~(live[f] = 0 /\ source.data[f] # 0)
        BY <2>1, <2>3, <4>1
      <4>3. /\ Later(source.data[f], live[f], began[run])
            /\ Seen(source.data[f], moment[run][f], live[f], began[run])
        BY <2>1 DEF MomentSound
      <4> QED
        BY <1>num, <2>1, <4>2, <4>3, CheckedIsSame
    <3>2. CASE Unit[f] # p
      BY <2>1, <2>3, <3>2 DEF MomentSound
    <3> QED
      BY <3>1, <3>2
  <2>4. Copies' = Copies /\ Newest' = Newest /\ Moments'
    BY <1>0, <2>1, <2>2 DEF Copies, Newest, Moments
  <2> QED
    BY <2>1, <2>3, <2>4 DEF MomentSound
<1>8. CASE ExportEnd
  <2>1. /\ export.at = "check" /\ export.todo = {} /\ export'.at = "idle"
        /\ good' = IF changed THEN good ELSE good \cup {run}
        /\ UNCHANGED <<live, run, source, changed, began, moment, copied, writes>>
    BY <1>8 DEF ExportEnd, Idle
  <2>2. Copies' = Copies /\ run \in Copies /\ copied[run] = source.data
    BY <1>num, <2>1 DEF Copies, SourceSound
  <2>3. ~changed => \A f \in Watched : Same(copied[run][f], moment[run][f], began[run])
    BY <2>1, <2>2 DEF MomentSound
  <2>4. Newest' = Newest /\ Moments'
    BY <1>0, <2>1 DEF Newest, Moments
  <2> QED
    BY <2>1, <2>2, <2>3, <2>4 DEF MomentSound
<1> QED
  BY <1>1, <1>2, <1>3, <1>4, <1>5, <1>6, <1>7, <1>8 DEF Export

LEMMA MomentSoundStep ==
  ASSUME Typed, SourceSound, MomentSound, [Next]_vars
  PROVE  MomentSound'
<1> USE DEF Typed, ExportTyped, ExportSteps, history
<1>num. /\ \A f \in Files : live[f] \in Nat /\ source.data[f] \in Nat
        /\ \A r \in 1..MaxRuns, f \in Files : moment[r][f] \in Nat
        /\ \A r \in 1..MaxRuns : began[r] \in Nat
        /\ Newest \in Nat /\ Timestamp \in Files /\ Watched \subseteq Files
        /\ export.at # "idle" => run \in 1..MaxRuns
        /\ Copies \subseteq 1..MaxRuns
  BY Numbers
<1>1. ASSUME NEW f \in Files, Write(f) \/ Delete(f) PROVE MomentSound'
  <2>1. /\ UNCHANGED <<export, run, source, changed, began, moment, copied, good>>
        /\ writes' = writes + 1
        /\ live' = [live EXCEPT ![f] = Newest + 1] \/ live' = [live EXCEPT ![f] = 0]
    BY <1>1 DEF Write, Delete
  <2>2. Newest' = Newest + 1 /\ Copies' = Copies /\ Moments'
    BY <2>1 DEF Newest, Copies, Moments, MomentSound
  <2>3. \A g \in Files : live'[g] = live[g] \/ live'[g] = Newest + 1 \/ live'[g] = 0
    BY <2>1 DEF Data
  <2>4. \A g \in Watched : /\ live[g] <= Newest /\ source.data[g] <= Newest
                           /\ live[g] \in Nat /\ source.data[g] \in Nat /\ g \in Files
    BY <1>num DEF MomentSound
  <2>5. \A g \in Watched : live'[g] <= Newest' /\ source'.data[g] <= Newest'
    BY <1>num, <2>1, <2>2, <2>3, <2>4
  <2>6. export.at # "idle" => began[run] <= Newest /\ began[run] \in Nat
    BY <1>num DEF MomentSound
  <2>7. export'.at # "idle" => began'[run'] <= Newest'
    BY <1>num, <2>1, <2>2, <2>6
  <2>8. ASSUME export.at # "idle", NEW g \in Watched
        PROVE  /\ Later(source.data[g], live[g], began[run])
                    => Later(source.data[g], live'[g], began[run])
               /\ Seen(source.data[g], moment[run][g], live[g], began[run])
                    => Seen(source.data[g], moment[run][g], live'[g], began[run])
    <3> DEFINE s == source.data[g]
               m == moment[run][g]
               b == began[run]
    <3>1. /\ s \in Nat /\ m \in Nat /\ b \in Nat /\ live[g] \in Nat
          /\ s <= Newest /\ b <= Newest /\ Newest \in Nat
      BY <1>num, <2>4, <2>6, <2>8
    <3>2. live'[g] = live[g] \/ live'[g] = Newest + 1 \/ live'[g] = 0
      BY <2>3, <2>4
    <3> HIDE DEF s, m, b
    <3>3. /\ Later(s, Newest + 1, b) /\ Later(s, 0, b)
          /\ Seen(s, m, live[g], b) => Seen(s, m, Newest + 1, b) /\ Seen(s, m, 0, b)
      BY <3>1, WriteIsLater, DeletionIsLater
    <3>4. /\ Later(s, live[g], b) => Later(s, live'[g], b)
          /\ Seen(s, m, live[g], b) => Seen(s, m, live'[g], b)
      BY <3>2, <3>3
    <3> QED
      BY <3>4 DEF s, m, b
  <2>9. export'.at = "copy" =>
           \A g \in Watched \ export'.todo : Later(source'.data[g], live'[g], began'[run'])
    BY <2>1, <2>8 DEF MomentSound
  <2>10. export'.at \in {"sign", "check"} =>
           \A g \in Watched : /\ Later(source'.data[g], live'[g], began'[run'])
                              /\ Seen(source'.data[g], moment'[run'][g], live'[g], began'[run'])
    BY <2>1, <2>8 DEF MomentSound
  <2> QED
    BY <2>1, <2>2, <2>5, <2>7, <2>9, <2>10 DEF MomentSound
<1>2. CASE ExportFail
  <2>1. /\ export'.at = "idle"
        /\ UNCHANGED <<live, run, source, changed, began, moment, copied, good, writes>>
    BY <1>2 DEF ExportFail, Idle
  <2>2. Copies' = Copies /\ Newest' = Newest /\ Moments'
    BY <2>1 DEF Copies, Newest, Moments, MomentSound
  <2> QED
    BY <2>1, <2>2 DEF MomentSound
<1>3. CASE UNCHANGED exportVars
  <2>1. UNCHANGED <<live, writes, run, export, source, changed, began, moment, copied, good>>
    BY <1>3 DEF exportVars
  <2>2. Copies' = Copies /\ Newest' = Newest /\ Moments'
    BY <2>1 DEF Copies, Newest, Moments, MomentSound
  <2> QED
    BY <2>1, <2>2 DEF MomentSound
<1>4. CASE UNCHANGED vars
  BY <1>3, <1>4 DEF vars
<1> QED
  BY <1>1, <1>2, <1>3, <1>4, MomentSoundExport, ImportLeavesTheExport DEF Next, Services

LEMMA BackupsAreOfOneMoment == TheiaInv /\ MomentSound => OneMoment
<1> SUFFICES ASSUME TheiaInv, MomentSound, whole, overlap = {},
                    home[Timestamp] \in good, NEW f \in Watched
             PROVE  \/ home[f] = moment[home[Timestamp]][f]
                    \/ home[f] = 0 /\ moment[home[Timestamp]][f] > began[home[Timestamp]]
  BY DEF OneMoment
<1>1. PICK r \in Copies : \A g \in Files : home[g] = copied[r][g]
  BY DEF TheiaInv, CleanSound, IsBackup
<1>2. home[Timestamp] = r /\ home[f] = copied[r][f]
  BY <1>1, TheiaAssumption DEF MomentSound
<1>3. Same(copied[r][f], moment[r][f], began[r])
  BY <1>2 DEF MomentSound
<1> QED
  BY <1>2, <1>3 DEF Same

\* For any files, partitions, exports, writes, deletions, failures and kills: when the
\* timestamp that was restored is that of an export that succeeded, and nothing overlapped
\* a transfer or stopped one, every file that the export watches is restored as it was at
\* one moment, but for a file that was there only between the copy and the check.
THEOREM RestoredIsOneMoment == Spec => []OneMoment
<1>1. Init => TheiaInv /\ MomentSound
  BY TheiaInvInit, MomentSoundInit
<1>2. TheiaInv /\ MomentSound /\ [Next]_vars => (TheiaInv /\ MomentSound)'
  BY TheiaInvStep, MomentSoundStep DEF TheiaInv
<1> QED
  BY <1>1, <1>2, BackupsAreOfOneMoment, PTL DEF Spec
=============================================================================
