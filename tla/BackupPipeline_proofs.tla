------------------------ MODULE BackupPipeline_proofs ------------------------
(***************************************************************************)
(* What holds of BackupPipeline for any dump, any number of backups and    *)
(* any number of failures, pushes during imports included: nothing goes    *)
(* backwards, and the clone implements Replica.                            *)
(***************************************************************************)
EXTENDS BackupPipeline, TLAPS

\* Every signature found down the pipeline was written by the exporter, and
\* the run in progress has signed nothing yet.
Signatures ==
  /\ \A d \in {source, mirror, store, backup} : d[Signature] \in signed \cup {0}
  /\ \A u \in signed : u <= run
  /\ exporting # {} => run \notin signed

\* What the import in progress has hashed is no newer than the directory, and the
\* same as long as no push has changed it.
Hashed ==
  imp.task = "verify" =>
    \A p \in Pieces \ imp.todo :
      /\ proof[p] <= backup[p]
      /\ ~exposed => proof[p] = backup[p]

\* The directory that an import reads is at least as recent as the snapshot it was
\* found to be, and still that snapshot as long as no push has changed it.
Reading ==
  imp.task \in {"import", "merge"} =>
    \E v \in signed :
      /\ \A f \in Files : backup[f] >= v
      /\ ~exposed => \A f \in Files : backup[f] = v
      /\ imp.task = "import" => imp.todo = Pieces
      /\ imp.task = "merge" =>
           /\ ~imageReady
           /\ \A p \in Pieces \ imp.todo :
                /\ image[p] >= v /\ image[p] >= lastImage[p] /\ image[p] <= backup[p]
                /\ ~exposed => image[p] = v

\* The last image is not newer than the directory, and it is what an image is.
ImageLast ==
  /\ \A p \in Pieces : lastImage[p] <= backup[p]
  /\ imageReady => image = lastImage

\* A run that dumps has a number.
Started == exporting # {} => run >= 1

OrderInv == TypeOK /\ Started /\ InOrder
OneSnapshot == Signatures /\ Hashed /\ Reading /\ ImageLast

ReplicaInv == OrderInv /\ OneSnapshot

-----------------------------------------------------------------------------
LEMMA InitOrder == Init => OrderInv
<1> SUFFICES ASSUME Init PROVE TypeOK /\ Started /\ InOrder
  BY DEF OrderInv
<1> USE PipelineAssumption DEF Init, Versions
<1>1. NoFile \in Directory /\ \A f \in Files : NoFile[f] = 0
  BY DEF NoFile, Directory
<1>2. InOrder
  BY <1>1 DEF InOrder
<1>3. pbs \in [task : {"idle", "pull", "cleaning", "checking", "checked", "push"},
               ts : Versions, todo : SUBSET Files]
  BY DEF IdlePbs
<1>4. imp \in [task : {"idle", "verify", "import", "merge"}, ts : Versions,
               todo : SUBSET Pieces]
  BY DEF IdleImp
<1>5. pullFeed \in [status : {"none", "OK", "FAILURE"}, ts : Versions]
  OBVIOUS
<1>6. /\ notes \in [Callbacks -> SUBSET Versions]
      /\ latest \in [Callbacks -> Versions]
      /\ image \in [Pieces -> Versions] /\ proof \in [Pieces -> Versions]
      /\ lastImage \in [Pieces -> Versions]
  BY DEF NoPiece
<1>7. /\ run \in Versions /\ exporting \subseteq Files /\ signed \subseteq 1..MaxRuns
      /\ failures \in 0..MaxFailures
  OBVIOUS
<1>8. unfinished \in BOOLEAN /\ diffEmpty \in BOOLEAN /\ imageReady \in BOOLEAN
      /\ exposed \in BOOLEAN
  BY Zenon
<1>9. /\ source \in Directory /\ mirror \in Directory
      /\ store \in Directory /\ backup \in Directory
  BY <1>1
<1>10. TypeOK
  BY ONLY <1>3, <1>4, <1>5, <1>6, <1>7, <1>8, <1>9 DEF TypeOK
<1> QED BY <1>2, <1>10 DEF Started

\* What notifying and taking notifications leave of the types.
LEMMA NotesTyped ==
  ASSUME TypeOK, NEW ts \in Versions
  PROVE  /\ \A cs : Notify(cs, ts)
                    => /\ notes' \in [Callbacks -> SUBSET Versions]
                       /\ failures' \in 0..MaxFailures
         /\ \A c \in Callbacks :
              /\ Take(c, ts) => notes' \in [Callbacks -> SUBSET Versions]
              /\ Succeeded(c, ts) => latest' \in [Callbacks -> Versions]
<1>1. \A cs : Notify(cs, ts) => /\ notes' \in [Callbacks -> SUBSET Versions]
                                /\ failures' \in 0..MaxFailures
  BY PipelineAssumption DEF TypeOK, Notify, Fail, Versions
<1>2. \A c \in Callbacks :
        /\ Take(c, ts) => notes' \in [Callbacks -> SUBSET Versions]
        /\ Succeeded(c, ts) => latest' \in [Callbacks -> Versions]
  BY PipelineAssumption DEF TypeOK, Take, Succeeded, Versions
<1> QED BY <1>1, <1>2

LEMMA FailTyped == ASSUME TypeOK, Fail PROVE failures' \in 0..MaxFailures
  BY PipelineAssumption DEF TypeOK, Fail

-----------------------------------------------------------------------------
LEMMA NextOrder == OrderInv /\ [Next]_vars => OrderInv'
<1> SUFFICES ASSUME OrderInv, [Next]_vars PROVE OrderInv'
  OBVIOUS
<1> USE PipelineAssumption
    DEF OrderInv, Started, Versions, exporterVars, pbsVars, cloneVars, importVars
<1>1. ASSUME ExportStart PROVE OrderInv'
  BY <1>1 DEF ExportStart, TypeOK, InOrder, Directory
<1>2. ASSUME NEW p \in Pieces, ExportPiece(p) PROVE OrderInv'
  BY <1>2 DEF ExportPiece, TypeOK, InOrder, Directory, Files
<1>3. ASSUME ExportSign PROVE OrderInv'
  <2>1. /\ notes' \in [Callbacks -> SUBSET Versions]
        /\ failures' \in 0..MaxFailures
    BY <1>3, NotesTyped DEF ExportSign, TypeOK
  <2>2. source' \in Directory /\ \A f \in Files : source[f] <= source'[f] /\ source'[f] <= run
    BY <1>3 DEF ExportSign, TypeOK, InOrder, Directory, Files
  <2>3. signed' \subseteq 1..MaxRuns
    <3>1. run \in 1..MaxRuns
      BY <1>3 DEF ExportSign, TypeOK
    <3> QED BY <1>3, <3>1 DEF ExportSign, TypeOK
  <2>4. TypeOK'
    BY <1>3, <2>1, <2>2, <2>3 DEF ExportSign, TypeOK
  <2>5. InOrder'
    BY <1>3, <2>2 DEF ExportSign, TypeOK, InOrder, Directory
  <2> QED BY <1>3, <2>4, <2>5 DEF ExportSign
<1>4. ASSUME ExportFail PROVE OrderInv'
  BY <1>4, FailTyped DEF ExportFail, TypeOK, InOrder
<1>5. ASSUME NEW ts \in 1..MaxRuns, PullStart(ts) PROVE OrderInv'
  <2>1. notes' \in [Callbacks -> SUBSET Versions]
    BY <1>5, NotesTyped DEF PullStart, Callbacks
  <2> QED BY <1>5, <2>1 DEF PullStart, TypeOK, InOrder
<1>6. ASSUME NEW f \in Files, PullFile(f) PROVE OrderInv'
  BY <1>6 DEF PullFile, TypeOK, InOrder, Directory
<1>7. ASSUME PullDone PROVE OrderInv'
  BY <1>7 DEF PullDone, TypeOK, InOrder, Directory
<1>8. ASSUME PullError PROVE OrderInv'
  BY <1>8, FailTyped DEF PullError, TypeOK, InOrder
<1>9. ASSUME CheckDestination PROVE OrderInv'
  <2>1. /\ mirror' \in Directory
        /\ \A f \in Files : store[f] <= mirror'[f] /\ mirror'[f] <= mirror[f]
    BY <1>9 DEF CheckDestination, TypeOK, InOrder, Directory
  <2>2. unfinished' \in BOOLEAN /\ failures' \in 0..MaxFailures
    BY <1>9, FailTyped DEF CheckDestination, TypeOK
  <2>3. pbs' \in [task : {"idle", "pull", "cleaning", "checking", "checked", "push"},
                  ts : Versions, todo : SUBSET Files]
    BY <1>9 DEF CheckDestination, TypeOK
  <2>4. TypeOK'
    BY <1>9, <2>1, <2>2, <2>3 DEF CheckDestination, TypeOK
  <2>5. InOrder'
    BY <1>9, <2>1 DEF CheckDestination, TypeOK, InOrder, Directory
  <2> QED BY <1>9, <2>4, <2>5 DEF CheckDestination
<1>10. ASSUME PullNotify PROVE OrderInv'
  <2>1. /\ notes' \in [Callbacks -> SUBSET Versions]
        /\ failures' \in 0..MaxFailures
        /\ latest' \in [Callbacks -> Versions]
    BY <1>10, NotesTyped DEF PullNotify, TypeOK, Callbacks
  <2> QED BY <1>10, <2>1 DEF PullNotify, TypeOK, InOrder, IdlePbs
<1>11. ASSUME NEW ts \in 1..MaxRuns, PushStart(ts) PROVE OrderInv'
  <2>1. notes' \in [Callbacks -> SUBSET Versions]
    BY <1>11, NotesTyped DEF PushStart, Callbacks
  <2> QED BY <1>11, <2>1 DEF PushStart, TypeOK, InOrder
<1>12. ASSUME NEW f \in Files, PushFile(f) PROVE OrderInv'
  <2>1. exposed' \in BOOLEAN
    BY <1>12, Zenon DEF PushFile
  <2>2. /\ backup' \in Directory /\ InOrder'
        /\ pbs' \in [task : {"idle", "pull", "cleaning", "checking", "checked", "push"},
                     ts : Versions, todo : SUBSET Files]
    BY <1>12 DEF PushFile, TypeOK, InOrder, Directory
  <2> QED BY <1>12, <2>1, <2>2 DEF PushFile, TypeOK
<1>13. ASSUME PushDone PROVE OrderInv'
  <2>1. /\ notes' \in [Callbacks -> SUBSET Versions]
        /\ failures' \in 0..MaxFailures
        /\ latest' \in [Callbacks -> Versions]
    BY <1>13, NotesTyped DEF PushDone, TypeOK, Callbacks
  <2> QED BY <1>13, <2>1 DEF PushDone, TypeOK, InOrder, IdlePbs
<1>14. ASSUME PushFail PROVE OrderInv'
  BY <1>14, FailTyped DEF PushFail, TypeOK, InOrder, IdlePbs
<1>15. ASSUME PbsRestart PROVE OrderInv'
  <2>1. notes' \in [Callbacks -> SUBSET Versions]
    BY <1>15 DEF PbsRestart, TypeOK
  <2>2. unfinished' \in BOOLEAN /\ failures' \in 0..MaxFailures
    BY <1>15, FailTyped DEF PbsRestart, TypeOK
  <2>3. pbs' \in [task : {"idle", "pull", "cleaning", "checking", "checked", "push"},
                  ts : Versions, todo : SUBSET Files]
    BY <1>15 DEF PbsRestart, IdlePbs
  <2> QED BY <1>15, <2>1, <2>2, <2>3 DEF PbsRestart, TypeOK, InOrder
<1>16. ASSUME NEW ts \in 1..MaxRuns, CheckBackup(ts) PROVE OrderInv'
  <2>1. notes' \in [Callbacks -> SUBSET Versions]
    BY <1>16, NotesTyped DEF CheckBackup, Callbacks
  <2>2. latest' \in [Callbacks -> Versions]
    <3>1. latest' = [latest EXCEPT !["check"] = ts] \/ latest' = latest
      BY <1>16, Zenon DEF CheckBackup
    <3> QED BY <3>1 DEF TypeOK
  <2>3. diffEmpty' \in BOOLEAN
    BY <1>16 DEF CheckBackup, Matches
  <2> QED BY <1>16, <2>1, <2>2, <2>3 DEF CheckBackup, TypeOK, InOrder
<1>17. ASSUME NEW ts \in 1..MaxRuns, ImportStart(ts) PROVE OrderInv'
  <2>1. notes' \in [Callbacks -> SUBSET Versions]
    BY <1>17, NotesTyped DEF ImportStart, Callbacks
  <2> QED BY <1>17, <2>1 DEF ImportStart, TypeOK, InOrder, IdleImp
<1>18. ASSUME ImportRemove PROVE OrderInv'
  <2>1. /\ imp' \in [task : {"idle", "verify", "import", "merge"}, ts : Versions,
                     todo : SUBSET Pieces]
        /\ image' \in [Pieces -> Versions]
    BY <1>18 DEF ImportRemove, TypeOK, NoPiece
  <2> QED BY <1>18, <2>1 DEF ImportRemove, TypeOK, InOrder
<1>19. ASSUME NEW p \in Pieces, ImportPiece(p) PROVE OrderInv'
  BY <1>19 DEF ImportPiece, TypeOK, InOrder, Directory, Files
<1>20. ASSUME ImportDone PROVE OrderInv'
  <2>1. latest' \in [Callbacks -> Versions]
    BY <1>20, NotesTyped DEF ImportDone, TypeOK, Callbacks
  <2>2. imageReady' \in BOOLEAN /\ exposed' \in BOOLEAN
    BY <1>20, Zenon DEF ImportDone
  <2> QED BY <1>20, <2>1, <2>2 DEF ImportDone, TypeOK, InOrder, IdleImp
<1>21. ASSUME ImportFail PROVE OrderInv'
  <2>1. exposed' \in BOOLEAN
    BY <1>21, Zenon DEF ImportFail
  <2> QED BY <1>21, <2>1, FailTyped DEF ImportFail, TypeOK, InOrder, IdleImp, NoPiece
<1>25. ASSUME NEW p \in Pieces, ImportHash(p) PROVE OrderInv'
  BY <1>25 DEF ImportHash, TypeOK, InOrder, Directory, Files
<1>26. ASSUME ImportVerify PROVE OrderInv'
  <2>1. imp' = [imp EXCEPT !.task = "import", !.todo = Pieces] \/ imp' = IdleImp
    <3>1. CASE ProofMatches
      BY <1>26, <3>1 DEF ImportVerify
    <3>2. CASE ~ProofMatches
      BY <1>26, <3>2 DEF ImportVerify
    <3> QED BY <3>1, <3>2
  <2>2. imp' \in [task : {"idle", "verify", "import", "merge"}, ts : Versions,
                  todo : SUBSET Pieces]
    <3>1. CASE imp' = [imp EXCEPT !.task = "import", !.todo = Pieces]
      BY <3>1 DEF TypeOK
    <3>2. CASE imp' = IdleImp
      BY <3>2 DEF IdleImp
    <3> QED BY ONLY <2>1, <3>1, <3>2
  <2>3. exposed' = exposed \/ exposed' = FALSE
    BY <1>26, Zenon DEF ImportVerify
  <2>4. exposed' \in BOOLEAN
    BY <2>3, Zenon DEF TypeOK
  <2>5. /\ proof' \in [Pieces -> Versions]
        /\ UNCHANGED <<latest, failures, exporterVars, pbsVars, backup, diffEmpty,
                       notes, image, imageReady, lastImage>>
    BY <1>26 DEF ImportVerify, NoPiece
  <2> QED BY <2>2, <2>4, <2>5 DEF TypeOK, InOrder
<1>22. ASSUME NEW ts \in 1..MaxRuns, NEW c \in Callbacks, EqueueSkip(c, ts)
       PROVE  OrderInv'
  <2>1. notes' \in [Callbacks -> SUBSET Versions]
    BY <1>22, NotesTyped DEF EqueueSkip
  <2> QED BY <1>22, <2>1 DEF EqueueSkip, TypeOK, InOrder
<1>23. ASSUME PullCleanFail PROVE OrderInv'
  BY <1>23, FailTyped DEF PullCleanFail, TypeOK, InOrder, IdlePbs
<1>24. CASE UNCHANGED vars
  BY <1>24 DEF vars, TypeOK, InOrder
<1> QED
  BY <1>1, <1>2, <1>3, <1>4, <1>5, <1>6, <1>7, <1>8, <1>9, <1>10, <1>11, <1>12,
     <1>13, <1>14, <1>15, <1>16, <1>17, <1>18, <1>19, <1>20, <1>21, <1>22, <1>23, <1>24,
     <1>25, <1>26
  DEF Next, Export, PbsStep, CloneStep, Failure, Callbacks

\* The variables keep their types, and nothing goes backwards down the pipeline.
THEOREM Order == Spec => []OrderInv
<1> QED BY InitOrder, NextOrder, PTL DEF Spec

\* Neither a failure nor a late or lost notification ever puts older data over
\* newer data, in the PBS or in the clone.
THEOREM NothingGoesBackwards == Spec => []InOrder
<1>1. OrderInv => InOrder
  BY DEF OrderInv
<1> QED BY <1>1, Order, PTL

-----------------------------------------------------------------------------
(* The clone implements Replica. *)

LEMMA InitReplica == Init => OneSnapshot
<1> SUFFICES ASSUME Init PROVE OneSnapshot
  OBVIOUS
<1>1. Signatures
  BY DEF Init, Signatures, NoFile, Files
<1>2. Hashed /\ Reading
  BY DEF Init, Hashed, Reading, IdleImp
<1>3. ImageLast
  BY DEF Init, ImageLast, NoFile, Files, NoPiece
<1> QED BY <1>1, <1>2, <1>3 DEF OneSnapshot

\* A directory whose pieces were found to be those of its signature is signed.
LEMMA ProvedIsSigned ==
  ASSUME TypeOK, Signatures, Hashed, ProofMatches,
         imp.task = "verify", imp.todo = {}
  PROVE  /\ backup[Signature] \in signed
         /\ \A f \in Files : backup[f] >= backup[Signature]
         /\ ~exposed => \A f \in Files : backup[f] = backup[Signature]
<1>1. backup[Signature] \in signed
  BY DEF Signatures, ProofMatches
<1>2. backup[Signature] \in Nat /\ \A f \in Files : backup[f] \in Nat
  BY PipelineAssumption DEF TypeOK, Directory, Files, Versions
<1>3. \A p \in Pieces : /\ backup[Signature] <= backup[p]
                        /\ ~exposed => backup[p] = backup[Signature]
  BY DEF Hashed, ProofMatches
<1> QED BY <1>1, <1>2, <1>3 DEF Files

\* A step that changes none of what the import depends on leaves it as it is.
LEMMA OtherSteps ==
  ASSUME TypeOK, OneSnapshot,
         signed \subseteq signed', UNCHANGED <<backup, importVars>>
  PROVE  Hashed' /\ Reading' /\ ImageLast'
<1> USE DEF OneSnapshot, importVars
<1>1. Hashed'
  BY DEF Hashed
<1>2. Reading'
  <2> SUFFICES ASSUME imp.task \in {"import", "merge"} PROVE Reading'
    BY DEF Reading
  <2>1. PICK v \in signed :
          /\ \A f \in Files : backup[f] >= v
          /\ ~exposed => \A f \in Files : backup[f] = v
          /\ imp.task = "import" => imp.todo = Pieces
          /\ imp.task = "merge" =>
               /\ ~imageReady
               /\ \A p \in Pieces \ imp.todo :
                    /\ image[p] >= v /\ image[p] >= lastImage[p] /\ image[p] <= backup[p]
                    /\ ~exposed => image[p] = v
    BY DEF Reading
  <2> QED BY <2>1 DEF Reading
<1>3. ImageLast'
  BY DEF ImageLast
<1> QED BY <1>1, <1>2, <1>3

LEMMA NextReplica ==
  ASSUME ReplicaInv, [Next]_vars, OrderInv'
  PROVE  OneSnapshot'
<1> USE PipelineAssumption
    DEF ReplicaInv, OrderInv, OneSnapshot, Versions, exporterVars, pbsVars, cloneVars,
        importVars
<1>1. Signatures'
  <2>1. CASE ExportSign
    BY <2>1 DEF ExportSign, Directory, Files, TypeOK, Signatures
  <2>2. ASSUME NEW p \in Pieces, ExportPiece(p) PROVE Signatures'
    BY <2>2 DEF ExportPiece, Directory, Files, TypeOK, Signatures
  <2>3. CASE ExportStart
    BY <2>3 DEF ExportStart, TypeOK, Signatures
  <2>4. CASE ExportFail
    BY <2>4 DEF ExportFail, TypeOK, Signatures
  <2>5. ASSUME UNCHANGED exporterVars,
               mirror'[Signature] \in signed \cup {0},
               store'[Signature] \in signed \cup {0},
               backup'[Signature] \in signed \cup {0}
        PROVE  Signatures'
    BY <2>5 DEF Signatures
  <2>6. ASSUME NEW f \in Files, PullFile(f) PROVE Signatures'
    BY <2>5, <2>6 DEF PullFile, Directory, Files, TypeOK, Signatures
  <2>7. ASSUME NEW f \in Files, PushFile(f) PROVE Signatures'
    BY <2>5, <2>7 DEF PushFile, Directory, Files, TypeOK, Signatures
  <2>8. CASE PullDone
    BY <2>5, <2>8 DEF PullDone, Signatures
  <2>9. CASE CheckDestination
    BY <2>5, <2>9 DEF CheckDestination, Signatures
  <2>10. CASE UNCHANGED <<exporterVars, mirror, store, backup>>
    BY <2>10 DEF Signatures
  <2>11. ASSUME Next
         PROVE  \/ ExportSign \/ (\E p \in Pieces : ExportPiece(p)) \/ ExportStart \/ ExportFail
                \/ (\E f \in Files : PullFile(f) \/ PushFile(f))
                \/ PullDone \/ CheckDestination
                \/ UNCHANGED <<exporterVars, mirror, store, backup>>
    BY <2>11 DEF Next, Export, PbsStep, CloneStep, Failure, PullStart, PullCleanFail,
       PullError, PullNotify, PushStart, PushDone, PushFail, PbsRestart, CheckBackup,
       ImportStart, ImportHash, ImportVerify, ImportRemove, ImportPiece, ImportDone,
       ImportFail, EqueueSkip
  <2>12. CASE UNCHANGED vars
    BY <2>10, <2>12 DEF vars
  <2> QED BY <2>1, <2>2, <2>3, <2>4, <2>6, <2>7, <2>8, <2>9, <2>10, <2>11, <2>12
<1>2. Hashed' /\ Reading' /\ ImageLast'
  <2> DEFINE Import == Hashed /\ Reading /\ ImageLast
  <2> SUFFICES Import'
    OBVIOUS
  <2>1. ASSUME NEW f \in Files, PushFile(f) PROVE Import'
    <3>1. /\ backup' \in Directory /\ \A g \in Files : backup[g] <= backup'[g]
          /\ UNCHANGED <<signed, imp, proof, image, imageReady, lastImage>>
      BY <2>1 DEF PushFile, InOrder, Directory, TypeOK
    <3>2. imp # IdleImp /\ ~exposed' => backup' = backup /\ ~exposed
      BY <2>1 DEF PushFile, TypeOK, Directory
    <3>3. Hashed'
      <4>1. imp.task = "verify" => imp # IdleImp
        BY DEF IdleImp
      <4> QED BY <3>1, <3>2, <4>1 DEF Hashed, Directory, TypeOK, Files
    <3>4. Reading'
      <4> SUFFICES ASSUME imp.task \in {"import", "merge"} PROVE Reading'
        BY <3>1 DEF Reading
      <4>1. imp # IdleImp
        BY DEF IdleImp
      <4>2. PICK v \in signed :
              /\ \A g \in Files : backup[g] >= v
              /\ ~exposed => \A g \in Files : backup[g] = v
              /\ imp.task = "import" => imp.todo = Pieces
              /\ imp.task = "merge" =>
                   /\ ~imageReady
                   /\ \A p \in Pieces \ imp.todo :
                        /\ image[p] >= v /\ image[p] >= lastImage[p] /\ image[p] <= backup[p]
                        /\ ~exposed => image[p] = v
        BY DEF Reading
      <4>3. v \in Nat /\ \A g \in Files : backup[g] \in Nat /\ backup'[g] \in Nat
        BY <3>1 DEF TypeOK, Directory
      <4>4. \A g \in Files : backup'[g] >= v
        BY <3>1, <4>2, <4>3
      <4>5. ~exposed' => \A g \in Files : backup'[g] = v
        BY <3>2, <4>1, <4>2
      <4>6. imp.task = "merge" =>
              /\ ~imageReady
              /\ \A p \in Pieces \ imp.todo :
                   /\ image[p] >= v /\ image[p] >= lastImage[p] /\ image[p] <= backup'[p]
                   /\ ~exposed' => image[p] = v
        BY <3>1, <3>2, <4>1, <4>2, <4>3 DEF Files, TypeOK
      <4> QED BY <3>1, <4>2, <4>4, <4>5, <4>6 DEF Reading
    <3>5. ImageLast'
      BY <3>1 DEF ImageLast, Files, TypeOK, Directory
    <3> QED BY <3>3, <3>4, <3>5
  <2>2. ASSUME NEW ts \in 1..MaxRuns, ImportStart(ts) PROVE Import'
    BY <2>2 DEF ImportStart, Hashed, Reading, ImageLast
  <2>3. ASSUME NEW p \in Pieces, ImportHash(p) PROVE Import'
    BY <2>3 DEF ImportHash, Hashed, Reading, ImageLast, TypeOK, Directory, Files
  <2>4. CASE ImportVerify
    <3>1. CASE imp' = IdleImp
      BY <2>4, <3>1 DEF ImportVerify, Hashed, Reading, ImageLast, IdleImp
    <3>2. CASE imp' # IdleImp
      <4>1. /\ ProofMatches /\ imp.task = "verify" /\ imp.todo = {}
            /\ imp' = [imp EXCEPT !.task = "import", !.todo = Pieces]
            /\ UNCHANGED <<exposed, signed, backup, image, imageReady, lastImage>>
        BY <2>4, <3>2 DEF ImportVerify
      <4>2. imp'.task = "import" /\ imp'.todo = Pieces
        BY <4>1 DEF TypeOK
      <4>3. /\ backup[Signature] \in signed
            /\ \A f \in Files : backup[f] >= backup[Signature]
            /\ ~exposed => \A f \in Files : backup[f] = backup[Signature]
        BY <4>1, ProvedIsSigned
      <4> QED BY <4>1, <4>2, <4>3 DEF Hashed, Reading, ImageLast
    <3> QED BY <3>1, <3>2
  <2>5. CASE ImportRemove
    <3>1. /\ imp.task = "import" /\ imp'.task = "merge" /\ imp'.todo = imp.todo
          /\ ~imageReady'
          /\ UNCHANGED <<signed, backup, lastImage, exposed>>
      BY <2>5 DEF ImportRemove, TypeOK
    <3>2. Reading'
      BY <3>1 DEF Reading
    <3> QED BY <3>1, <3>2 DEF Hashed, ImageLast
  <2>6. ASSUME NEW p \in Pieces, ImportPiece(p) PROVE Import'
    <3>1. /\ imp.task = "merge" /\ imp'.task = "merge" /\ imp'.todo = imp.todo \ {p}
          /\ image' = [image EXCEPT ![p] = backup[p]]
          /\ UNCHANGED <<signed, backup, lastImage, exposed, imageReady>>
      BY <2>6 DEF ImportPiece, TypeOK
    <3>2. lastImage[p] <= backup[p] /\ backup[p] \in Nat
      BY DEF ImageLast, TypeOK, Directory, Files
    <3>3. PICK v \in signed :
            /\ \A g \in Files : backup[g] >= v
            /\ ~exposed => \A g \in Files : backup[g] = v
            /\ ~imageReady
            /\ \A q \in Pieces \ imp.todo :
                 /\ image[q] >= v /\ image[q] >= lastImage[q] /\ image[q] <= backup[q]
                 /\ ~exposed => image[q] = v
      BY <3>1 DEF Reading
    <3>4. \A q \in Pieces \ imp'.todo :
            /\ image'[q] >= v /\ image'[q] >= lastImage[q] /\ image'[q] <= backup[q]
            /\ ~exposed => image'[q] = v
      BY <3>1, <3>2, <3>3 DEF TypeOK, Files, Directory
    <3> QED BY <3>1, <3>3, <3>4 DEF Hashed, Reading, ImageLast
  <2>7. CASE ImportDone
    <3>1. imp.task = "merge" /\ imp.todo = {} /\ lastImage' = image /\ image' = image
      BY <2>7 DEF ImportDone
    <3>2. \A p \in Pieces : image[p] <= backup[p]
      BY <3>1 DEF Reading
    <3> QED BY <2>7, <3>1, <3>2 DEF ImportDone, IdleImp, Hashed, Reading, ImageLast
  <2>8. CASE ImportFail
    BY <2>8 DEF ImportFail, IdleImp, Hashed, Reading, ImageLast
  <2>9. CASE signed \subseteq signed' /\ UNCHANGED <<backup, importVars>>
    BY <2>9, OtherSteps
  <2>10. ASSUME Next
         PROVE  \/ \E f \in Files : PushFile(f)
                \/ \E ts \in 1..MaxRuns : ImportStart(ts)
                \/ \E p \in Pieces : ImportHash(p) \/ ImportPiece(p)
                \/ ImportVerify \/ ImportRemove \/ ImportDone \/ ImportFail
                \/ signed \subseteq signed' /\ UNCHANGED <<backup, importVars>>
    BY <2>10 DEF Next, Export, PbsStep, CloneStep, Failure, ExportStart, ExportPiece,
       ExportSign, ExportFail, PullStart, PullFile, PullDone, PullCleanFail, PullError,
       CheckDestination, PullNotify, PushStart, PushDone, PushFail, PbsRestart,
       CheckBackup, EqueueSkip
  <2>11. CASE UNCHANGED vars
    BY <2>9, <2>11 DEF vars
  <2> QED BY <2>1, <2>2, <2>3, <2>4, <2>5, <2>6, <2>7, <2>8, <2>9, <2>10, <2>11
<1> QED BY <1>1, <1>2

\* A step of the pipeline is a step of Replica or a stutter.
LEMMA StepRefines ==
  ASSUME ReplicaInv, ReplicaInv', [Next]_vars
  PROVE  [R!Next]_<<signed, ReplicaImage, lastImage, exposed>>
<1> USE PipelineAssumption DEF exporterVars, pbsVars, cloneVars, importVars
<1>1. /\ ReplicaImage = IF imageReady THEN image ELSE NoPiece
      /\ ReplicaImage' = IF imageReady' THEN image' ELSE NoPiece
  BY DEF ReplicaImage, NoPiece
<1>2. ASSUME ExportSign PROVE \E v \in 1..MaxRuns : R!Sign(v)
  <2>1. run \in 1..MaxRuns
    BY <1>2 DEF ExportSign, ReplicaInv, OrderInv, TypeOK, Started, Versions
  <2>2. \A u \in signed : u < run
    BY <1>2, <2>1 DEF ExportSign, ReplicaInv, OrderInv, OneSnapshot, Signatures, TypeOK
  <2>3. signed' = signed \cup {run} /\ UNCHANGED <<ReplicaImage, lastImage, exposed>>
    BY <1>1, <1>2 DEF ExportSign
  <2> QED BY <2>1, <2>2, <2>3 DEF R!Sign
<1>3. ASSUME ImportRemove PROVE R!Wipe
  BY <1>1, <1>3 DEF ImportRemove, R!Wipe, NoPiece, R!NoImage
<1>4. ASSUME ImportDone PROVE \E v \in 1..MaxRuns : R!Complete(v)
  <2>1. /\ imp.task = "merge" /\ imp.todo = {} /\ lastImage' = image /\ image' = image
        /\ imageReady' /\ ~exposed' /\ signed' = signed
    BY <1>4 DEF ImportDone
  <2>2. PICK v \in signed :
          \A p \in Pieces : /\ image[p] >= v /\ image[p] >= lastImage[p]
                            /\ ~exposed => image[p] = v
    BY <2>1 DEF ReplicaInv, OneSnapshot, Reading
  <2>3. v \in 1..MaxRuns
    BY DEF ReplicaInv, OrderInv, TypeOK
  <2>4. ReplicaImage' = image /\ image \in [Pieces -> 1..MaxRuns]
    <3>1. image \in [Pieces -> 0..MaxRuns] /\ \A p \in Pieces : image[p] >= v
      BY <2>2 DEF ReplicaInv, OrderInv, TypeOK, Versions
    <3> QED BY <1>1, <2>1, <2>3, <3>1
  <2> QED BY <2>1, <2>2, <2>3, <2>4 DEF R!Complete
<1>5. CASE UNCHANGED <<signed, imageReady, image, lastImage>>
  <2>1. exposed' \in BOOLEAN
    BY DEF ReplicaInv, OrderInv, TypeOK
  <2> QED BY <1>1, <1>5, <2>1 DEF R!Next, R!Expose
<1>6. ASSUME NEW p \in Pieces, ImportPiece(p)
      PROVE  UNCHANGED <<signed, ReplicaImage, lastImage, exposed>>
  <2>1. ~imageReady
    BY <1>6 DEF ImportPiece, ReplicaInv, OneSnapshot, Reading
  <2> QED BY <1>1, <1>6, <2>1 DEF ImportPiece
<1>7. ASSUME Next PROVE \/ ExportSign \/ ImportRemove \/ ImportDone
                        \/ \E p \in Pieces : ImportPiece(p)
                        \/ UNCHANGED <<signed, imageReady, image, lastImage>>
  BY <1>7 DEF Next, Export, PbsStep, CloneStep, Failure, ExportStart, ExportPiece,
     ExportFail, PullStart, PullFile, PullDone, PullCleanFail, PullError, CheckDestination,
     PullNotify, PushStart, PushFile, PushDone, PushFail, PbsRestart,
     CheckBackup, ImportStart, ImportHash, ImportVerify, ImportFail, EqueueSkip
<1>8. CASE UNCHANGED vars
  BY <1>5, <1>8 DEF vars
<1> QED BY <1>2, <1>3, <1>4, <1>5, <1>6, <1>7, <1>8 DEF R!Next

\* An image of the clone is one signed snapshot unless a push changed the backup
\* under its import, in which case none of its pieces is older than one, and no
\* piece is older than in the image before: for any dump, any number of backups
\* and any failures, lost notifications and restarts.
THEOREM CloneIsReplica == Spec => ImplementsReplica
<1>1. Init => ReplicaInv
  BY InitOrder, InitReplica DEF ReplicaInv
<1>2. ReplicaInv /\ [Next]_vars => ReplicaInv'
  BY NextOrder, NextReplica DEF ReplicaInv
<1>3. Init => R!Init
  BY DEF Init, R!Init, ReplicaImage, NoPiece, R!NoImage
<1>4. ReplicaInv /\ ReplicaInv' /\ [Next]_vars
      => [R!Next]_<<signed, ReplicaImage, lastImage, exposed>>
  BY StepRefines
<1> QED BY <1>1, <1>2, <1>3, <1>4, PTL DEF Spec, ImplementsReplica, R!Spec
=============================================================================
