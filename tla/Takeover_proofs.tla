--------------------------- MODULE Takeover_proofs ---------------------------
(***************************************************************************)
(* What holds of Takeover for every tree, every number of runs of the      *)
(* takeover script and every interleaving of them with the root.           *)
(***************************************************************************)
EXTENDS Takeover, TLAPS

\* The master gives a reference to one partition only.
OneHolder ==
  \A i, j \in Instances : name[i] = name[j] /\ name[i] # NoName => i = j

(***************************************************************************)
(* The invariant behind the theorems.  A run knows the partitions it works *)
(* on; a winner that was renamed, or that holds the lock file, has left    *)
(* the clones for good, as an allocated partition never gets a clone name. *)
(***************************************************************************)
RunsKnowTheirs ==
  \A r \in Runs :
    /\ Running(r) => winner[r] \in Instances
    /\ pc[r] = "renameBroken" => broken[r] \in Instances

PromotedLeft ==
  \A r \in Runs : pc[r] \in {"bang", "lock"} =>
                    name[winner[r]] \notin CloneNames \cup {NoName}

LockedLeft ==
  \A i \in Instances : i \in lock => name[i] \notin CloneNames \cup {NoName}

IInv == TypeOK /\ OneHolder /\ RunsKnowTheirs /\ PromotedLeft /\ LockedLeft

\* A partition about to be set aside is frozen, if the root did not interfere.
FrozenWhileRenaming ==
  \A r \in Runs : pc[r] = "renameBroken" => mode[broken[r]] = "frozen"

QuietInv == ~raced => BrokenIsFrozen /\ FrozenWhileRenaming

-----------------------------------------------------------------------------
\* What a request to the master does, whoever makes it: it gives the reference
\* to the one partition that may bear it, and no other partition changes.
LEMMA RequestGives ==
  ASSUME TypeOK, OneHolder,
         NEW n \in TreeNames, NEW m \in Modes, NEW i \in Instances,
         Request(n, m, i)
  PROVE  /\ name' \in [Instances -> Names \cup {NoName}]
         /\ mode' \in [Instances -> Modes]
         /\ OneHolder'
         /\ name[i] \in {n, NoName}
         /\ name'[i] = n /\ mode'[i] = m
         /\ \A j \in Instances \ {i} : name'[j] = name[j] /\ mode'[j] = mode[j]
  BY NamesAssumption
  DEF TypeOK, OneHolder, Request, Holder, Free, Names, TreeNames

\* What a rename does when the reference is available.
LEMMA RenameGives ==
  ASSUME TypeOK, OneHolder,
         NEW n \in Names, NEW i \in Instances, Available(n, i),
         name' = [name EXCEPT ![i] = n]
  PROVE  /\ name' \in [Instances -> Names \cup {NoName}]
         /\ OneHolder'
         /\ name'[i] = n
         /\ \A j \in Instances \ {i} : name'[j] = name[j]
  BY NamesAssumption DEF TypeOK, OneHolder, Available, Holder, Names, TreeNames

LEMMA InitIInv == Init => IInv
<1> SUFFICES ASSUME Init PROVE IInv
  OBVIOUS
<1>1. name \in [Instances -> Names \cup {NoName}]
  <2>1. \A i \in Instances :
          (\E n \in TreeNames : Placement[n] = i)
          => (CHOOSE n \in TreeNames : Placement[n] = i) \in TreeNames
    OBVIOUS
  <2> QED BY <2>1 DEF Init, Names
<1>2. TypeOK
  BY <1>1 DEF Init, TypeOK, Modes, ModeOf, Steps
<1>3. OneHolder
  <2> SUFFICES ASSUME NEW i \in Instances, NEW j \in Instances,
                      name[i] = name[j], name[i] # NoName
               PROVE  i = j
    BY DEF OneHolder
  <2>1. \A k \in Instances : name[k] # NoName => Placement[name[k]] = k
    BY DEF Init
  <2> QED BY <2>1
<1>4. RunsKnowTheirs /\ PromotedLeft /\ LockedLeft
  BY DEF Init, RunsKnowTheirs, PromotedLeft, LockedLeft, Running
<1> QED BY <1>2, <1>3, <1>4 DEF IInv

-----------------------------------------------------------------------------
LEMMA NextIInv == IInv /\ [Next]_vars => IInv'
<1> SUFFICES ASSUME IInv, [Next]_vars PROVE IInv'
  OBVIOUS
<1> USE DEF IInv
<1>1. ASSUME NEW r \in Runs, Start(r) PROVE IInv'
  <2>1. PICK w \in Instances \ down : winner' = [winner EXCEPT ![r] = w]
    BY <1>1 DEF Start
  <2>2. TypeOK'
    BY <1>1, <2>1 DEF Start, TypeOK, Steps
  <2>3. RunsKnowTheirs' /\ PromotedLeft'
    BY <1>1, <2>1 DEF Start, TypeOK, RunsKnowTheirs, PromotedLeft, Running
  <2> QED BY <1>1, <2>2, <2>3 DEF Start, OneHolder, LockedLeft
<1>2. ASSUME NEW r \in Runs, RequestBroken(r) PROVE IInv'
  <2>1. PICK i \in Instances : /\ Request(Main, "frozen", i)
                               /\ broken' = [broken EXCEPT ![r] = i]
    BY <1>2 DEF RequestBroken
  <2>2. /\ name' \in [Instances -> Names \cup {NoName}]
        /\ mode' \in [Instances -> Modes]
        /\ OneHolder'
        /\ name'[i] = Main
        /\ \A j \in Instances \ {i} : name'[j] = name[j]
    BY <2>1, RequestGives DEF TreeNames, Modes
  <2>3. TypeOK'
    BY <1>2, <2>1, <2>2 DEF RequestBroken, TypeOK, Steps
  <2>4. RunsKnowTheirs'
    BY <1>2, <2>1 DEF RequestBroken, TypeOK, RunsKnowTheirs, Running
  <2>5. \A j \in Instances : name[j] \notin CloneNames \cup {NoName}
                             => name'[j] \notin CloneNames \cup {NoName}
    BY <2>2, NamesAssumption DEF Names, TreeNames
  <2>6. PromotedLeft'
    BY <1>2, <2>5 DEF RequestBroken, TypeOK, PromotedLeft, RunsKnowTheirs, Running
  <2>7. LockedLeft'
    BY <1>2, <2>5 DEF RequestBroken, LockedLeft
  <2> QED BY <2>2, <2>3, <2>4, <2>6, <2>7
<1>3. ASSUME NEW r \in Runs, RenameBroken(r) PROVE IInv'
  <2>1. PICK n \in BrokenNames :
          IF Available(n, broken[r])
          THEN /\ name' = [name EXCEPT ![broken[r]] = n]
               /\ pc' = [pc EXCEPT ![r] = "renameWinner"]
          ELSE /\ pc' = [pc EXCEPT ![r] = "failed"]
               /\ UNCHANGED name
    BY <1>3 DEF RenameBroken
  <2>2. broken[r] \in Instances
    BY <1>3 DEF RenameBroken, RunsKnowTheirs
  <2>3. CASE ~Available(n, broken[r])
    BY <1>3, <2>1, <2>3
    DEF RenameBroken, TypeOK, Steps, OneHolder, RunsKnowTheirs, Running,
        PromotedLeft, LockedLeft
  <2>4. CASE Available(n, broken[r])
    <3>1. /\ name' \in [Instances -> Names \cup {NoName}]
          /\ OneHolder'
          /\ name'[broken[r]] = n
          /\ \A j \in Instances \ {broken[r]} : name'[j] = name[j]
      BY <2>1, <2>2, <2>4, RenameGives DEF Names
    <3>2. TypeOK'
      BY <1>3, <2>1, <2>4, <3>1 DEF RenameBroken, TypeOK, Steps
    <3>3. RunsKnowTheirs'
      BY <1>3, <2>1, <2>4 DEF RenameBroken, TypeOK, RunsKnowTheirs, Running
    <3>4. \A j \in Instances : name[j] \notin CloneNames \cup {NoName}
                               => name'[j] \notin CloneNames \cup {NoName}
      BY <3>1, NamesAssumption DEF Names, TreeNames
    <3>5. PromotedLeft'
      BY <1>3, <2>1, <2>4, <3>4
      DEF RenameBroken, TypeOK, PromotedLeft, RunsKnowTheirs, Running
    <3>6. LockedLeft'
      BY <1>3, <3>4 DEF RenameBroken, LockedLeft
    <3> QED BY <3>1, <3>2, <3>3, <3>5, <3>6
  <2> QED BY <2>3, <2>4
<1>4. ASSUME NEW r \in Runs, RenameWinner(r) PROVE IInv'
  <2>1. winner[r] \in Instances
    BY <1>4 DEF RenameWinner, RunsKnowTheirs, Running
  <2>2. /\ name' \in [Instances -> Names \cup {NoName}]
        /\ OneHolder'
        /\ name'[winner[r]] = Main
        /\ \A j \in Instances \ {winner[r]} : name'[j] = name[j]
    BY <1>4, <2>1, RenameGives DEF RenameWinner, Names, TreeNames
  <2>3. TypeOK'
    BY <1>4, <2>2 DEF RenameWinner, TypeOK, Steps
  <2>4. RunsKnowTheirs'
    BY <1>4 DEF RenameWinner, TypeOK, RunsKnowTheirs, Running
  <2>5. \A j \in Instances : name[j] \notin CloneNames \cup {NoName}
                             => name'[j] \notin CloneNames \cup {NoName}
    BY <2>2, NamesAssumption DEF Names, TreeNames
  <2>6. name'[winner[r]] \notin CloneNames \cup {NoName}
    BY <2>2, NamesAssumption DEF Names, TreeNames
  <2>7. PromotedLeft'
    BY <1>4, <2>5, <2>6
    DEF RenameWinner, TypeOK, PromotedLeft, RunsKnowTheirs, Running
  <2>8. LockedLeft'
    BY <1>4, <2>5 DEF RenameWinner, LockedLeft
  <2> QED BY <2>2, <2>3, <2>4, <2>7, <2>8
<1>5. ASSUME NEW r \in Runs, Bang(r) \/ Crash(r) PROVE IInv'
  BY <1>5
  DEF Bang, Crash, TypeOK, Steps, OneHolder, RunsKnowTheirs, Running,
      PromotedLeft, LockedLeft
<1>6. ASSUME NEW r \in Runs, WriteLock(r) PROVE IInv'
  <2>1. winner[r] \in Instances /\ name[winner[r]] \notin CloneNames \cup {NoName}
    BY <1>6 DEF WriteLock, RunsKnowTheirs, PromotedLeft, Running
  <2> QED BY <1>6, <2>1
          DEF WriteLock, TypeOK, Steps, OneHolder, RunsKnowTheirs, Running,
              PromotedLeft, LockedLeft
<1>7. ASSUME NEW n \in TreeNames, RootRequest(n) PROVE IInv'
  <2>1. PICK i \in Instances : Request(n, ModeOf(n), i)
    BY <1>7 DEF RootRequest
  <2>2. /\ name' \in [Instances -> Names \cup {NoName}]
        /\ mode' \in [Instances -> Modes]
        /\ OneHolder'
        /\ name[i] \in {n, NoName}
        /\ name'[i] = n
        /\ \A j \in Instances \ {i} : name'[j] = name[j]
    BY <2>1, RequestGives DEF ModeOf, Modes
  <2>3. TypeOK'
    BY <1>7, <2>2 DEF RootRequest, TypeOK
  <2>4. \A j \in Instances : name[j] \notin CloneNames \cup {NoName}
                             => name'[j] \notin CloneNames \cup {NoName}
    BY <2>2, NamesAssumption DEF Names, TreeNames
  <2>5. RunsKnowTheirs' /\ PromotedLeft' /\ LockedLeft'
    BY <1>7, <2>4
    DEF RootRequest, RunsKnowTheirs, Running, PromotedLeft, LockedLeft
  <2> QED BY <2>2, <2>3, <2>5
<1>8. ASSUME NEW i \in Instances, Slapgrid(i) \/ ComputerDown(i) PROVE IInv'
  BY <1>8
  DEF Slapgrid, ComputerDown, TypeOK, Modes, OneHolder, RunsKnowTheirs, Running,
      PromotedLeft, LockedLeft
<1>9. CASE UNCHANGED vars
  BY <1>9
  DEF vars, TypeOK, OneHolder, RunsKnowTheirs, Running, PromotedLeft, LockedLeft
<1> QED
  BY <1>1, <1>2, <1>3, <1>4, <1>5, <1>6, <1>7, <1>8, <1>9 DEF Next, ScriptStep

\* The invariant holds in every state.
THEOREM Invariance == Spec => []IInv
<1> QED BY InitIInv, NextIInv, PTL DEF Spec

\* The variables keep their types.
THEOREM TypeCorrect == Spec => []TypeOK
<1>1. IInv => TypeOK
  BY DEF IInv
<1> QED BY <1>1, Invariance, PTL

\* No instance serving as a clone has its imports stopped for good, whichever
\* runs of takeover.py were killed and at whichever step.
THEOREM ClonesImport == Spec => []ServingCloneImports
<1>1. IInv => ServingCloneImports
  BY DEF IInv, LockedLeft, ServingCloneImports
<1> QED BY <1>1, Invariance, PTL

-----------------------------------------------------------------------------
LEMMA NextQuiet == IInv /\ QuietInv /\ [Next]_vars => QuietInv'
<1> SUFFICES ASSUME IInv, QuietInv, [Next]_vars, ~raced'
             PROVE  BrokenIsFrozen' /\ FrozenWhileRenaming'
  BY DEF QuietInv
<1> USE DEF IInv
<1>a. ~raced
  BY DEF Next, ScriptStep, Start, RequestBroken, RenameBroken, RenameWinner, Bang,
         WriteLock, Crash, RootRequest, Slapgrid, ComputerDown, vars
<1>b. BrokenIsFrozen /\ FrozenWhileRenaming
  BY <1>a DEF QuietInv
<1> USE <1>b
\* A request changes one partition, which ends frozen or bearing a tree name.
<1>1. ASSUME NEW n \in TreeNames, NEW m \in Modes, NEW i \in Instances,
             Request(n, m, i)
      PROVE  /\ BrokenIsFrozen'
             /\ \A j \in Instances : mode'[j] = mode[j] \/ (j = i /\ mode'[j] = m)
  <2>1. /\ name'[i] = n /\ mode'[i] = m
        /\ \A j \in Instances \ {i} : name'[j] = name[j] /\ mode'[j] = mode[j]
    BY <1>1, RequestGives
  <2>2. n \notin BrokenNames
    BY NamesAssumption DEF TreeNames
  <2> QED BY <2>1, <2>2 DEF BrokenIsFrozen
<1>2. ASSUME NEW r \in Runs, Start(r) PROVE BrokenIsFrozen' /\ FrozenWhileRenaming'
  BY <1>2 DEF Start, TypeOK, BrokenIsFrozen, FrozenWhileRenaming
<1>3. ASSUME NEW r \in Runs, RequestBroken(r)
      PROVE  BrokenIsFrozen' /\ FrozenWhileRenaming'
  <2>1. PICK i \in Instances : /\ Request(Main, "frozen", i)
                               /\ broken' = [broken EXCEPT ![r] = i]
    BY <1>3 DEF RequestBroken
  <2>2. /\ BrokenIsFrozen'
        /\ \A j \in Instances : mode'[j] = mode[j] \/ mode'[j] = "frozen"
    BY <1>1, <2>1 DEF TreeNames, Modes
  <2>3. mode'[i] = "frozen"
    BY <2>1 DEF Request, TypeOK
  <2>4. FrozenWhileRenaming'
    BY <1>3, <2>1, <2>2, <2>3
    DEF RequestBroken, TypeOK, RunsKnowTheirs, FrozenWhileRenaming
  <2> QED BY <2>2, <2>4
<1>4. ASSUME NEW r \in Runs, RenameBroken(r)
      PROVE  BrokenIsFrozen' /\ FrozenWhileRenaming'
  <2>1. broken[r] \in Instances /\ mode[broken[r]] = "frozen"
    BY <1>4 DEF RenameBroken, RunsKnowTheirs, FrozenWhileRenaming
  <2>2. \A j \in Instances : name'[j] = name[j] \/ j = broken[r]
    BY <1>4 DEF RenameBroken, TypeOK
  <2>3. \A q \in Runs : pc'[q] = "renameBroken" => pc[q] = "renameBroken"
    BY <1>4 DEF RenameBroken, TypeOK
  <2> QED
    BY <1>4, <2>1, <2>2, <2>3
    DEF RenameBroken, BrokenIsFrozen, FrozenWhileRenaming
<1>5. ASSUME NEW r \in Runs, RenameWinner(r)
      PROVE  BrokenIsFrozen' /\ FrozenWhileRenaming'
  <2>1. \A j \in Instances : name'[j] = name[j] \/ name'[j] = Main
    BY <1>5 DEF RenameWinner, TypeOK
  <2> QED
    BY <1>5, <2>1, NamesAssumption
    DEF RenameWinner, TypeOK, BrokenIsFrozen, FrozenWhileRenaming
<1>6. ASSUME NEW r \in Runs, Bang(r) \/ WriteLock(r) \/ Crash(r)
      PROVE  BrokenIsFrozen' /\ FrozenWhileRenaming'
  BY <1>6
  DEF Bang, WriteLock, Crash, TypeOK, BrokenIsFrozen, FrozenWhileRenaming
\* The root does not interfere: nobody is about to rename what it reconfigures.
<1>7. ASSUME NEW n \in TreeNames, RootRequest(n)
      PROVE  BrokenIsFrozen' /\ FrozenWhileRenaming'
  <2>1. PICK i \in Instances : Request(n, ModeOf(n), i)
    BY <1>7 DEF RootRequest
  <2>2. BrokenIsFrozen'
    BY <1>1, <2>1 DEF ModeOf, Modes
  <2>3. \A r \in Runs : pc'[r] # "renameBroken"
    BY <1>7 DEF RootRequest, MidRename
  <2> QED BY <2>2, <2>3 DEF FrozenWhileRenaming
<1>8. ASSUME NEW i \in Instances, Slapgrid(i) \/ ComputerDown(i)
      PROVE  BrokenIsFrozen' /\ FrozenWhileRenaming'
  BY <1>8 DEF Slapgrid, ComputerDown, BrokenIsFrozen, FrozenWhileRenaming
<1>9. CASE UNCHANGED vars
  BY <1>9 DEF vars, BrokenIsFrozen, FrozenWhileRenaming
<1> QED
  BY <1>2, <1>3, <1>4, <1>5, <1>6, <1>7, <1>8, <1>9 DEF Next, ScriptStep

\* As long as the root was never processed between the request that freezes an
\* old main instance and the last rename, what takeover.py sets aside is frozen.
THEOREM SetAsideFrozen == Spec => []FrozenIfNotRaced
<1>1. Init => QuietInv
  <2>1. Init => \A i \in Instances : name[i] \notin BrokenNames
    BY NamesAssumption DEF Init, TreeNames, Names
  <2> QED BY <2>1 DEF Init, QuietInv, BrokenIsFrozen, FrozenWhileRenaming
<1>2. Spec => []QuietInv
  BY <1>1, NextQuiet, Invariance, PTL DEF Spec
<1>3. QuietInv => FrozenIfNotRaced
  BY DEF QuietInv, FrozenIfNotRaced
<1> QED BY <1>2, <1>3, PTL

-----------------------------------------------------------------------------
(* The main instance is not a new partition. *)

\* A winner was deployed, as a clone, when its run started.
WinnersDeployed ==
  \A r \in Runs : winner[r] \in Instances => deployed[winner[r]] # "none"

\* When no partition bears the name of the main instance, a run is about to give
\* it to its winner.
NamelessInRename ==
  (\A i \in Instances : name[i] # Main) => \E r \in Runs : pc[r] = "renameWinner"

\* A new partition that bears the name of the main instance was allocated, frozen,
\* by a run that came in that time and is about to set it aside.
NewIsSetAside ==
  \A i \in Instances :
    name[i] = Main /\ deployed[i] = "none"
    => mode[i] = "frozen" /\ \E r \in Runs : pc[r] = "renameBroken" /\ broken[r] = i

MainInv == WinnersDeployed /\ (AllGoOn => NamelessInRename /\ NewIsSetAside)

LEMMA InitMain == Init => MainInv
<1> SUFFICES ASSUME Init PROVE MainInv
  OBVIOUS
<1>1. Placement[Main] \in Instances
  BY NamesAssumption DEF TreeNames
<1>2. name[Placement[Main]] = Main
  <2>1. \A n \in TreeNames : Placement[n] = Placement[Main] => n = Main
    BY NamesAssumption DEF TreeNames
  <2>2. Main \in TreeNames
    BY DEF TreeNames
  <2>3. (CHOOSE n \in TreeNames : Placement[n] = Placement[Main]) = Main
    BY <2>1, <2>2
  <2> QED BY <1>1, <2>2, <2>3 DEF Init
<1>3. \A i \in Instances : name[i] = Main => deployed[i] # "none"
  BY NamesAssumption DEF Init, ModeOf, Names, TreeNames
<1> QED
  BY <1>1, <1>2, <1>3, NamesAssumption
  DEF Init, MainInv, WinnersDeployed, NamelessInRename, NewIsSetAside

LEMMA NextWinners == IInv /\ WinnersDeployed /\ [Next]_vars => WinnersDeployed'
<1> SUFFICES ASSUME IInv, WinnersDeployed, [Next]_vars PROVE WinnersDeployed'
  OBVIOUS
<1> USE DEF WinnersDeployed
<1>1. ASSUME NEW r \in Runs, Start(r) PROVE WinnersDeployed'
  <2>1. PICK w \in Instances \ down : /\ deployed[w] = "import"
                                      /\ winner' = [winner EXCEPT ![r] = w]
    BY <1>1 DEF Start
  <2> QED BY <1>1, <2>1 DEF Start, IInv, TypeOK
<1>2. ASSUME NEW i \in Instances, Slapgrid(i) PROVE WinnersDeployed'
  BY <1>2 DEF Slapgrid, IInv, TypeOK, Modes
<1>3. CASE UNCHANGED <<winner, deployed>>
  BY <1>3
<1> QED
  BY <1>1, <1>2, <1>3
  DEF Next, ScriptStep, RequestBroken, RenameBroken, RenameWinner, Bang, WriteLock,
      Crash, RootRequest, ComputerDown, vars

LEMMA NextMain == IInv /\ MainInv /\ [Next]_vars => MainInv'
<1> SUFFICES ASSUME IInv, MainInv, [Next]_vars, AllGoOn'
             PROVE  NamelessInRename' /\ NewIsSetAside'
  BY NextWinners DEF MainInv
<1> USE DEF IInv
<1>a. AllGoOn
  BY DEF AllGoOn, Next, ScriptStep, Start, RequestBroken, RenameBroken, RenameWinner, Bang,
         WriteLock, Crash, RootRequest, Slapgrid, ComputerDown, vars, TypeOK
<1>b. NamelessInRename /\ NewIsSetAside /\ WinnersDeployed
  BY <1>a DEF MainInv
<1> USE <1>b DEF NamelessInRename, NewIsSetAside
<1>1. ASSUME NEW r \in Runs, Start(r) PROVE NamelessInRename' /\ NewIsSetAside'
  BY <1>1 DEF Start, TypeOK
<1>2. ASSUME NEW r \in Runs, RequestBroken(r) PROVE NamelessInRename' /\ NewIsSetAside'
  <2>1. PICK i \in Instances : /\ Request(Main, "frozen", i)
                               /\ broken' = [broken EXCEPT ![r] = i]
    BY <1>2 DEF RequestBroken
  <2>2. name'[i] = Main /\ mode'[i] = "frozen" /\ OneHolder'
    BY <2>1, RequestGives DEF TreeNames, Modes
  <2>3. \A j \in Instances : name'[j] = Main => j = i
    BY <2>2, NamesAssumption DEF OneHolder, Names, TreeNames
  <2>4. pc'[r] = "renameBroken" /\ broken'[r] = i
    BY <1>2, <2>1 DEF RequestBroken, TypeOK
  <2> QED BY <2>2, <2>3, <2>4
<1>3. ASSUME NEW r \in Runs, RenameBroken(r) PROVE NamelessInRename' /\ NewIsSetAside'
  <2>1. PICK n \in BrokenNames : /\ name' = [name EXCEPT ![broken[r]] = n]
                                 /\ pc' = [pc EXCEPT ![r] = "renameWinner"]
    BY <1>3 DEF RenameBroken, AllGoOn, TypeOK
  <2>2. broken[r] \in Instances /\ n # Main
    BY <1>3, NamesAssumption DEF RenameBroken, RunsKnowTheirs
  <2>3. NamelessInRename'
    BY <2>1 DEF TypeOK
  <2>4. NewIsSetAside'
    <3> SUFFICES ASSUME NEW i \in Instances, name'[i] = Main, deployed'[i] = "none"
                 PROVE  /\ mode'[i] = "frozen"
                        /\ \E q \in Runs : pc'[q] = "renameBroken" /\ broken'[q] = i
      OBVIOUS
    <3>1. i # broken[r] /\ name[i] = Main
      BY <2>1, <2>2 DEF TypeOK
    <3>2. PICK q \in Runs : pc[q] = "renameBroken" /\ broken[q] = i
      BY <1>3, <3>1 DEF RenameBroken
    <3>3. q # r
      BY <3>1, <3>2
    <3> QED BY <1>3, <2>1, <3>1, <3>2, <3>3 DEF RenameBroken, TypeOK
  <2> QED BY <2>3, <2>4
<1>4. ASSUME NEW r \in Runs, RenameWinner(r) PROVE NamelessInRename' /\ NewIsSetAside'
  <2>1. winner[r] \in Instances
    BY <1>4 DEF RenameWinner, RunsKnowTheirs, Running
  <2>2. OneHolder' /\ name'[winner[r]] = Main
    BY <1>4, <2>1, RenameGives DEF RenameWinner, Names, TreeNames
  <2>3. \A j \in Instances : name'[j] = Main => j = winner[r]
    BY <2>1, <2>2, NamesAssumption DEF OneHolder, Names, TreeNames
  <2>4. deployed'[winner[r]] # "none"
    BY <1>4, <2>1 DEF RenameWinner, WinnersDeployed
  <2> QED BY <2>1, <2>2, <2>3, <2>4
<1>5. ASSUME NEW r \in Runs, Bang(r) \/ WriteLock(r)
      PROVE  NamelessInRename' /\ NewIsSetAside'
  BY <1>5 DEF Bang, WriteLock, TypeOK
<1>6. ASSUME NEW r \in Runs, Crash(r) PROVE FALSE
  BY <1>6 DEF Crash, TypeOK, AllGoOn
\* The root finds the main instance, and it is not a new one.
<1>7. ASSUME NEW n \in TreeNames, RootRequest(n) PROVE NamelessInRename' /\ NewIsSetAside'
  <2>1. PICK i \in Instances : Request(n, ModeOf(n), i)
    BY <1>7 DEF RootRequest
  <2>2. \A q \in Runs : pc[q] \notin {"renameBroken", "renameWinner"}
    BY <1>7 DEF RootRequest, AllGoOn, MidRename
  <2>3. PICK k \in Instances : name[k] = Main
    BY <2>2
  <2>4. \A j \in Instances : name[j] = Main => deployed[j] # "none"
    BY <2>2
  <2>5. /\ OneHolder' /\ name[i] \in {n, NoName} /\ name'[i] = n
        /\ \A j \in Instances \ {i} : name'[j] = name[j]
    BY <2>1, RequestGives DEF ModeOf, Modes
  <2>6. name'[k] = Main
    BY <2>3, <2>5, NamesAssumption DEF Names, TreeNames
  <2>7. \A j \in Instances : name'[j] = Main => j = k
    BY <2>3, <2>5, <2>6, NamesAssumption DEF OneHolder, Names, TreeNames
  <2> QED BY <1>7, <2>3, <2>4, <2>6, <2>7 DEF RootRequest
<1>8. ASSUME NEW i \in Instances, Slapgrid(i) \/ ComputerDown(i)
      PROVE  NamelessInRename' /\ NewIsSetAside'
  BY <1>8 DEF Slapgrid, ComputerDown, TypeOK, Modes
<1>9. CASE UNCHANGED vars
  BY <1>9 DEF vars
<1> QED
  BY <1>1, <1>2, <1>3, <1>4, <1>5, <1>6, <1>7, <1>8, <1>9 DEF Next, ScriptStep

\* What the master has as exporter under the name of the main instance is not a
\* new partition, for any number of racing takeovers, unless the root was processed
\* during the renames or a run died.
THEOREM MainIsOld == Spec => []MainIsNotNew
<1>1. Spec => []MainInv
  BY InitMain, NextMain, Invariance, PTL DEF Spec
<1>2. MainInv => MainIsNotNew
  BY DEF MainInv, MainIsNotNew, NewIsSetAside, Holder
<1> QED BY <1>1, <1>2, PTL

-----------------------------------------------------------------------------
\* A partition set aside becomes the main instance again only by a run of
\* takeover.py in that partition, never by a request of the root.
THEOREM NoSilentReturn == Spec => BrokenStaysAside
<1> DEFINE Back(i) == /\ name[i] \in BrokenNames
                      /\ name'[i] \notin BrokenNames
           Own(i) == \E r \in Runs : winner[r] = i /\ pc[r] = "renameWinner"
<1>1. ASSUME IInv, Next, NEW i \in Instances, Back(i) PROVE Own(i)
  <2> USE DEF IInv
  <2>1. ASSUME NEW n \in TreeNames, NEW m \in Modes, NEW j \in Instances,
               Request(n, m, j)
        PROVE  FALSE
    <3>1. name[j] \in {n, NoName} /\ (j # i => name'[i] = name[i])
      BY <1>1, <2>1, RequestGives
    <3> QED BY <1>1, <3>1, NamesAssumption DEF TreeNames, Names
  <2>2. ASSUME NEW r \in Runs, RequestBroken(r) PROVE FALSE
    BY <2>1, <2>2 DEF RequestBroken, TreeNames, Modes
  <2>3. ASSUME NEW n \in TreeNames, RootRequest(n) PROVE FALSE
    BY <2>1, <2>3 DEF RootRequest, ModeOf, Modes
  <2>4. ASSUME NEW r \in Runs, RenameBroken(r) PROVE FALSE
    BY <1>1, <2>4 DEF RenameBroken, TypeOK
  <2>5. ASSUME NEW r \in Runs, RenameWinner(r) PROVE Own(i)
    BY <1>1, <2>5 DEF RenameWinner, TypeOK
  <2>6. ASSUME NEW r \in Runs, Start(r) \/ Bang(r) \/ WriteLock(r) \/ Crash(r)
        PROVE  FALSE
    BY <1>1, <2>6 DEF Start, Bang, WriteLock, Crash
  <2>7. ASSUME NEW j \in Instances, Slapgrid(j) \/ ComputerDown(j) PROVE FALSE
    BY <1>1, <2>7 DEF Slapgrid, ComputerDown
  <2> QED
    BY <1>1, <2>2, <2>3, <2>4, <2>5, <2>6, <2>7 DEF Next, ScriptStep
<1>2. IInv /\ [Next]_vars => [ReturnsOnlyByItself]_vars
  BY <1>1 DEF ReturnsOnlyByItself
<1> QED BY <1>2, Invariance, PTL DEF Spec, BrokenStaysAside
=============================================================================
