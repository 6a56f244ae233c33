-------------------------- MODULE GenericExec_proofs --------------------------
(***************************************************************************)
(* What a pidfile gives, for any number of processes started from the same *)
(* wrapper: exclusivity if they start one after the other and do not       *)
(* redirect their output; safety from the signal of logrotate if they are  *)
(* told to ignore it.  And what a wrapper that redirects gives: no line is  *)
(* lost and no rotation is missed.  The files of a log, one after the       *)
(* other, are reasoned about by induction, on sets of naturals.             *)
(***************************************************************************)
EXTENDS GenericExec, LogRedirection, SequenceTheorems, TLAPS
LOCAL INSTANCE SequencesExt

WF == INSTANCE WellFoundedInduction

-----------------------------------------------------------------------------
(* The pidfile (GenericExec). *)

\* One process at a time is starting; those past the inspection of the pidfile
\* know that no command runs, and those before will find the one that does.
OneStarts ==
  \A p, q \in Procs : phase[p] \in Starting /\ phase[q] \in Starting => p = q

Registered ==
  \A p \in Procs : phase[p] # "spawned" /\ (phase[p] = "wait" => pidfile = p)

RunsAlone ==
  \A p \in Procs : phase[p] = "running" =>
    /\ pidfile = p
    /\ \A q \in Procs : /\ phase[q] \notin {"claim", "write", "wait"}
                        /\ phase[q] = "inspect" => found[q] = p

Excluded == OneStarts /\ Registered /\ RunsAlone

ExclusiveInv == ~overlapped /\ ~options.redirect => Excluded

\* The process the pidfile names has dealt with the signal, and so has any
\* process that has started.
Protected ==
  options.redirect \/ options.sigIgn =>
    \A p \in Procs : phase[p] # "killed" /\ (Alive(p) => handler[p] # "default")

-----------------------------------------------------------------------------
LEMMA Typed == ExecTypeOK /\ [ExecNext]_execVars => ExecTypeOK'
<1> SUFFICES ASSUME ExecTypeOK, [ExecNext]_execVars PROVE ExecTypeOK'
  OBVIOUS
<1> USE DEF ExecTypeOK, Goto, Starting
<1>1. ASSUME NEW p \in Procs, Start(p) PROVE ExecTypeOK'
  BY <1>1 DEF Start
<1>2. ASSUME NEW p \in Procs, ReadPidfile(p) PROVE ExecTypeOK'
  BY <1>2 DEF ReadPidfile
<1>3. ASSUME NEW p \in Procs, Inspect(p) PROVE ExecTypeOK'
  BY <1>3 DEF Inspect
<1>4. ASSUME NEW p \in Procs, Truncate(p) PROVE ExecTypeOK'
  BY <1>4 DEF Truncate
<1>5. ASSUME NEW p \in Procs, WritePid(p) PROVE ExecTypeOK'
  BY <1>5 DEF WritePid
<1>6. ASSUME NEW p \in Procs, Abort(p) PROVE ExecTypeOK'
  BY <1>6 DEF Abort
<1>7. ASSUME NEW p \in Procs, Exec(p) \/ SetupHandler(p) PROVE ExecTypeOK'
  BY <1>7 DEF Exec, SetupHandler
<1>8. ASSUME NEW p \in Procs, Redirection(p) \/ SetSigHandler(p) PROVE ExecTypeOK'
  BY <1>8 DEF Redirection, SetSigHandler
<1>9. ASSUME NEW p \in Procs, End(p) \/ Kill(p) PROVE ExecTypeOK'
  BY <1>9 DEF End, Kill
<1>10. ASSUME LogRotate PROVE ExecTypeOK'
  BY <1>10 DEF LogRotate
<1>11. CASE UNCHANGED execVars
  BY <1>11 DEF execVars
<1> QED BY <1>1, <1>2, <1>3, <1>4, <1>5, <1>6, <1>7, <1>8, <1>9, <1>10, <1>11 DEF ExecNext

\* What happened stays, and the options of the wrapper do not change.
LEMMA History ==
  ASSUME ExecTypeOK, [ExecNext]_execVars
  PROVE  options' = options /\ (~overlapped' => ~overlapped)
  BY DEF ExecTypeOK, ExecNext, execVars, Start, ReadPidfile, Inspect, Truncate, WritePid, Abort,
    Exec, SetupHandler, Redirection, SetSigHandler, End, Kill, LogRotate

LEMMA StaysExcluded ==
  ASSUME ~options.redirect, ~overlapped', ExecTypeOK, Excluded, [ExecNext]_execVars
  PROVE  Excluded'
<1> USE DEF ExecTypeOK, Excluded, OneStarts, Registered, RunsAlone, Goto, Starting
<1>1. ASSUME NEW p \in Procs, Start(p) PROVE Excluded'
  BY <1>1 DEF Start
<1>2. ASSUME NEW p \in Procs, ReadPidfile(p) PROVE Excluded'
  <2>1. CASE pidfile \in Procs
    <3>1. phase' = [phase EXCEPT ![p] = "inspect"] /\ found' = [found EXCEPT ![p] = pidfile]
      BY <1>2, <2>1 DEF ReadPidfile
    <3>2. /\ phase[p] = "read" /\ pidfile' = pidfile
          /\ phase'[p] = "inspect" /\ found'[p] = pidfile
      BY <1>2, <3>1 DEF ReadPidfile
    <3>3. \A q \in Procs \ {p} : phase'[q] = phase[q] /\ found'[q] = found[q]
      BY <3>1
    <3>4. OneStarts'
      BY ONLY Excluded, <3>2, <3>3
    <3>5. Registered'
      BY ONLY Excluded, <3>2, <3>3
    <3>6. RunsAlone'
      BY ONLY Excluded, <3>2, <3>3
    <3> QED BY ONLY <3>4, <3>5, <3>6, Zenon
  <2>2. CASE pidfile \notin Procs
    <3>1. \A q \in Procs : phase[q] # "running"
      BY <2>2
    <3> QED BY <1>2, <2>2, <3>1 DEF ReadPidfile
  <2> QED BY <2>1, <2>2
<1>3. ASSUME NEW p \in Procs, Inspect(p) PROVE Excluded'
  <2>1. CASE Running(found[p])
    <3>1. phase' = [phase EXCEPT ![p] = "refused"]
      BY <1>3, <2>1 DEF Inspect
    <3>2. \A q \in Procs : phase'[q] = IF q = p THEN "refused" ELSE phase[q]
      BY <3>1
    <3>3. phase[p] = "inspect" /\ pidfile' = pidfile /\ found' = found
      BY <1>3 DEF Inspect
    <3> QED BY ONLY Excluded, <3>2, <3>3
  <2>2. CASE ~Running(found[p])
    <3>1. phase' = [phase EXCEPT ![p] = "claim"]
      BY <1>3, <2>2 DEF Inspect
    <3>2. \A q \in Procs : phase[q] # "running"
      BY <1>3, <2>2 DEF Inspect, Running
    <3> QED BY <1>3, <3>1, <3>2 DEF Inspect
  <2> QED BY <2>1, <2>2
<1>4. ASSUME NEW p \in Procs, Truncate(p) PROVE Excluded'
  BY <1>4 DEF Truncate
<1>5. ASSUME NEW p \in Procs, WritePid(p) PROVE Excluded'
  BY <1>5 DEF WritePid
<1>6. ASSUME NEW p \in Procs, Abort(p) PROVE Excluded'
  BY <1>6 DEF Abort
<1>7. ASSUME NEW p \in Procs, Exec(p) PROVE Excluded'
  BY <1>7 DEF Exec
<1>8. ASSUME NEW p \in Procs, SetupHandler(p) PROVE Excluded'
  BY <1>8 DEF SetupHandler
<1>9. ASSUME NEW p \in Procs, End(p) \/ Kill(p) PROVE Excluded'
  BY <1>9 DEF End, Kill
<1>10. ASSUME NEW p \in Procs, SetSigHandler(p) PROVE Excluded'
  BY <1>10 DEF SetSigHandler
<1>11. ASSUME LogRotate PROVE Excluded'
  <2>1. PICK q \in Procs : q = pidfile
    BY <1>11 DEF LogRotate
  <2>2. phase' = [phase EXCEPT ![q] = "killed"] /\ UNCHANGED <<pidfile, found>>
    BY <1>11, <2>1 DEF LogRotate
  <2>3. \A r \in Procs : phase'[r] = IF r = q THEN "killed" ELSE phase[r]
    BY <2>2
  <2> QED BY ONLY Excluded, <2>2, <2>3
<1>12. CASE UNCHANGED execVars
  BY <1>12 DEF execVars
<1>13. \A p \in Procs : ~Redirection(p)
  BY DEF Redirection
<1> QED
  BY <1>1, <1>2, <1>3, <1>4, <1>5, <1>6, <1>7, <1>8, <1>9, <1>10, <1>11, <1>12, <1>13
  DEF ExecNext

LEMMA StaysProtected ==
  ASSUME options.redirect \/ options.sigIgn, ExecTypeOK, Protected, [ExecNext]_execVars
  PROVE  Protected'
<1> USE DEF ExecTypeOK, Protected, Goto, Starting, Alive
<1>1. ASSUME NEW p \in Procs, Start(p) PROVE Protected'
  BY <1>1 DEF Start
<1>2. ASSUME NEW p \in Procs, ReadPidfile(p) \/ Inspect(p) PROVE Protected'
  BY <1>2 DEF ReadPidfile, Inspect
<1>3. ASSUME NEW p \in Procs, Truncate(p) \/ WritePid(p) \/ Abort(p) PROVE Protected'
  BY <1>3 DEF Truncate, WritePid, Abort
<1>4. ASSUME NEW p \in Procs, Exec(p) \/ SetupHandler(p) PROVE Protected'
  BY <1>4 DEF Exec, SetupHandler
<1>5. ASSUME NEW p \in Procs, Redirection(p) \/ SetSigHandler(p) PROVE Protected'
  BY <1>5 DEF Redirection, SetSigHandler
<1>6. ASSUME NEW p \in Procs, End(p) \/ Kill(p) PROVE Protected'
  BY <1>6 DEF End, Kill
<1>7. ~LogRotate
  BY DEF LogRotate
<1>8. CASE UNCHANGED execVars
  BY <1>8 DEF execVars
<1> QED BY <1>1, <1>2, <1>3, <1>4, <1>5, <1>6, <1>7, <1>8 DEF ExecNext

-----------------------------------------------------------------------------
\* The variables keep their types.
THEOREM TypeCorrect == ExecSpec => []ExecTypeOK
<1>1. ExecInit => ExecTypeOK
  BY DEF ExecInit, ExecTypeOK
<1> QED BY <1>1, Typed, PTL DEF ExecSpec

LEMMA ExclusiveInvariant == ExecSpec => []ExclusiveInv
<1>1. ExecInit => ExecTypeOK /\ ExclusiveInv
  BY DEF ExecInit, ExclusiveInv, ExecTypeOK, Excluded, OneStarts, Registered, RunsAlone, Starting
<1>2. ExecTypeOK /\ ExclusiveInv /\ [ExecNext]_execVars => ExecTypeOK' /\ ExclusiveInv'
  BY Typed, History, StaysExcluded DEF ExclusiveInv
<1> QED BY <1>1, <1>2, PTL DEF ExecSpec

\* Processes that do not start at the same time and do not redirect their
\* output run the command one at a time.
THEOREM OneAtATime == ExecSpec => []ExclusiveCommand
<1>1. ExclusiveInv => ExclusiveCommand
  BY DEF ExclusiveInv, Excluded, Registered, RunsAlone, ExclusiveCommand, Exclusive, Commands
<1> QED BY <1>1, ExclusiveInvariant, PTL

\* Under the same conditions the pidfile names the command as long as it runs.
THEOREM PidfileIsRight == ExecSpec => []PidfileNamesCommand
<1>1. ExclusiveInv => PidfileNamesCommand
  BY DEF ExclusiveInv, Excluded, Registered, RunsAlone, PidfileNamesCommand, Commands
<1> QED BY <1>1, ExclusiveInvariant, PTL

\* A wrapper that is told which signal to ignore is never killed by it, however
\* the processes race and whether or not they redirect their output.
THEOREM SignalSafe == ExecSpec => []NeverKilledBySignal
<1>1. ExecInit => ExecTypeOK /\ Protected
  BY DEF ExecInit, ExecTypeOK, Protected, Alive, Starting
<1>2. ExecTypeOK /\ Protected /\ [ExecNext]_execVars => ExecTypeOK' /\ Protected'
  <2>1. CASE options.redirect \/ options.sigIgn
    BY <2>1, Typed, StaysProtected
  <2>2. CASE ~(options.redirect \/ options.sigIgn)
    BY <2>2, Typed, History DEF Protected
  <2> QED BY <2>1, <2>2
<1>3. Protected => NeverKilledBySignal
  BY DEF Protected, NeverKilledBySignal
<1> QED BY <1>1, <1>2, <1>3, PTL DEF ExecSpec

-----------------------------------------------------------------------------
(* The files of a log, one after the other (FlattenSeq). *)

\* A set of naturals has a least element.
LEMMA LeastOf ==
  ASSUME NEW T, T \subseteq Nat, T # {}
  PROVE  \E n \in T : \A m \in T : n <= m
<1> DEFINE Less == {ss \in Nat \X Nat : ss[1] < ss[2]}
<1>1. WF!IsWellFoundedOn(Less, Nat)
  BY WF!NatLessThanWellFounded, Zenon DEF WF!OpToRel
<1>2. PICK n \in T : \A m \in T : <<m, n>> \notin Less
  <2> HIDE DEF Less
  <2> QED BY <1>1, WF!WFMin
<1>3. ASSUME NEW m \in T PROVE n <= m
  <2>1. m \in Nat /\ n \in Nat /\ <<m, n>> \notin Less
    BY <1>2
  <2>2. ~(m < n)
    BY <2>1
  <2> QED BY <2>1, <2>2
<1> QED BY <1>3

\* Induction on the naturals, for a set.
LEMMA SetOfAll ==
  ASSUME NEW S, 0 \in S, \A n \in Nat : n \in S => n + 1 \in S
  PROVE  Nat \subseteq S
<1> SUFFICES ASSUME Nat \ S # {} PROVE FALSE
  OBVIOUS
<1>1. PICK n \in Nat \ S : \A m \in Nat \ S : n <= m
  BY LeastOf
<1>2. n - 1 \in Nat /\ ~(n <= n - 1) /\ n - 1 + 1 = n
  OBVIOUS
<1> QED BY <1>1, <1>2

\* What is in a file, and after it: names that keep the provers from expanding them.
Text == Seq(Nat)
Cat(a, b) == a \o b

LEMMA CatIs ==
  ASSUME NEW a \in Text, NEW b \in Text
  PROVE  Cat(a, b) \in Text /\ Cat(a, <<>>) = a
  BY ConcatEmptySeq DEF Cat, Text

LEMMA CatCat ==
  ASSUME NEW a \in Text, NEW b \in Text, NEW c \in Text
  PROVE  Cat(Cat(a, b), c) = Cat(a, Cat(b, c))
  BY ConcatAssociative DEF Cat, Text

\* What flattens a sequence of files: the first ones, one after the other.
Flattens(f, files) ==
  /\ f \in [1..Len(files) -> Text]
  /\ \A i \in 1..Len(files) : f[i] = IF i = 1 THEN files[i] ELSE Cat(f[i - 1], files[i])

LEMMA FlattensOnce ==
  ASSUME NEW files \in Seq(Text), NEW f, Flattens(f, files),
         NEW g, \A i \in 1..Len(files) : g[i] = IF i = 1 THEN files[i] ELSE Cat(g[i - 1], files[i])
  PROVE  \A i \in 1..Len(files) : f[i] = g[i]
<1> DEFINE S == {n \in Nat : n \in 1..Len(files) => f[n] = g[n]}
<1>1. Len(files) \in Nat
  OBVIOUS
<1>2. 0 \in S
  OBVIOUS
<1>3. ASSUME NEW n \in Nat, n \in S PROVE n + 1 \in S
  <2> SUFFICES ASSUME n + 1 \in 1..Len(files) PROVE f[n + 1] = g[n + 1]
    OBVIOUS
  <2>1. CASE n = 0
    BY <2>1 DEF Flattens
  <2>2. CASE n # 0
    <3>1. n \in 1..Len(files) /\ (n + 1) - 1 = n /\ n + 1 # 1
      BY <1>1, <2>2
    <3>2. f[n] = g[n]
      BY <1>3, <3>1
    <3> QED BY <3>1, <3>2 DEF Flattens
  <2> QED BY <2>1, <2>2
<1>4. Nat \subseteq S
  <2> HIDE DEF S
  <2> QED BY <1>2, <1>3, SetOfAll
<1> QED BY <1>4

LEMMA FlattenIs ==
  ASSUME NEW files \in Seq(Text), files # <<>>, NEW f, Flattens(f, files)
  PROVE  FlattenSeq(files) = f[Len(files)]
<1> DEFINE Def(g) == g = [i \in 1..Len(files) |-> IF i = 1 THEN files[i]
                                                  ELSE Cat(g[i - 1], files[i])]
<1>1. Len(files) \in Nat /\ Len(files) # 0
  OBVIOUS
<1>2. Def(f)
  BY DEF Flattens
<1>3. PICK h : Def(h) /\ FlattenSeq(files) = h[Len(files)]
  <2>1. PICK h : h = CHOOSE g : Def(g)
    OBVIOUS
  <2>2. Def(h)
    <3> HIDE DEF Def
    <3> QED BY <1>2, <2>1
  <2>3. FlattenSeq(files) = h[Len(files)]
    BY <1>1, <2>1 DEF FlattenSeq, Cat
  <2> QED BY <2>2, <2>3
<1>4. \A i \in 1..Len(files) : h[i] = IF i = 1 THEN files[i] ELSE Cat(h[i - 1], files[i])
  BY <1>3
<1>5. \A i \in 1..Len(files) : f[i] = h[i]
  BY <1>4, FlattensOnce
<1>6. Len(files) \in 1..Len(files)
  BY <1>1
<1> QED BY <1>3, <1>5, <1>6

LEMMA FlattensSome ==
  ASSUME NEW files \in Seq(Text)
  PROVE  \E f : Flattens(f, files)
<1> DEFINE Upto(f, n) ==
             /\ f \in [1..n -> Text]
             /\ \A i \in 1..n : f[i] = IF i = 1 THEN files[i] ELSE Cat(f[i - 1], files[i])
           S == {n \in Nat : n <= Len(files) => \E f : Upto(f, n)}
<1>1. Len(files) \in Nat /\ \A i \in 1..Len(files) : files[i] \in Text
  OBVIOUS
<1>2. 0 \in S
  <2>1. Upto(<<>>, 0)
    OBVIOUS
  <2> HIDE DEF Upto
  <2> QED BY <2>1
<1>3. ASSUME NEW n \in Nat, n \in S PROVE n + 1 \in S
  <2> SUFFICES ASSUME n + 1 <= Len(files) PROVE \E f : Upto(f, n + 1)
    BY DEF S
  <2>1. PICK f : Upto(f, n)
    BY <1>1, <1>3
  <2>2. PICK last \in Text :
          last = IF n = 0 THEN files[1] ELSE Cat(f[n], files[n + 1])
    <3>1. files[n + 1] \in Text
      BY <1>1
    <3>2. n # 0 => f[n] \in Text
      BY <2>1
    <3>3. n = 0 => files[1] \in Text
      BY <1>1
    <3>4. n # 0 => Cat(f[n], files[n + 1]) \in Text
      BY <3>1, <3>2, CatIs
    <3> QED BY <3>3, <3>4
  <2>3. PICK g : g = [i \in 1..(n + 1) |-> IF i = n + 1 THEN last ELSE f[i]]
    OBVIOUS
  <2>4. g \in [1..(n + 1) -> Text]
    BY <2>1, <2>2, <2>3
  <2>5. ASSUME NEW i \in 1..(n + 1)
        PROVE  g[i] = IF i = 1 THEN files[i] ELSE Cat(g[i - 1], files[i])
    <3>1. CASE i = n + 1
      <4>1. g[i] = last /\ (n # 0 => g[n] = f[n])
        BY <2>3, <3>1
      <4> QED BY <2>2, <3>1, <4>1
    <3>2. CASE i # n + 1
      <4>1. i \in 1..n /\ (i # 1 => i - 1 \in 1..n)
        BY <3>2
      <4>2. g[i] = f[i] /\ (i # 1 => g[i - 1] = f[i - 1])
        BY <2>3, <4>1
      <4> QED BY <2>1, <4>1, <4>2
    <3> QED BY <3>1, <3>2
  <2>6. Upto(g, n + 1)
    BY <2>4, <2>5
  <2> HIDE DEF Upto
  <2> QED BY <2>6
<1>4. Nat \subseteq S
  <2> HIDE DEF S
  <2> QED BY <1>2, <1>3, SetOfAll
<1>5. PICK f : Upto(f, Len(files))
  <2>1. Len(files) \in S
    <3> HIDE DEF S
    <3> QED BY <1>1, <1>4
  <2>2. Len(files) <= Len(files)
    BY <1>1
  <2> HIDE DEF Upto
  <2> QED BY <2>1, <2>2
<1> QED BY <1>5 DEF Flattens

\* A new file, which is empty.
LEMMA FlattenNew ==
  ASSUME NEW files \in Seq(Text), files # <<>>
  PROVE  FlattenSeq(Append(files, <<>>)) = FlattenSeq(files)
<1>1. PICK f : Flattens(f, files)
  BY FlattensSome
<1>2. PICK n \in Nat : n = Len(files) /\ n # 0
  OBVIOUS
<1>3. PICK more : more = Append(files, <<>>)
  OBVIOUS
<1>4. /\ more \in Seq(Text) /\ more # <<>> /\ Len(more) = n + 1 /\ more[n + 1] = <<>>
      /\ \A i \in 1..n : more[i] = files[i]
  <2>1. <<>> \in Text
    BY DEF Text
  <2> QED BY <1>2, <1>3, <2>1, AppendProperties
<1>5. f \in [1..n -> Text] /\
      \A i \in 1..n : f[i] = IF i = 1 THEN files[i] ELSE Cat(f[i - 1], files[i])
  BY <1>1, <1>2 DEF Flattens
<1>6. PICK g : g = [i \in 1..(n + 1) |-> IF i = n + 1 THEN f[n] ELSE f[i]]
  OBVIOUS
<1>7. g \in [1..(n + 1) -> Text]
  BY <1>2, <1>5, <1>6
<1>8. ASSUME NEW i \in 1..(n + 1)
      PROVE  g[i] = IF i = 1 THEN more[i] ELSE Cat(g[i - 1], more[i])
  <2>1. CASE i = n + 1
    <3>1. g[i] = f[n] /\ g[i - 1] = f[n] /\ i # 1 /\ more[i] = <<>>
      BY <1>2, <1>4, <1>6, <2>1
    <3>2. Cat(f[n], <<>>) = f[n]
      BY <1>2, <1>5, CatIs
    <3> QED BY <3>1, <3>2
  <2>2. CASE i # n + 1
    <3>1. i \in 1..n /\ (i # 1 => i - 1 \in 1..n)
      BY <2>2
    <3>2. g[i] = f[i] /\ (i # 1 => g[i - 1] = f[i - 1]) /\ more[i] = files[i]
      BY <1>4, <1>6, <3>1
    <3> QED BY <1>5, <3>1, <3>2
  <2> QED BY <2>1, <2>2
<1>9. Flattens(g, more)
  BY <1>4, <1>7, <1>8 DEF Flattens
<1>10. FlattenSeq(more) = g[n + 1]
  BY <1>4, <1>9, FlattenIs
<1>11. FlattenSeq(files) = f[n]
  BY <1>1, <1>2, FlattenIs
<1>12. g[n + 1] = f[n]
  BY <1>6
<1> QED BY <1>3, <1>10, <1>11, <1>12

\* What is appended to a file after which the others are empty.
LEMMA FlattenMore ==
  ASSUME NEW files \in Seq(Text), NEW k \in 1..Len(files), NEW x \in Text,
         \A i \in 1..Len(files) : i > k => files[i] = <<>>
  PROVE  FlattenSeq([files EXCEPT ![k] = Cat(@, x)]) = Cat(FlattenSeq(files), x)
<1>1. PICK f : Flattens(f, files)
  BY FlattensSome
<1>2. PICK n \in Nat : n = Len(files) /\ n # 0
  OBVIOUS
<1>3. PICK more : more = [files EXCEPT ![k] = Cat(@, x)]
  OBVIOUS
<1>4. /\ more \in Seq(Text) /\ more # <<>> /\ Len(more) = n /\ more[k] = Cat(files[k], x)
      /\ \A i \in 1..n : files[i] \in Text /\ (i # k => more[i] = files[i])
  <2>1. files[k] \in Text
    OBVIOUS
  <2>2. Cat(files[k], x) \in Text
    BY <2>1, CatIs
  <2>3. more \in Seq(Text) /\ Len(more) = Len(files)
    BY <1>3, <2>2
  <2> QED BY <1>2, <1>3, <2>3
<1>5. f \in [1..n -> Text] /\
      \A i \in 1..n : f[i] = IF i = 1 THEN files[i] ELSE Cat(f[i - 1], files[i])
  BY <1>1, <1>2 DEF Flattens
<1>6. PICK g : g = [i \in 1..n |-> IF i < k THEN f[i] ELSE Cat(f[i], x)]
  OBVIOUS
<1>7. g \in [1..n -> Text]
  <2>1. \A i \in 1..n : f[i] \in Text /\ Cat(f[i], x) \in Text
    BY <1>5, CatIs
  <2> QED BY <1>6, <2>1
<1>8. ASSUME NEW i \in 1..n
      PROVE  g[i] = IF i = 1 THEN more[i] ELSE Cat(g[i - 1], more[i])
  <2>1. i # 1 => i - 1 \in 1..n /\ f[i] = Cat(f[i - 1], files[i]) /\ f[i - 1] \in Text
    <3>1. i # 1 => i - 1 \in 1..n
      OBVIOUS
    <3> QED BY <1>5, <3>1
  <2>2. CASE i < k
    <3>1. g[i] = f[i] /\ (i # 1 => g[i - 1] = f[i - 1]) /\ more[i] = files[i]
      BY <1>2, <1>4, <1>6, <2>2
    <3> QED BY <1>5, <3>1
  <2>3. CASE i = k
    <3>1. g[i] = Cat(f[i], x) /\ (i # 1 => g[i - 1] = f[i - 1]) /\ more[i] = Cat(files[i], x)
      BY <1>2, <1>4, <1>6, <2>1, <2>3
    <3>2. i # 1 => Cat(Cat(f[i - 1], files[i]), x) = Cat(f[i - 1], Cat(files[i], x))
      BY <1>4, <2>1, CatCat
    <3> QED BY <1>5, <2>1, <3>1, <3>2
  <2>4. CASE i > k
    <3>1. /\ g[i] = Cat(f[i], x) /\ g[i - 1] = Cat(f[i - 1], x) /\ more[i] = <<>> /\ i # 1
          /\ files[i] = <<>> /\ f[i - 1] \in Text
      BY <1>2, <1>4, <1>6, <2>1, <2>4
    <3>2. f[i] = f[i - 1]
      BY <2>1, <3>1, CatIs
    <3>3. Cat(Cat(f[i - 1], x), <<>>) = Cat(f[i - 1], x)
      BY <3>1, CatIs
    <3> QED BY <3>1, <3>2, <3>3
  <2> QED BY <1>2, <2>2, <2>3, <2>4
<1>9. Flattens(g, more)
  BY <1>4, <1>7, <1>8 DEF Flattens
<1>10. FlattenSeq(more) = g[n]
  BY <1>4, <1>9, FlattenIs
<1>11. FlattenSeq(files) = f[n]
  BY <1>1, <1>2, FlattenIs
<1>12. g[n] = Cat(f[n], x)
  BY <1>2, <1>6
<1> QED BY <1>3, <1>10, <1>11, <1>12

LEMMA FlattenType ==
  ASSUME NEW files \in Seq(Text), files # <<>>
  PROVE  FlattenSeq(files) \in Text
<1>1. PICK f : Flattens(f, files)
  BY FlattensSome
<1>2. Len(files) \in 1..Len(files)
  OBVIOUS
<1> QED BY <1>1, <1>2, FlattenIs DEF Flattens

LEMMA FlattenOne == FlattenSeq(<<<<>>>>) = <<>>
<1>1. PICK files, f : files = <<<<>>>> /\ f = [i \in 1..1 |-> <<>>]
  OBVIOUS
<1>2. files \in Seq(Text) /\ Len(files) = 1 /\ files[1] = <<>> /\ files # <<>>
  BY <1>1 DEF Text
<1>3. <<>> \in Text
  BY DEF Text
<1>4. Flattens(f, files)
  BY <1>1, <1>2, <1>3 DEF Flattens
<1>5. FlattenSeq(files) = f[1]
  BY <1>2, <1>4, FlattenIs
<1> QED BY <1>1, <1>5

LEMMA RemoveAtIs ==
  ASSUME NEW S, NEW q \in Seq(S), NEW i \in 1..Len(q)
  PROVE  /\ RemoveAt(q, i) \in Seq(S) /\ Len(RemoveAt(q, i)) = Len(q) - 1
         /\ \A j \in 1..(Len(q) - 1) : RemoveAt(q, i)[j] = IF j < i THEN q[j] ELSE q[j + 1]
<1>1. PICK a, b : a = SubSeq(q, 1, i - 1) /\ b = SubSeq(q, i + 1, Len(q))
  OBVIOUS
<1>2. /\ a \in Seq(S) /\ Len(a) = i - 1 /\ \A j \in 1..(i - 1) : a[j] = q[j]
      /\ b \in Seq(S) /\ Len(b) = Len(q) - i /\ \A j \in 1..(Len(q) - i) : b[j] = q[j + i]
  BY <1>1, SubSeqProperties
<1>3. RemoveAt(q, i) = a \o b
  BY <1>1 DEF RemoveAt
<1>4. /\ a \o b \in Seq(S) /\ Len(a \o b) = Len(q) - 1
      /\ \A j \in 1..(Len(q) - 1) : (a \o b)[j] = IF j < i THEN a[j] ELSE b[j - (i - 1)]
  BY <1>2, ConcatProperties
<1>5. ASSUME NEW j \in 1..(Len(q) - 1), ~(j < i)
      PROVE  b[j - (i - 1)] = q[j + 1]
  <2>1. j - (i - 1) \in 1..(Len(q) - i) /\ j - (i - 1) + i = j + 1
    BY <1>5
  <2> QED BY <1>2, <2>1
<1> QED BY <1>2, <1>3, <1>4, <1>5

-----------------------------------------------------------------------------
(* The logs of a wrapper (LogRedirection). *)

RedirectionTypeOK ==
  /\ loop \in {"start", "spawned", "handler", "select", "closing", "end"}
  /\ signal \in {"ignored", "caught"} /\ rotation \in {"idle", "renamed"} /\ trigger \in BOOLEAN
  /\ rfds \in Seq(Streams) /\ logs \in Seq(Streams \X Nat)
  /\ pipe \in [Streams -> Text] /\ said \in [Streams -> Nat]
  /\ file \in [Streams -> Seq(Text)]

\* A log has the place of its stream, and there is one of each.
LogsPaired ==
  /\ Len(logs) = Len(rfds) /\ toReopen \subseteq 1..Len(logs)
  /\ loop = "start" => toReopen = {}
  /\ \A i, j \in 1..Len(rfds) : rfds[i] = rfds[j] => i = j
  /\ \A i \in 1..Len(logs) : logs[i][1] = rfds[i] /\ logs[i][2] <= Latest(rfds[i])

\* Nothing is in the files after the one that is open.
WrittenLast ==
  /\ \A s \in Streams : file[s] # <<>>
  /\ loop = "start" => \A s \in Streams : \A g \in 1..Latest(s) : file[s][g] = <<>>
  /\ \A i \in 1..Len(logs) : \A g \in 1..Latest(rfds[i]) :
       g > logs[i][2] => file[rfds[i]][g] = <<>>

\* A log that is not the last is going to be opened again.
ReopenedSoon ==
  /\ loop \in {"handler", "select"} => signal = "caught"
  /\ loop = "select" => \A i \in 1..Len(logs) :
       /\ logs[i][2] = Pipe => i \in toReopen
       /\ logs[i][2] # Latest(rfds[i]) => i \in toReopen \/ trigger \/ rotation = "renamed"

RedirectionInv ==
  RedirectionTypeOK /\ LogsPaired /\ WrittenLast /\ ReopenedSoon /\ NothingLost

LEMMA PairIs ==
  \A x, y : <<x, y>>[1] = x /\ <<x, y>>[2] = y
  OBVIOUS

LEMMA PairExcept ==
  ASSUME NEW pair \in Streams \X Nat, NEW v \in Nat
  PROVE  [pair EXCEPT ![2] = v] = <<pair[1], v>>
  OBVIOUS

LEMMA NumbersAfter ==
  ASSUME NEW n \in Nat
  PROVE  /\ [m \in 1..n |-> m] \in Text
         /\ Append([m \in 1..n |-> m], n + 1) = [m \in 1..(n + 1) |-> m]
<1>1. PICK a, b, c : a = [m \in 1..n |-> m] /\ b = [m \in 1..(n + 1) |-> m] /\ c = Append(a, n + 1)
  OBVIOUS
<1>2. a \in Seq(Nat) /\ Len(a) = n /\ b \in Seq(Nat) /\ Len(b) = n + 1
  BY <1>1
<1>3. c \in Seq(Nat) /\ Len(c) = n + 1 /\ c[n + 1] = n + 1 /\ \A m \in 1..n : c[m] = a[m]
  BY <1>1, <1>2, AppendProperties
<1>4. \A m \in 1..(n + 1) : c[m] = b[m]
  BY <1>1, <1>3
<1>5. c = b
  BY <1>2, <1>3, <1>4, SeqEqual
<1> QED BY <1>1, <1>2, <1>5 DEF Text

LEMMA RedirectionInvInit == RedirectionInit => RedirectionInv
<1> SUFFICES ASSUME RedirectionInit PROVE RedirectionInv
  OBVIOUS
<1>1. PICK none : none = <<<<>>>>
  OBVIOUS
<1>2. /\ none \in Seq(Text) /\ none # <<>> /\ Len(none) = 1 /\ none[1] = <<>>
      /\ FlattenSeq(none) = <<>>
  BY <1>1, FlattenOne DEF Text
<1>3. file = [s \in Streams |-> none]
  BY <1>1 DEF RedirectionInit
<1>4. <<>> \in Text
  BY DEF Text
<1>5. RedirectionTypeOK
  <2>1. rfds \in Seq(Streams) /\ logs \in Seq(Streams \X Nat)
    BY DEF RedirectionInit
  <2>2. pipe \in [Streams -> Text] /\ said \in [Streams -> Nat]
    BY <1>4 DEF RedirectionInit
  <2>3. file \in [Streams -> Seq(Text)]
    BY <1>2, <1>3
  <2> QED BY <2>1, <2>2, <2>3 DEF RedirectionTypeOK, RedirectionInit
<1>6. LogsPaired /\ ReopenedSoon
  BY DEF LogsPaired, ReopenedSoon, RedirectionInit
<1>7. WrittenLast
  BY <1>2, <1>3 DEF WrittenLast, RedirectionInit, Latest
<1>8. NothingLost
  <2> SUFFICES ASSUME NEW s \in Streams
               PROVE  FlattenSeq(file[s]) \o pipe[s] = [n \in 1..said[s] |-> n]
    BY DEF NothingLost
  <2>1. FlattenSeq(file[s]) = <<>> /\ pipe[s] = <<>> /\ said[s] = 0
    BY <1>2, <1>3 DEF RedirectionInit
  <2>2. [n \in 1..0 |-> n] = <<>>
    OBVIOUS
  <2>3. <<>> \o <<>> = <<>>
    OBVIOUS
  <2> QED BY <2>1, <2>2, <2>3
<1> QED BY <1>5, <1>6, <1>7, <1>8 DEF RedirectionInv

LEMMA RedirectionInvStep == RedirectionInv /\ [RedirectionNext]_redirectionVars => RedirectionInv'
<1> SUFFICES ASSUME RedirectionInv, [RedirectionNext]_redirectionVars PROVE RedirectionInv'
  OBVIOUS
<1> USE DEF RedirectionInv
<1>1. /\ Len(logs) \in Nat /\ Len(rfds) \in Nat
      /\ \A i \in 1..Len(rfds) : rfds[i] \in Streams
      /\ \A i \in 1..Len(logs) : logs[i] \in Streams \X Nat /\ logs[i][1] \in Streams
                                /\ logs[i][2] \in Nat
  BY DEF RedirectionTypeOK
<1>2. \A s \in Streams : file[s] \in Seq(Text) /\ Latest(s) \in Nat /\ Latest(s) # 0
  BY DEF RedirectionTypeOK, WrittenLast, Latest
<1>3. ASSUME UNCHANGED file PROVE \A s : Latest(s)' = Latest(s)
  BY <1>3 DEF Latest
<1>4. ASSUME UNCHANGED <<file, logs, rfds>>, loop' # "start" \/ loop' = loop
      PROVE  WrittenLast'
  BY <1>3, <1>4 DEF WrittenLast
<1>5. ASSUME UNCHANGED <<file, pipe, said>> PROVE NothingLost'
  BY <1>5 DEF NothingLost
<1>6. CASE Spawn
  <2>1. PICK streams \in {<<"stdout">>, <<"stdout", "stderr">>} :
          rfds' = streams /\ logs' = [i \in 1..Len(streams) |-> <<streams[i], Pipe>>]
    BY <1>6 DEF Spawn
  <2>2. /\ streams \in Seq(Streams)
        /\ \A i, j \in 1..Len(streams) : streams[i] = streams[j] => i = j
    <3>1. CASE streams = <<"stdout">>
      BY <3>1 DEF Streams
    <3>2. CASE streams = <<"stdout", "stderr">>
      BY <3>2 DEF Streams
    <3> QED BY <3>1, <3>2
  <2>3. loop = "start" /\ loop' = "spawned"
        /\ UNCHANGED <<toReopen, trigger, signal, pipe, said, file, rotation>>
    BY <1>6 DEF Spawn
  <2>4. /\ logs' \in Seq(Streams \X Nat) /\ Len(logs') = Len(streams) /\ Len(streams) \in Nat
        /\ \A i \in 1..Len(streams) : logs'[i][1] = streams[i] /\ logs'[i][2] = 0
    <3>1. PICK made : made = [i \in 1..Len(streams) |-> <<streams[i], 0>>]
      OBVIOUS
    <3>2. \A i \in 1..Len(streams) : streams[i] \in Streams
      BY <2>2
    <3>3. /\ made \in Seq(Streams \X Nat) /\ Len(made) = Len(streams) /\ Len(streams) \in Nat
          /\ \A i \in 1..Len(streams) : made[i] = <<streams[i], 0>>
      BY <2>2, <3>1, <3>2
    <3>4. logs' = made
      BY <2>1, <3>1 DEF Pipe
    <3> QED BY <3>3, <3>4, PairIs
  <2>5. RedirectionTypeOK'
    BY <2>1, <2>2, <2>3, <2>4 DEF RedirectionTypeOK
  <2>6. LogsPaired'
    <3>1. toReopen' = {}
      BY <2>3 DEF LogsPaired
    <3>2. \A s \in Streams : 0 <= Latest(s)'
      BY <1>2, <1>3, <2>3
    <3>3. \A i \in 1..Len(streams) : streams[i] \in Streams
      BY <2>2
    <3> QED BY <2>1, <2>2, <2>3, <2>4, <3>1, <3>2, <3>3 DEF LogsPaired
  <2>7. WrittenLast'
    <3>1. \A i \in 1..Len(streams) : streams[i] \in Streams
      BY <2>2
    <3>2. \A s \in Streams : \A g \in 1..Latest(s)' : file'[s][g] = <<>>
      BY <1>3, <2>3 DEF WrittenLast
    <3> QED BY <2>1, <2>3, <2>4, <3>1, <3>2 DEF WrittenLast
  <2>8. ReopenedSoon'
    BY <2>3 DEF ReopenedSoon
  <2> QED BY <1>5, <2>3, <2>5, <2>6, <2>7, <2>8
<1>7. CASE CatchSignal
  <2>1. \/ loop' = "handler" /\ signal' = "caught" /\ UNCHANGED toReopen
        \/ /\ loop = "handler" /\ loop' = "select" /\ toReopen' = 1..Len(logs)
           /\ UNCHANGED signal
    BY <1>7 DEF CatchSignal
  <2>2. UNCHANGED <<logs, rfds, trigger, pipe, said, file, rotation>>
    BY <1>7 DEF CatchSignal
  <2>3. RedirectionTypeOK'
    BY <2>1, <2>2 DEF RedirectionTypeOK
  <2>4. LogsPaired'
    <3>1. toReopen' \subseteq 1..Len(logs) /\ loop' # "start"
      BY <2>1 DEF LogsPaired
    <3>2. \A s : Latest(s)' = Latest(s)
      BY <1>3, <2>2
    <3> QED BY <2>2, <3>1, <3>2 DEF LogsPaired
  <2>5. ReopenedSoon'
    BY <1>3, <2>1, <2>2 DEF ReopenedSoon
  <2> QED BY <1>4, <1>5, <2>1, <2>2, <2>3, <2>4, <2>5
<1>8. CASE Reopen
  <2>1. loop = "select" /\ toReopen # {}
        /\ UNCHANGED <<loop, rfds, trigger, signal, pipe, said, file, rotation>>
    BY <1>8 DEF Reopen
  <2>2. PICK i \in toReopen : toReopen' = toReopen \ {i}
                             /\ logs' = [logs EXCEPT ![i][2] = Latest(logs[i][1])]
    <3>1. \E i \in toReopen : \A j \in toReopen : i <= j
      <4>1. PICK T : T = toReopen
        OBVIOUS
      <4>2. T \subseteq Nat /\ T # {}
        BY <2>1, <4>1 DEF LogsPaired
      <4>3. \E i \in T : \A j \in T : i <= j
        BY <4>2, LeastOf
      <4> QED BY <4>1, <4>3
    <3> QED BY <1>8, <3>1 DEF Reopen
  <2>3. i \in 1..Len(logs) /\ logs[i][1] = rfds[i] /\ rfds[i] \in Streams
    BY <1>1, <2>2 DEF LogsPaired
  <2>4. /\ logs' \in Seq(Streams \X Nat) /\ Len(logs') = Len(logs)
        /\ logs'[i][1] = rfds[i] /\ logs'[i][2] = Latest(rfds[i])
        /\ \A j \in 1..Len(logs) : j # i => logs'[j] = logs[j]
    <3>1. PICK pair : pair = [logs[i] EXCEPT ![2] = Latest(logs[i][1])]
      OBVIOUS
    <3>2. pair = <<rfds[i], Latest(rfds[i])>>
      BY <1>1, <1>2, <2>3, <3>1, PairExcept
    <3>3. pair \in Streams \X Nat /\ pair[1] = rfds[i] /\ pair[2] = Latest(rfds[i])
      BY <1>2, <2>3, <3>2
    <3>4. logs' = [logs EXCEPT ![i] = pair]
      BY <2>2, <3>1
    <3>5. logs \in Seq(Streams \X Nat)
      BY DEF RedirectionTypeOK
    <3> QED BY <2>3, <3>3, <3>4, <3>5
  <2>5. RedirectionTypeOK'
    <3>1. logs' \in Seq(Streams \X Nat)
      BY <2>4
    <3> QED BY <2>1, <3>1 DEF RedirectionTypeOK
  <2>6. LogsPaired'
    <3>1. ASSUME NEW j \in 1..Len(logs)
          PROVE  logs'[j][1] = rfds[j] /\ logs'[j][2] <= Latest(rfds[j])
      <4>1. CASE j = i
        <5>1. Latest(rfds[i]) <= Latest(rfds[i])
          BY <1>2, <2>3
        <5> QED BY <2>4, <4>1, <5>1
      <4>2. CASE j # i
        BY <2>4, <4>2 DEF LogsPaired
      <4> QED BY <4>1, <4>2
    <3> QED BY <1>3, <2>1, <2>2, <2>4, <3>1 DEF LogsPaired
  <2>7. WrittenLast'
    <3>1. ASSUME NEW j \in 1..Len(logs), NEW g \in 1..Latest(rfds[j]), g > logs'[j][2]
          PROVE  file[rfds[j]][g] = <<>>
      <4>1. CASE j = i
        BY <1>2, <2>3, <2>4, <3>1, <4>1
      <4>2. CASE j # i
        BY <2>4, <3>1, <4>2 DEF WrittenLast
      <4> QED BY <4>1, <4>2
    <3> QED BY <1>3, <2>1, <2>4, <3>1 DEF WrittenLast
  <2>8. ReopenedSoon'
    <3>1. ASSUME NEW j \in 1..Len(logs)
          PROVE  /\ logs'[j][2] = Pipe => j \in toReopen'
                 /\ logs'[j][2] # Latest(rfds[j]) =>
                      j \in toReopen' \/ trigger \/ rotation = "renamed"
      <4>1. CASE j = i
        BY <1>2, <2>3, <2>4, <4>1 DEF Pipe
      <4>2. CASE j # i
        BY <2>1, <2>2, <2>4, <4>2 DEF ReopenedSoon
      <4> QED BY <4>1, <4>2
    <3> QED BY <1>3, <2>1, <2>4, <3>1 DEF ReopenedSoon
  <2> QED BY <1>5, <2>1, <2>5, <2>6, <2>7, <2>8
<1>9. CASE Select
  <2>1. UNCHANGED <<loop, logs, rfds, toReopen, trigger, signal, pipe, said, file, rotation>>
    BY <1>9 DEF Select
  <2>2. RedirectionTypeOK'
    BY <2>1 DEF RedirectionTypeOK
  <2>3. LogsPaired' /\ ReopenedSoon'
    BY <1>3, <2>1 DEF LogsPaired, ReopenedSoon
  <2> QED BY <1>4, <1>5, <2>1, <2>2, <2>3
<1>10. CASE ReadTrigger
  <2>1. loop = "select" /\ trigger' = FALSE /\ toReopen' = 1..Len(logs)
        /\ UNCHANGED <<loop, logs, rfds, signal, pipe, said, file, rotation>>
    BY <1>10 DEF ReadTrigger
  <2>2. trigger' \in BOOLEAN
    BY <2>1
  <2>3. RedirectionTypeOK'
    BY <2>1, <2>2 DEF RedirectionTypeOK
  <2>4. LogsPaired'
    BY <1>3, <2>1 DEF LogsPaired
  <2>5. ReopenedSoon'
    BY <2>1 DEF ReopenedSoon
  <2> QED BY <1>4, <1>5, <2>1, <2>3, <2>4, <2>5
<1>11. ASSUME NEW i \in 1..Len(rfds), Copy(i) PROVE RedirectionInv'
  <2>1. /\ loop = "select" /\ toReopen = {} /\ pipe[rfds[i]] # <<>>
        /\ UNCHANGED <<loop, logs, rfds, toReopen, trigger, signal, said, rotation>>
    BY <1>11 DEF Copy, Turn
  <2>2. PICK s \in Streams, g \in Nat : s = rfds[i] /\ s = logs[i][1] /\ g = logs[i][2]
    BY <1>1 DEF LogsPaired
  <2>3. g \in 1..Len(file[s])
    <3>1. i \in 1..Len(logs)
      BY DEF LogsPaired
    <3>2. g <= Latest(s)
      BY <2>2, <3>1 DEF LogsPaired
    <3>3. g # 0
      BY <2>1, <2>2, <3>1 DEF ReopenedSoon, Pipe
    <3> QED BY <1>2, <3>2, <3>3 DEF Latest
  <2>4. PICK n \in 1..Len(pipe[s]) :
          /\ file' = [file EXCEPT ![s][g] = @ \o SubSeq(pipe[s], 1, n)]
          /\ pipe' = [pipe EXCEPT ![s] = SubSeq(@, n + 1, Len(@))]
    BY <1>11, <2>2 DEF Copy
  <2>5. PICK x, y : x = SubSeq(pipe[s], 1, n) /\ y = SubSeq(pipe[s], n + 1, Len(pipe[s]))
    OBVIOUS
  <2>6. x \in Text /\ y \in Text /\ Cat(x, y) = pipe[s]
    <3>1. PICK p : p = pipe[s]
      OBVIOUS
    <3>2. p \in Seq(Nat) /\ n \in 1..Len(p)
      BY <2>4, <3>1 DEF RedirectionTypeOK, Text
    <3>3. x = SubSeq(p, 1, n) /\ y = SubSeq(p, n + 1, Len(p))
      BY <2>5, <3>1
    <3>4. x \in Seq(Nat) /\ y \in Seq(Nat)
      BY <3>2, <3>3
    <3>5. x \o y = p
      BY <3>2, <3>3
    <3> QED BY <3>1, <3>4, <3>5 DEF Text, Cat
  <2>7. PICK f \in Seq(Text) : f = file[s]
    BY <1>2
  <2>8. PICK new : new = [f EXCEPT ![g] = Cat(@, x)]
    OBVIOUS
  <2>9. file' = [file EXCEPT ![s] = new] /\ pipe' = [pipe EXCEPT ![s] = y]
    <3>1. file' = [file EXCEPT ![s][g] = Cat(@, x)]
      BY <2>4, <2>5 DEF Cat
    <3> QED BY <2>4, <2>5, <2>7, <2>8, <3>1
  <2>10. /\ new \in Seq(Text) /\ Len(new) = Len(f)
         /\ \A h \in 1..Len(f) : h # g => new[h] = f[h]
    <3>1. Cat(f[g], x) \in Text
      BY <2>3, <2>6, <2>7, CatIs
    <3> QED BY <2>3, <2>7, <2>8, <3>1
  <2>11. file'[s] = new /\ pipe'[s] = y
         /\ \A r \in Streams \ {s} : file'[r] = file[r] /\ pipe'[r] = pipe[r]
    BY <2>9 DEF RedirectionTypeOK
  <2>12. \A r \in Streams : Latest(r)' = Latest(r)
    BY <2>7, <2>10, <2>11 DEF Latest
  <2>13. RedirectionTypeOK'
    <3>1. file' \in [Streams -> Seq(Text)] /\ pipe' \in [Streams -> Text]
      BY <2>6, <2>9, <2>10 DEF RedirectionTypeOK
    <3> QED BY <2>1, <3>1 DEF RedirectionTypeOK
  <2>14. LogsPaired'
    BY <1>1, <2>1, <2>12 DEF LogsPaired
  <2>15. WrittenLast'
    <3>1. ASSUME NEW r \in Streams PROVE file'[r] # <<>>
      <4>1. file'[r] \in Seq(Text) /\ Len(file'[r]) # 0
        BY <1>2, <2>12, <2>13 DEF Latest, RedirectionTypeOK
      <4> QED BY <4>1
    <3>2. ASSUME NEW j \in 1..Len(logs), NEW h \in 1..Latest(rfds[j]), h > logs[j][2]
          PROVE  file'[rfds[j]][h] = <<>>
      <4>1. file[rfds[j]][h] = <<>>
        BY <3>2 DEF WrittenLast
      <4>2. j \in 1..Len(rfds) /\ rfds[j] \in Streams
        BY <1>1 DEF LogsPaired
      <4>3. CASE rfds[j] = s
        <5>1. j = i
          BY <2>2, <4>2, <4>3 DEF LogsPaired
        <5>2. h # g
          BY <2>2, <3>2, <5>1
        <5>3. h \in 1..Len(f)
          BY <2>7, <4>3 DEF Latest
        <5> QED BY <2>7, <2>10, <2>11, <4>1, <4>3, <5>2, <5>3
      <4>4. CASE rfds[j] # s
        BY <2>11, <4>1, <4>2, <4>4
      <4> QED BY <4>3, <4>4
    <3>3. loop' # "start"
      BY <2>1
    <3>4. \A j \in 1..Len(logs) : Latest(rfds[j])' = Latest(rfds[j])
      BY <1>1, <2>12, <2>1 DEF LogsPaired
    <3> QED BY <2>1, <3>1, <3>2, <3>3, <3>4 DEF WrittenLast
  <2>16. ReopenedSoon'
    BY <1>1, <2>1, <2>12 DEF ReopenedSoon, LogsPaired
  <2>17. NothingLost'
    <3> SUFFICES ASSUME NEW r \in Streams
                 PROVE  FlattenSeq(file'[r]) \o pipe'[r] = [m \in 1..said[r] |-> m]
      BY <2>1 DEF NothingLost
    <3>1. FlattenSeq(file[r]) \o pipe[r] = [m \in 1..said[r] |-> m]
      BY DEF NothingLost
    <3>2. CASE r # s
      BY <2>11, <3>1, <3>2
    <3>3. CASE r = s
      <4>1. \A h \in 1..Len(f) : h > g => f[h] = <<>>
        BY <1>1, <2>2, <2>7 DEF WrittenLast, Latest, LogsPaired
      <4>2. FlattenSeq(new) = Cat(FlattenSeq(f), x)
        BY <2>3, <2>6, <2>7, <2>8, <4>1, FlattenMore
      <4>3. FlattenSeq(f) \in Text
        BY <2>3, <2>7, FlattenType
      <4>4. Cat(Cat(FlattenSeq(f), x), y) = Cat(FlattenSeq(f), Cat(x, y))
        BY <2>6, <4>3, CatCat
      <4>5. Cat(FlattenSeq(new), y) = Cat(FlattenSeq(f), pipe[s])
        BY <2>6, <4>2, <4>4
      <4> QED BY <2>7, <2>11, <3>1, <3>3, <4>5 DEF Cat
    <3> QED BY <3>2, <3>3
  <2> QED BY <2>13, <2>14, <2>15, <2>16, <2>17
<1>12. ASSUME NEW i \in 1..Len(rfds), EndOfStream(i) PROVE RedirectionInv'
  <2>1. /\ loop = "select" /\ toReopen = {}
        /\ logs' = RemoveAt(logs, i) /\ rfds' = RemoveAt(rfds, i)
        /\ UNCHANGED <<toReopen, trigger, pipe, said, file, rotation>>
        /\ \/ loop' = "closing" /\ signal' = "ignored"
           \/ loop' = loop /\ signal' = signal
    BY <1>12 DEF EndOfStream, Turn
  <2>2. i \in 1..Len(logs) /\ Len(logs) = Len(rfds)
    BY DEF LogsPaired
  <2>3. /\ logs' \in Seq(Streams \X Nat) /\ Len(logs') = Len(logs) - 1
        /\ \A j \in 1..(Len(logs) - 1) : logs'[j] = IF j < i THEN logs[j] ELSE logs[j + 1]
    <3>1. PICK q : q = logs
      OBVIOUS
    <3>2. q \in Seq(Streams \X Nat) /\ i \in 1..Len(q)
      BY <2>2, <3>1 DEF RedirectionTypeOK
    <3> QED BY <2>1, <3>1, <3>2, RemoveAtIs
  <2>4. /\ rfds' \in Seq(Streams) /\ Len(rfds') = Len(logs) - 1
        /\ \A j \in 1..(Len(logs) - 1) : rfds'[j] = IF j < i THEN rfds[j] ELSE rfds[j + 1]
    <3>1. PICK q : q = rfds
      OBVIOUS
    <3>2. q \in Seq(Streams) /\ i \in 1..Len(q)
      BY <2>2, <3>1 DEF RedirectionTypeOK
    <3> QED BY <2>1, <2>2, <3>1, <3>2, RemoveAtIs
  <2>5. PICK old : old = [j \in 1..(Len(logs) - 1) |-> IF j < i THEN j ELSE j + 1]
    OBVIOUS
  <2>6. /\ \A j \in 1..(Len(logs) - 1) :
             old[j] \in 1..Len(logs) /\ logs'[j] = logs[old[j]] /\ rfds'[j] = rfds[old[j]]
        /\ \A j, k \in 1..(Len(logs) - 1) : old[j] = old[k] => j = k
    <3>1. ASSUME NEW j \in 1..(Len(logs) - 1)
          PROVE  old[j] \in 1..Len(logs) /\ logs'[j] = logs[old[j]] /\ rfds'[j] = rfds[old[j]]
      <4>1. old[j] = IF j < i THEN j ELSE j + 1
        BY <2>5
      <4> QED BY <1>1, <2>2, <2>3, <2>4, <4>1
    <3>2. ASSUME NEW j \in 1..(Len(logs) - 1), NEW k \in 1..(Len(logs) - 1), old[j] = old[k]
          PROVE  j = k
      BY <1>1, <2>2, <2>5, <3>2
    <3> QED BY <3>1, <3>2
  <2>7. \A s : Latest(s)' = Latest(s)
    BY <1>3, <2>1
  <2>8. RedirectionTypeOK'
    BY <2>1, <2>3, <2>4 DEF RedirectionTypeOK
  <2>9. LogsPaired'
    <3>1. toReopen' = {} /\ Len(logs') = Len(rfds')
      BY <2>1, <2>3, <2>4
    <3>2. ASSUME NEW j \in 1..Len(rfds'), NEW k \in 1..Len(rfds'), rfds'[j] = rfds'[k]
          PROVE  j = k
      <4>1. old[j] = old[k]
        BY <2>2, <2>4, <2>6, <3>2 DEF LogsPaired
      <4> QED BY <2>4, <2>6, <4>1
    <3>3. ASSUME NEW j \in 1..Len(logs')
          PROVE  logs'[j][1] = rfds'[j] /\ logs'[j][2] <= Latest(rfds'[j])
      <4>1. PICK k \in 1..Len(logs) : logs'[j] = logs[k] /\ rfds'[j] = rfds[k]
        BY <2>3, <2>6
      <4> QED BY <4>1 DEF LogsPaired
    <3> QED BY <2>7, <3>1, <3>2, <3>3 DEF LogsPaired
  <2>10. WrittenLast'
    <3>1. ASSUME NEW j \in 1..Len(logs'), NEW g \in 1..Latest(rfds'[j]), g > logs'[j][2]
          PROVE  file[rfds'[j]][g] = <<>>
      <4>1. PICK k \in 1..Len(logs) : logs'[j] = logs[k] /\ rfds'[j] = rfds[k]
        BY <2>3, <2>6
      <4>2. g \in 1..Latest(rfds[k]) /\ g > logs[k][2]
        BY <3>1, <4>1
      <4> QED BY <4>1, <4>2 DEF WrittenLast
    <3>2. loop' # "start"
      BY <2>1
    <3>3. \A s \in Streams : file'[s] # <<>>
      BY <2>1 DEF WrittenLast
    <3> QED BY <2>1, <2>7, <3>1, <3>2, <3>3 DEF WrittenLast
  <2>11. ReopenedSoon'
    <3>1. ASSUME NEW j \in 1..Len(logs')
          PROVE  /\ logs'[j][2] # Pipe
                 /\ logs'[j][2] # Latest(rfds'[j]) => trigger \/ rotation = "renamed"
      <4>1. PICK k \in 1..Len(logs) : logs'[j] = logs[k] /\ rfds'[j] = rfds[k]
        BY <2>3, <2>6
      <4> QED BY <2>1, <4>1 DEF ReopenedSoon
    <3> QED BY <2>1, <2>7, <3>1 DEF ReopenedSoon
  <2> QED BY <1>5, <2>1, <2>8, <2>9, <2>10, <2>11
<1>13. CASE Wait
  <2>1. /\ loop' = "end"
        /\ UNCHANGED <<logs, rfds, toReopen, trigger, signal, pipe, said, file, rotation>>
    BY <1>13 DEF Wait
  <2>2. RedirectionTypeOK'
    BY <2>1 DEF RedirectionTypeOK
  <2>3. LogsPaired' /\ ReopenedSoon'
    BY <1>3, <2>1 DEF LogsPaired, ReopenedSoon
  <2> QED BY <1>4, <1>5, <2>1, <2>2, <2>3
<1>14. ASSUME NEW s \in Streams, Say(s) PROVE RedirectionInv'
  <2>1. /\ said' = [said EXCEPT ![s] = @ + 1]
        /\ pipe' = [pipe EXCEPT ![s] = Append(@, said'[s])]
        /\ UNCHANGED <<loop, logs, rfds, toReopen, trigger, signal, file, rotation>>
    BY <1>14 DEF Say
  <2>2. PICK p, n : p = pipe[s] /\ n = said[s]
    OBVIOUS
  <2>3. p \in Seq(Nat) /\ p \in Text /\ n \in Nat
    BY <2>2 DEF RedirectionTypeOK, Text
  <2>4. said'[s] = n + 1
    BY <2>1, <2>2 DEF RedirectionTypeOK
  <2>5. PICK longer : longer = Append(p, n + 1)
    OBVIOUS
  <2>6. longer \in Text /\ longer = p \o <<n + 1>>
    BY <2>3, <2>5, AppendIsConcat DEF Text
  <2>7. pipe' = [pipe EXCEPT ![s] = longer]
    BY <2>1, <2>2, <2>4, <2>5
  <2>8. RedirectionTypeOK'
    <3>1. pipe' \in [Streams -> Text]
      BY <2>6, <2>7 DEF RedirectionTypeOK
    <3>2. said' \in [Streams -> Nat]
      BY <2>1 DEF RedirectionTypeOK
    <3> QED BY <2>1, <3>1, <3>2 DEF RedirectionTypeOK
  <2>9. LogsPaired' /\ ReopenedSoon'
    BY <1>3, <2>1 DEF LogsPaired, ReopenedSoon
  <2>10. NothingLost'
    <3> SUFFICES ASSUME NEW r \in Streams
                 PROVE  FlattenSeq(file[r]) \o pipe'[r] = [m \in 1..said'[r] |-> m]
      BY <2>1 DEF NothingLost
    <3>1. FlattenSeq(file[r]) \o pipe[r] = [m \in 1..said[r] |-> m]
      BY DEF NothingLost
    <3>2. CASE r # s
      BY <2>1, <3>1, <3>2 DEF RedirectionTypeOK
    <3>3. CASE r = s
      <4>1. PICK a : a = FlattenSeq(file[s])
        OBVIOUS
      <4>2. a \in Text
        <5>1. PICK f \in Seq(Text) : f = file[s] /\ f # <<>>
          BY DEF WrittenLast, RedirectionTypeOK
        <5> QED BY <4>1, <5>1, FlattenType
      <4>3. a \o p = [m \in 1..n |-> m]
        BY <2>2, <3>1, <3>3, <4>1
      <4>4. a \o longer = (a \o p) \o <<n + 1>>
        BY <2>3, <2>6, <4>2, ConcatAssociative DEF Text
      <4>5. (a \o p) \o <<n + 1>> = Append(a \o p, n + 1)
        <5>1. a \o p \in Seq(Nat)
          BY <2>3, <4>2 DEF Text
        <5> QED BY <2>3, <5>1, AppendIsConcat
      <4>6. a \o longer = [m \in 1..(n + 1) |-> m]
        BY <2>3, <4>3, <4>4, <4>5, NumbersAfter
      <4>7. pipe'[s] = longer
        BY <2>7 DEF RedirectionTypeOK
      <4> QED BY <2>4, <3>3, <4>1, <4>6, <4>7
    <3> QED BY <3>2, <3>3
  <2> QED BY <1>4, <2>1, <2>8, <2>9, <2>10
<1>15. ASSUME NEW s \in Streams, Close(s) PROVE RedirectionInv'
  <2>1. UNCHANGED <<loop, logs, rfds, toReopen, trigger, signal, pipe, said, file, rotation>>
    BY <1>15 DEF Close
  <2>2. RedirectionTypeOK'
    BY <2>1 DEF RedirectionTypeOK
  <2>3. LogsPaired' /\ ReopenedSoon'
    BY <1>3, <2>1 DEF LogsPaired, ReopenedSoon
  <2> QED BY <1>4, <1>5, <2>1, <2>2, <2>3
<1>16. CASE Rename
  <2>1. /\ rotation' = "renamed" /\ file' = [s \in Streams |-> Append(file[s], <<>>)]
        /\ UNCHANGED <<loop, logs, rfds, toReopen, trigger, signal, pipe, said>>
    BY <1>16 DEF Rename
  <2>2. ASSUME NEW s \in Streams
        PROVE  /\ file'[s] \in Seq(Text) /\ file'[s] # <<>> /\ Latest(s)' = Latest(s) + 1
               /\ file'[s][Latest(s) + 1] = <<>>
               /\ \A g \in 1..Latest(s) : file'[s][g] = file[s][g]
               /\ FlattenSeq(file'[s]) = FlattenSeq(file[s])
    <3>1. PICK f \in Seq(Text) : f = file[s] /\ f # <<>>
      BY DEF WrittenLast, RedirectionTypeOK
    <3>2. PICK new : new = Append(f, <<>>)
      OBVIOUS
    <3>3. file'[s] = new
      BY <2>1, <3>1, <3>2
    <3>4. <<>> \in Text
      BY DEF Text
    <3>5. /\ new \in Seq(Text) /\ new # <<>> /\ Len(new) = Len(f) + 1 /\ new[Len(f) + 1] = <<>>
          /\ \A g \in 1..Len(f) : new[g] = f[g]
      BY <3>2, <3>4, AppendProperties
    <3>6. FlattenSeq(new) = FlattenSeq(f)
      BY <3>1, <3>2, FlattenNew
    <3> QED BY <3>1, <3>3, <3>5, <3>6 DEF Latest
  <2>3. RedirectionTypeOK'
    <3>1. file' \in [Streams -> Seq(Text)]
      BY <2>1, <2>2
    <3> QED BY <2>1, <3>1 DEF RedirectionTypeOK
  <2>4. ASSUME NEW i \in 1..Len(logs) PROVE rfds[i] \in Streams
    BY <1>1 DEF LogsPaired
  <2>5. LogsPaired'
    <3>1. ASSUME NEW i \in 1..Len(logs)
          PROVE  logs[i][1] = rfds[i] /\ logs[i][2] <= Latest(rfds[i])'
      <4>1. logs[i][2] <= Latest(rfds[i]) /\ Latest(rfds[i])' = Latest(rfds[i]) + 1
        BY <2>1, <2>2, <2>4 DEF LogsPaired
      <4>2. logs[i][2] <= Latest(rfds[i]) + 1
        BY <1>1, <1>2, <2>4, <4>1
      <4> QED BY <4>1, <4>2 DEF LogsPaired
    <3> QED BY <2>1, <3>1 DEF LogsPaired
  <2>6. WrittenLast'
    <3>1. ASSUME NEW s \in Streams, NEW g \in 1..Latest(s)',
                 g \in 1..Latest(s) => file[s][g] = <<>>
          PROVE  file'[s][g] = <<>>
      <4>1. CASE g \in 1..Latest(s)
        BY <2>2, <3>1, <4>1
      <4>2. CASE g \notin 1..Latest(s)
        <5>1. g = Latest(s) + 1
          BY <1>2, <2>2, <4>2
        <5> QED BY <2>2, <5>1
      <4> QED BY <4>1, <4>2
    <3>2. \A s \in Streams : file'[s] # <<>>
      BY <2>2
    <3>3. loop' = "start" => \A s \in Streams : \A g \in 1..Latest(s)' : file'[s][g] = <<>>
      BY <2>1, <3>1 DEF WrittenLast
    <3>4. ASSUME NEW i \in 1..Len(logs), NEW g \in 1..Latest(rfds[i])', g > logs[i][2]
          PROVE  file'[rfds[i]][g] = <<>>
      <4>1. PICK s \in Streams : s = rfds[i]
        BY <2>4
      <4>2. g \in 1..Latest(s)' /\ g > logs[i][2]
        BY <2>1, <3>4, <4>1 DEF Latest
      <4>3. g \in 1..Latest(s) => file[s][g] = <<>>
        <5>1. \A h \in 1..Latest(s) : h > logs[i][2] => file[s][h] = <<>>
          BY <4>1 DEF WrittenLast
        <5> QED BY <4>2, <5>1
      <4>4. file'[s][g] = <<>>
        <5>1. CASE g \in 1..Latest(s)
          BY <2>2, <4>3, <5>1
        <5>2. CASE g \notin 1..Latest(s)
          <6>1. g = Latest(s) + 1
            BY <1>2, <2>2, <4>2, <5>2
          <6> QED BY <2>2, <6>1
        <5> QED BY <5>1, <5>2
      <4> QED BY <4>1, <4>4
    <3> QED BY <2>1, <3>2, <3>3, <3>4 DEF WrittenLast, Latest
  <2>7. ReopenedSoon'
    BY <2>1 DEF ReopenedSoon
  <2>8. NothingLost'
    BY <2>1, <2>2 DEF NothingLost
  <2> QED BY <2>3, <2>5, <2>6, <2>7, <2>8
<1>17. CASE Signal
  <2>1. /\ rotation' = "idle" /\ trigger' = (trigger \/ signal = "caught")
        /\ UNCHANGED <<loop, logs, rfds, toReopen, signal, pipe, said, file>>
    BY <1>17 DEF Signal
  <2>2. RedirectionTypeOK'
    <3>1. trigger' \in BOOLEAN
      BY <2>1
    <3> QED BY <2>1, <3>1 DEF RedirectionTypeOK
  <2>3. LogsPaired'
    BY <1>3, <2>1 DEF LogsPaired
  <2>4. ReopenedSoon'
    <3>1. loop = "select" => trigger'
      BY <2>1 DEF ReopenedSoon
    <3> QED BY <2>1, <3>1 DEF ReopenedSoon
  <2> QED BY <1>4, <1>5, <2>1, <2>2, <2>3, <2>4
<1>18. CASE UNCHANGED redirectionVars
  <2>1. UNCHANGED <<loop, logs, rfds, toReopen, trigger, signal, pipe, said, file, rotation>>
    BY <1>18 DEF redirectionVars
  <2>2. RedirectionTypeOK'
    BY <2>1 DEF RedirectionTypeOK
  <2>3. LogsPaired' /\ ReopenedSoon'
    BY <1>3, <2>1 DEF LogsPaired, ReopenedSoon
  <2> QED BY <1>4, <1>5, <2>1, <2>2, <2>3
<1> QED
  BY <1>6, <1>7, <1>8, <1>9, <1>10, <1>11, <1>12, <1>13, <1>14, <1>15, <1>16, <1>17, <1>18
  DEF RedirectionNext, Redirecting

\* For any number of lines and rotations: what the command says is in the files of its log,
\* once and in order, but for what is in the pipe; and a wrapper that has nothing left to do
\* writes to the files that have the names of its logs.
THEOREM NothingIsLost == RedirectionSpec => []LogsAreKept
<1>1. RedirectionInv => LogsAreKept
  <2> SUFFICES ASSUME RedirectionInv PROVE RotationsSeen
    BY DEF RedirectionInv, LogsAreKept
  <2>1. ASSUME loop = "select", rotation = "idle", ~trigger, toReopen = {},
               NEW i \in 1..Len(logs)
        PROVE  logs[i][2] = Latest(logs[i][1])
    <3>1. logs[i][1] = rfds[i]
      BY DEF RedirectionInv, LogsPaired
    <3>2. logs[i][2] = Latest(rfds[i])
      BY <2>1 DEF RedirectionInv, ReopenedSoon
    <3> QED BY <3>1, <3>2
  <2> QED BY <2>1 DEF RotationsSeen
<1>2. RedirectionSpec => []RedirectionInv
  BY RedirectionInvInit, RedirectionInvStep, PTL DEF RedirectionSpec
<1> QED BY <1>1, <1>2, PTL
=============================================================================
