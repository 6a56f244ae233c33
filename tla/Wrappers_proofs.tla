--------------------------- MODULE Wrappers_proofs ---------------------------
(***************************************************************************)
(* What the wrapper of a service gives, in two parts.  The wait for files:   *)
(* each file has existed, always; and, if no file changed before the         *)
(* wrapper followed the events, no event is missed and the files were all    *)
(* there together.  The wrapper that is named after files: the service has   *)
(* read them.                                                                *)
(***************************************************************************)
EXTENDS WaitFiles, WrapperRecipe, SequenceTheorems, TLAPS
LOCAL INSTANCE SequencesExt

-----------------------------------------------------------------------------
(* The wait for files (WaitFiles). *)

\* What is known or announced has existed.
Witnessed ==
  /\ exists \subseteq seen
  /\ known \subseteq seen
  /\ \A f \in Files : pending[f] = "created" => f \in seen
  /\ pc = "done" => known = Files

SeenInv == TypeOK /\ Witnessed

\* While nothing has changed during the setup: no event is pending, what has
\* been tested is true, and then NothingMissed takes over.
Tracked ==
  /\ pc \in {"check", "watch"} =>
       /\ pending = [f \in Files |-> "none"]
       /\ \A f \in Files \ toCheck : f \in exists <=> f \in known
  /\ pc = "watch" => toCheck = {}
  /\ pc = "wait" => watched = Dirs
  /\ pc = "poll" => watched = {}
  /\ NothingMissed
  /\ exists = Files => together
  /\ pc = "wait" /\ known = Files => together
  /\ AllTogether

-----------------------------------------------------------------------------
LEMMA SeenInit == Init => SeenInv
<1> SUFFICES ASSUME Init PROVE SeenInv
  OBVIOUS
<1>1. together \in BOOLEAN /\ disturbed \in BOOLEAN
  BY Zenon DEF Init
<1> QED BY <1>1, WaitFilesAssumption DEF Init, SeenInv, TypeOK, Witnessed

LEMMA SeenStays == SeenInv /\ [Next]_vars => SeenInv'
<1> SUFFICES ASSUME SeenInv, [Next]_vars PROVE SeenInv'
  OBVIOUS
<1> USE WaitFilesAssumption DEF SeenInv, TypeOK, Witnessed
<1>1. ASSUME NEW f \in Files, CheckFile(f) PROVE SeenInv'
  BY <1>1 DEF CheckFile
<1>2. ASSUME NEW d \in Dirs, AddWatch(d) PROVE SeenInv'
  BY <1>2 DEF AddWatch
<1>3. ASSUME StartWatching \/ StartWaiting PROVE SeenInv'
  BY <1>3 DEF StartWatching, StartWaiting
<1>4. ASSUME AddWatchFails PROVE SeenInv'
  BY <1>4 DEF AddWatchFails
<1>5. ASSUME ReadEvents PROVE SeenInv'
  BY <1>5 DEF ReadEvents, Created
<1>6. ASSUME PollAgain PROVE SeenInv'
  BY <1>6 DEF PollAgain
<1>7. ASSUME Finish PROVE SeenInv'
  BY <1>7 DEF Finish
<1>8. ASSUME NEW f \in Files, CreateFile(f) PROVE SeenInv'
  BY <1>8 DEF CreateFile, MayChange, Notice
<1>9. ASSUME NEW f \in Files, DeleteFile(f) PROVE SeenInv'
  BY <1>9 DEF DeleteFile, MayChange, Notice
<1>10. CASE UNCHANGED vars
  BY <1>10 DEF vars
<1> QED BY <1>1, <1>2, <1>3, <1>4, <1>5, <1>6, <1>7, <1>8, <1>9, <1>10
  DEF Next, Wrapper, Others

LEMMA TrackedStays ==
  ASSUME TypeOK, ~disturbed => Tracked, [Next]_vars, ~disturbed'
  PROVE  Tracked'
<1>0. ~disturbed
  BY DEF Next, Wrapper, Others, CheckFile, AddWatch, StartWatching, StartWaiting,
    AddWatchFails, ReadEvents, PollAgain, Finish, CreateFile, DeleteFile, MayChange,
    TypeOK, vars
<1> USE <1>0, WaitFilesAssumption DEF TypeOK, Tracked, NothingMissed, AllTogether
<1>1. ASSUME NEW f \in Files, CheckFile(f) PROVE Tracked'
  BY <1>1 DEF CheckFile
<1>2. ASSUME NEW d \in Dirs, AddWatch(d) PROVE Tracked'
  BY <1>2 DEF AddWatch
<1>3. ASSUME StartWatching PROVE Tracked'
  BY <1>3 DEF StartWatching
<1>4. ASSUME StartWaiting PROVE Tracked'
  BY <1>4 DEF StartWaiting
<1>5. ASSUME AddWatchFails PROVE Tracked'
  BY <1>5 DEF AddWatchFails
<1>6. ASSUME ReadEvents PROVE Tracked'
  <2>1. known' = exists
    BY <1>6 DEF ReadEvents, Created
  <2> QED BY <1>6, <2>1 DEF ReadEvents
<1>7. ASSUME PollAgain PROVE Tracked'
  BY <1>7 DEF PollAgain
<1>8. ASSUME Finish PROVE Tracked'
  BY <1>8 DEF Finish
<1>9. ASSUME NEW f \in Files, CreateFile(f) PROVE Tracked'
  BY <1>9 DEF CreateFile, MayChange, Notice
<1>10. ASSUME NEW f \in Files, DeleteFile(f) PROVE Tracked'
  BY <1>10 DEF DeleteFile, MayChange, Notice
<1>11. CASE UNCHANGED vars
  BY <1>11 DEF vars
<1> QED BY <1>1, <1>2, <1>3, <1>4, <1>5, <1>6, <1>7, <1>8, <1>9, <1>10, <1>11
  DEF Next, Wrapper, Others

-----------------------------------------------------------------------------
\* The command never runs before each file has existed, with inotify or without,
\* whatever the other processes do.
THEOREM NeverTooEarly == Spec => []EachExisted
<1>1. SeenInv => EachExisted
  BY DEF SeenInv, TypeOK, Witnessed, EachExisted
<1> QED BY <1>1, SeenInit, SeenStays, PTL DEF Spec

LEMMA TrackedAlways == Spec => [](~disturbed => Tracked)
<1>1. Init => (~disturbed => Tracked)
  BY WaitFilesAssumption DEF Init, Tracked, NothingMissed, AllTogether
<1>2. (~disturbed => Tracked) /\ SeenInv /\ [Next]_vars => (~disturbed => Tracked)'
  BY TrackedStays DEF SeenInv
<1> QED BY <1>1, <1>2, SeenInit, SeenStays, PTL DEF Spec

\* If no file changed before the wrapper followed the events, it misses none.
THEOREM NoEventMissed == Spec => []NothingMissed
<1>1. (~disturbed => Tracked) => NothingMissed
  BY DEF Tracked, NothingMissed
<1> QED BY <1>1, TrackedAlways, PTL

\* Then the command runs only after all the files have been there together.
THEOREM ThereTogether == Spec => []AllTogether
<1>1. (~disturbed => Tracked) => AllTogether
  BY DEF Tracked, AllTogether
<1> QED BY <1>1, TrackedAlways, PTL

-----------------------------------------------------------------------------
(* The wrapper that is named after files (WrapperRecipe). *)

\* What is hashed of two files, and that it tells them apart.
LEMMA FlattenTwo ==
  ASSUME NEW S, NEW a \in Seq(S), NEW b \in Seq(S)
  PROVE  FlattenSeq(<<a, b>>) = a \o b
<1> DEFINE s == <<a, b>>
           Def(f) == f = [i \in 1..Len(s) |-> IF i = 1 THEN s[i] ELSE f[i - 1] \o s[i]]
<1>1. PICK p : Def(p)
  <2> DEFINE g == [i \in 1..Len(s) |-> IF i = 1 THEN a ELSE a \o b]
  <2>1. Def(g)
    OBVIOUS
  <2> HIDE DEF g, Def
  <2> QED BY <2>1
<1>2. PICK f : Def(f) /\ FlattenSeq(s) = f[Len(s)]
  <2>1. PICK f : f = CHOOSE h : Def(h)
    OBVIOUS
  <2>2. Def(f)
    <3> HIDE DEF Def
    <3> QED BY <1>1, <2>1
  <2>3. FlattenSeq(s) = f[Len(s)]
    BY <2>1 DEF FlattenSeq
  <2> QED BY <2>2, <2>3
<1>3. Len(s) = 2 /\ s[1] = a /\ s[2] = b
  OBVIOUS
<1>4. f[1] = a /\ f[2] = a \o b
  BY <1>2, <1>3
<1> QED BY <1>2, <1>3, <1>4

LEMMA HashOfTwo ==
  ASSUME NEW a \in Seq(Nat), NEW b \in Seq(Nat)
  PROVE  Hash(<<a, b>>) = (<<Len(a)>> \o a) \o (<<Len(b)>> \o b)
<1> DEFINE x == <<Len(a)>> \o a
           y == <<Len(b)>> \o b
<1>1. PICK files : files = <<a, b>>
  OBVIOUS
<1>2. Len(files) = 2 /\ files[1] = a /\ files[2] = b
  BY <1>1
<1>3. [i \in 1..Len(files) |-> <<Len(files[i])>> \o files[i]] =
      [i \in 1..2 |-> IF i = 1 THEN x ELSE y]
  <2>1. \A i \in 1..2 : <<Len(files[i])>> \o files[i] = IF i = 1 THEN x ELSE y
    <3>1. \A i \in 1..2 : i = 1 \/ i = 2
      OBVIOUS
    <3> QED BY <1>2, <3>1
  <2>2. 1..Len(files) = 1..2
    BY <1>2
  <2> HIDE DEF x, y
  <2> QED BY <2>1, <2>2, Zenon
<1>4. x \in Seq(Nat) /\ y \in Seq(Nat)
  OBVIOUS
<1> HIDE DEF x, y
<1>5. [i \in 1..2 |-> IF i = 1 THEN x ELSE y] = <<x, y>>
  <2>1. PICK f, t : f = [i \in 1..2 |-> IF i = 1 THEN x ELSE y] /\ t = <<x, y>>
    OBVIOUS
  <2>2. f \in Seq(Seq(Nat)) /\ t \in Seq(Seq(Nat)) /\ Len(f) = 2 /\ Len(t) = 2
    BY <1>4, <2>1
  <2>3. \A i \in 1..2 : f[i] = t[i]
    BY <2>1
  <2> QED BY <2>1, <2>2, <2>3, SeqEqual
<1>6. Hash(files) = FlattenSeq(<<x, y>>)
  BY <1>3, <1>5 DEF Hash
<1>7. Hash(<<a, b>>) = x \o y
  BY <1>1, <1>6, <1>4, FlattenTwo
<1> QED BY <1>7 DEF x, y

LEMMA CancelLeft ==
  ASSUME NEW s \in Seq(Nat), NEW t \in Seq(Nat), NEW v \in Seq(Nat), s \o t = s \o v
  PROVE  t = v
  BY ConcatSimplifications

LEMMA FirstOfConcat ==
  ASSUME NEW s \in Seq(Nat), NEW t \in Seq(Nat), NEW i \in 1..Len(s)
  PROVE  (s \o t)[i] = s[i]
<1>1. Len(s) \in Nat /\ Len(t) \in Nat
  OBVIOUS
<1>2. i \in 1..(Len(s) + Len(t)) /\ i <= Len(s)
  BY <1>1
<1> QED BY <1>2, ConcatProperties

LEMMA WithLength ==
  ASSUME NEW a \in Seq(Nat)
  PROVE  /\ <<Len(a)>> \in Seq(Nat) /\ <<Len(a)>> \o a \in Seq(Nat)
         /\ Len(<<Len(a)>> \o a) = Len(a) + 1 /\ (<<Len(a)>> \o a)[1] = Len(a)
  OBVIOUS

\* The lengths tell where the first file ends.
LEMMA HashInjective ==
  ASSUME NEW a \in Seq(Nat), NEW b \in Seq(Nat), NEW c \in Seq(Nat), NEW d \in Seq(Nat),
         Hash(<<a, b>>) = Hash(<<c, d>>)
  PROVE  a = c /\ b = d
<1>1. PICK x, y, u, v :
        x = <<Len(a)>> \o a /\ y = <<Len(b)>> \o b /\ u = <<Len(c)>> \o c /\ v = <<Len(d)>> \o d
  OBVIOUS
<1>2. x \o y = u \o v
  <2>1. Hash(<<a, b>>) = x \o y
    BY <1>1, HashOfTwo
  <2>2. Hash(<<c, d>>) = u \o v
    BY <1>1, HashOfTwo
  <2> QED BY <2>1, <2>2
<1>3. /\ x \in Seq(Nat) /\ Len(x) = Len(a) + 1 /\ x[1] = Len(a)
      /\ y \in Seq(Nat) /\ Len(y) = Len(b) + 1 /\ y[1] = Len(b)
      /\ u \in Seq(Nat) /\ Len(u) = Len(c) + 1 /\ u[1] = Len(c)
      /\ v \in Seq(Nat) /\ Len(v) = Len(d) + 1 /\ v[1] = Len(d)
  BY <1>1, WithLength, Zenon
<1>4. Len(x) = Len(u)
  <2>1. 1 \in 1..Len(x) /\ 1 \in 1..Len(u)
    BY <1>3
  <2>2. (x \o y)[1] = x[1] /\ (u \o v)[1] = u[1]
    BY <1>3, <2>1, FirstOfConcat
  <2> QED BY <1>2, <1>3, <2>2
<1>5. x = u
  <2>1. \A i \in 1..Len(x) : x[i] = u[i]
    <3> TAKE i \in 1..Len(x)
    <3>1. (x \o y)[i] = x[i] /\ (u \o v)[i] = u[i]
      <4>1. i \in 1..Len(u)
        BY <1>4
      <4> QED BY <1>3, <4>1, FirstOfConcat
    <3> QED BY <1>2, <3>1
  <2> QED BY <1>3, <1>4, <2>1, SeqEqual
<1>6. y = v
  BY <1>2, <1>3, <1>5, CancelLeft
<1>7. Len(a) = Len(c) /\ Len(b) = Len(d)
  BY <1>3, <1>5, <1>6
<1>8. a = c
  BY <1>1, <1>5, <1>7, CancelLeft, WithLength
<1>9. b = d
  BY <1>1, <1>6, <1>7, CancelLeft, WithLength
<1> QED BY <1>8, <1>9

\* Contents of one length are the same.
LEMMA BytesAre ==
  /\ Bytes \subseteq Seq(Nat) /\ NoFile \in Seq(Nat) /\ <<>> \in Bytes
  /\ \A a, b \in Bytes : Len(a) = Len(b) => a = b
  /\ \A a \in Bytes : Len(a) \in Nat
<1>1. \A a : a \in Bytes <=> \E n \in 0..MaxLength : a \in [1..n -> {Byte}]
  BY DEF Bytes
<1>2. \A n \in 0..MaxLength : \A a \in [1..n -> {Byte}] : a \in Seq(Nat) /\ Len(a) = n
  BY DEF Byte
<1>3. NoFile \in Seq(Nat)
  BY DEF NoFile
<1>4. <<>> \in Bytes
  <2>1. <<>> \in [1..0 -> {Byte}]
    OBVIOUS
  <2>2. 0 \in 0..MaxLength
    BY WrapperAssumption
  <2> QED BY <1>1, <2>1, <2>2
<1>5. \A a, b \in Bytes : Len(a) = Len(b) => a = b
  <2> SUFFICES ASSUME NEW a \in Bytes, NEW b \in Bytes, Len(a) = Len(b) PROVE a = b
    OBVIOUS
  <2>1. PICK n \in 0..MaxLength : a \in [1..n -> {Byte}] /\ b \in [1..n -> {Byte}]
    BY <1>1, <1>2
  <2> QED BY <2>1
<1>6. \A a \in Bytes : Len(a) \in Nat
  BY <1>1, <1>2
<1>7. Bytes \subseteq Seq(Nat)
  BY <1>1, <1>2
<1> QED BY <1>3, <1>4, <1>5, <1>6, <1>7

PassSteps == {"idle", "uninstall", "generate", "install", "open", "write", "record", "update",
              "services"}
Contents == {<<g, e>> : g \in Bytes \cup {NoFile}, e \in Bytes}
Paths == {Hash(c) : c \in Contents}
Options == Bytes \X {Hash(<<e>>) : e \in Bytes}

WrapperTypeOK ==
  /\ wanted \in Bytes /\ generated \in Bytes \cup {NoFile} /\ existing \in Bytes
  /\ pass \in [at : PassSteps, options : Options \cup {Nothing}, path : Paths \cup {Nothing},
               built : Contents \cup {Nothing}]
  /\ pass.at # "idle" => pass.options # Nothing
  /\ pass.at \in {"open", "write", "record"} => pass.path \in Paths
  /\ installed \in {NotInstalled} \cup [options : Options, path : Paths]

\* A path names the file that is generated, and the other as it is or was.
Names(path) == \E e \in Bytes : path = Hash(<<generated, e>>) /\ Len(e) <= Len(existing)

\* There is one script, which a pass makes, or which was recorded and is whole.
OneScript ==
  /\ DOMAIN scripts = IF pass.at \in {"write", "record"} THEN {pass.path}
                      ELSE IF installed = NotInstalled THEN {} ELSE {installed.path}
  /\ pass.at # "write" => \A p \in DOMAIN scripts : scripts[p] = "whole"

\* A part that is not installed again has the options of the pass.
SameOptions ==
  /\ pass.at = "generate" /\ installed # NotInstalled => installed.options = pass.options
  /\ pass.at \in {"install", "open", "write", "record"} => installed = NotInstalled
  /\ pass.at \in {"update", "services"} => installed.options = pass.options

\* The generated file is that of the options, and paths name it.
GeneratedFirst ==
  /\ pass.at \in {"install", "open", "write", "record", "update", "services"} =>
       generated = pass.options[1]
  /\ installed # NotInstalled => generated = installed.options[1] /\ Names(installed.path)
  /\ pass.at \in {"open", "write", "record"} => Names(pass.path)

\* What a pass has computed its path from.
BuiltFrom ==
  /\ pass.at \in {"open", "write", "record", "services"} => pass.built # Nothing
  /\ pass.built # Nothing => pass.built[1] = generated
  /\ pass.at \in {"open", "write", "record"} => pass.path = Hash(pass.built)
  /\ pass.at \in {"idle", "services"} /\ pass.built # Nothing =>
       installed # NotInstalled /\ installed.path = Hash(pass.built)
  /\ pass.at = "idle" /\ pass.built # Nothing => DOMAIN services = {installed.path}
  /\ pass.at \in {"uninstall", "generate", "install", "update"} => pass.built = Nothing

\* A service read the files after its path was computed.
ReadLater ==
  \A p \in DOMAIN services :
    \E g \in Bytes \cup {NoFile} : \E e, f \in Bytes :
      /\ p = Hash(<<g, e>>) /\ services[p] = <<g, f>>
      /\ Len(e) <= Len(f) /\ Len(f) <= Len(existing)

WrapperSound == OneScript /\ SameOptions /\ GeneratedFirst /\ BuiltFrom /\ ReadLater
WrapperInv == WrapperTypeOK /\ (~excepted => WrapperSound)

LEMMA KeepIs ==
  ASSUME NEW f, NEW P
  PROVE  /\ DOMAIN Keep(f, P) = DOMAIN f \cap P
         /\ \A p \in DOMAIN f \cap P : Keep(f, P)[p] = f[p]
  BY DEF Keep

LEMMA TwoElements == \A x, y : <<x, y>> # Nothing /\ <<x, y>>[1] = x /\ <<x, y>>[2] = y
  BY DEF Nothing

LEMMA NotNothing ==
  /\ \A o \in Options : o # Nothing /\ o[1] \in Bytes
  /\ \A c \in Contents : c # Nothing /\ c[1] \in Bytes \cup {NoFile} /\ c[2] \in Bytes
                         /\ c = <<c[1], c[2]>>
<1>1. ASSUME NEW o \in Options PROVE o # Nothing /\ o[1] \in Bytes
  <2>1. o[1] \in Bytes /\ o = <<o[1], o[2]>>
    BY DEF Options
  <2> QED BY <2>1, TwoElements
<1>2. ASSUME NEW c \in Contents
      PROVE  c # Nothing /\ c[1] \in Bytes \cup {NoFile} /\ c[2] \in Bytes /\ c = <<c[1], c[2]>>
  <2>1. PICK g \in Bytes \cup {NoFile}, e \in Bytes : c = <<g, e>>
    BY DEF Contents
  <2>2. c # Nothing /\ c[1] = g /\ c[2] = e
    BY <2>1, TwoElements
  <2> QED BY <2>1, <2>2
<1> QED BY <1>1, <1>2

LEMMA NowTyped ==
  ASSUME WrapperTypeOK
  PROVE  /\ <<generated, existing>> \in Contents /\ WrapperPath \in Paths
         /\ WrapperPath = Hash(<<generated, existing>>) /\ Names(WrapperPath)
         /\ PartOptions \in Options /\ PartOptions[1] = wanted
         /\ Len(existing) \in Nat
<1>1. <<generated, existing>> \in Contents
  BY DEF WrapperTypeOK, Contents
<1>2. WrapperPath \in Paths /\ WrapperPath = Hash(<<generated, existing>>)
  BY <1>1 DEF WrapperPath, Paths
<1>3. Len(existing) \in Nat
  BY BytesAre DEF WrapperTypeOK
<1>4. Names(WrapperPath)
  <2>1. existing \in Bytes /\ Len(existing) <= Len(existing)
    BY <1>3 DEF WrapperTypeOK
  <2> QED BY <1>2, <2>1 DEF Names
<1>5. PartOptions \in Options /\ PartOptions[1] = wanted
  BY DEF PartOptions, Options, WrapperTypeOK
<1> QED BY <1>1, <1>2, <1>3, <1>4, <1>5

LEMMA WrapperInvInit == WrapperInit => WrapperInv
<1> SUFFICES ASSUME WrapperInit PROVE WrapperInv
  OBVIOUS
<1>1. /\ wanted \in Bytes /\ generated = NoFile /\ existing = <<>> /\ pass = Idle
      /\ installed = NotInstalled /\ scripts = <<>> /\ services = <<>>
  BY DEF WrapperInit
<1>2. pass \in [at : PassSteps, options : Options \cup {Nothing}, path : Paths \cup {Nothing},
               built : Contents \cup {Nothing}]
  BY <1>1 DEF Idle, PassSteps
<1>3. WrapperTypeOK
  BY <1>1, <1>2, BytesAre DEF WrapperTypeOK, Idle
<1>4. pass.at = "idle" /\ pass.built = Nothing /\ DOMAIN scripts = {} /\ DOMAIN services = {}
  BY <1>1 DEF Idle
<1>5. WrapperSound
  BY <1>1, <1>4 DEF WrapperSound, OneScript, SameOptions, GeneratedFirst, BuiltFrom, ReadLater
<1> QED BY <1>3, <1>5 DEF WrapperInv

\* Each step keeps the types.
LEMMA WrapperTypeStep == WrapperTypeOK /\ [WrapperNext]_wrapperVars => WrapperTypeOK'
<1> SUFFICES ASSUME WrapperTypeOK, [WrapperNext]_wrapperVars PROVE WrapperTypeOK'
  OBVIOUS
<1> DEFINE Passes == [at : PassSteps, options : Options \cup {Nothing},
                      path : Paths \cup {Nothing}, built : Contents \cup {Nothing}]
<1>1. pass \in Passes
  BY DEF WrapperTypeOK
<1>2. Idle \in Passes
  BY DEF Idle, PassSteps
<1>3. ASSUME pass' = pass, UNCHANGED <<generated, installed>>,
             wanted' \in Bytes, existing' \in Bytes
      PROVE  WrapperTypeOK'
  BY <1>3 DEF WrapperTypeOK
<1>4. CASE Begin
  <2>1. pass' = [Idle EXCEPT !.at = "uninstall", !.options = PartOptions]
    BY <1>4 DEF Begin
  <2>2. pass' \in Passes /\ pass'.options # Nothing
    <3>1. PICK o : o = PartOptions
      OBVIOUS
    <3>2. o \in Options /\ o # Nothing
      BY <3>1, NowTyped, NotNothing
    <3>3. pass' = [at |-> "uninstall", options |-> o, path |-> Nothing, built |-> Nothing]
      BY <2>1, <3>1 DEF Idle
    <3> QED BY <3>2, <3>3 DEF PassSteps
  <2> QED BY <1>4, <2>2 DEF Begin, WrapperTypeOK
<1>5. CASE Uninstall
  <2>1. pass' = [pass EXCEPT !.at = "generate"] /\ pass.at = "uninstall"
    BY <1>5 DEF Uninstall
  <2>2. pass' \in Passes /\ pass'.options # Nothing
    BY <1>1, <2>1 DEF PassSteps, WrapperTypeOK
  <2>3. installed' \in {installed, NotInstalled}
    BY <1>5 DEF Uninstall
  <2> QED BY <1>5, <2>2, <2>3 DEF Uninstall, WrapperTypeOK
<1>6. CASE Generate
  <2>1. PICK at \in {"update", "install"} : pass' = [pass EXCEPT !.at = at]
    BY <1>6 DEF Generate
  <2>2. pass' \in Passes /\ pass'.options = pass.options
    BY <1>1, <2>1 DEF PassSteps
  <2>3. pass.options \in Options /\ pass.options # Nothing
    BY <1>6 DEF Generate, WrapperTypeOK
  <2>4. generated' \in Bytes
    BY <1>6, <2>3, NotNothing DEF Generate
  <2> QED BY <1>6, <2>2, <2>3, <2>4 DEF Generate, WrapperTypeOK
<1>7. CASE InstallWrapper
  <2>1. PICK at \in {"record", "open"} :
          pass' = [pass EXCEPT !.at = at, !.path = WrapperPath, !.built = <<generated, existing>>]
    BY <1>7 DEF InstallWrapper
  <2>2. pass.options # Nothing
    BY <1>7 DEF InstallWrapper, WrapperTypeOK
  <2>3. pass' \in Passes /\ pass'.options = pass.options /\ pass'.path \in Paths
    <3>1. PICK path \in Paths, c \in Contents : path = WrapperPath /\ c = <<generated, existing>>
      BY NowTyped
    <3>2. pass' = [pass EXCEPT !.at = at, !.path = path, !.built = c]
      BY <2>1, <3>1
    <3> QED BY <1>1, <3>2 DEF PassSteps
  <2> QED BY <1>7, <2>2, <2>3 DEF InstallWrapper, WrapperTypeOK
<1>8. CASE OpenScript
  <2>1. pass' \in Passes /\ pass'.options # Nothing
    BY <1>1, <1>8 DEF OpenScript, PassSteps, WrapperTypeOK
  <2> QED BY <1>8, <2>1 DEF OpenScript, WrapperTypeOK
<1>9. CASE WriteScript
  <2>1. pass' \in Passes /\ pass'.options # Nothing
    BY <1>1, <1>9 DEF WriteScript, PassSteps, WrapperTypeOK
  <2> QED BY <1>9, <2>1 DEF WriteScript, WrapperTypeOK
<1>10. CASE Record /\ pass.path \in Paths
  <2>1. pass' \in Passes /\ pass'.options # Nothing
    BY <1>1, <1>10 DEF Record, PassSteps, WrapperTypeOK
  <2>2. pass.options \in Options
    BY <1>10 DEF Record, WrapperTypeOK
  <2>3. installed' = [options |-> pass.options, path |-> pass.path]
    BY <1>10 DEF Record
  <2> QED BY <1>10, <2>1, <2>2, <2>3 DEF Record, WrapperTypeOK
<1>11. CASE UpdateWrapper
  <2>1. PICK c \in Contents : c = <<generated, existing>>
    BY NowTyped
  <2>2. pass' = Idle \/ pass' = [pass EXCEPT !.at = "services", !.built = c]
    BY <1>11, <2>1 DEF UpdateWrapper
  <2>3. pass' \in Passes
    BY <1>1, <1>2, <2>2 DEF PassSteps
  <2>4. pass'.at = "idle" \/ (pass'.at = "services" /\ pass'.options # Nothing)
    BY <1>1, <1>11, <2>2 DEF UpdateWrapper, WrapperTypeOK, Idle
  <2> QED BY <1>11, <2>3, <2>4 DEF UpdateWrapper, WrapperTypeOK
<1>12. CASE UpdateServices
  <2>1. pass' = [Idle EXCEPT !.built = pass.built]
    BY <1>12 DEF UpdateServices
  <2>2. pass' \in Passes /\ pass'.at = "idle"
    <3>1. PICK c \in Contents \cup {Nothing} : c = pass.built
      BY <1>1
    <3>2. pass' = [Idle EXCEPT !.built = c]
      BY <2>1, <3>1
    <3> QED BY <3>2 DEF Idle, PassSteps
  <2> QED BY <1>12, <2>2 DEF UpdateServices, WrapperTypeOK
<1>13. CASE KillPass
  BY <1>2, <1>13 DEF KillPass, WrapperTypeOK, Idle
<1>14. CASE ChangeParameters
  BY <1>3, <1>14 DEF ChangeParameters, WrapperTypeOK
<1>15. CASE ChangeExisting
  <2>1. existing' \in Bytes
    BY <1>15 DEF ChangeExisting
  <2> QED BY <1>3, <1>15, <2>1 DEF ChangeExisting, WrapperTypeOK
<1>16. CASE \E path \in DOMAIN services : RestartService(path)
  BY <1>3, <1>16 DEF RestartService, WrapperTypeOK
<1>17. CASE UNCHANGED wrapperVars
  BY <1>3, <1>17 DEF wrapperVars, WrapperTypeOK
<1>18. Record => pass.path \in Paths
  BY <1>1 DEF Record, WrapperTypeOK
<1> QED
  BY <1>4, <1>5, <1>6, <1>7, <1>8, <1>9, <1>10, <1>11, <1>12, <1>13, <1>14, <1>15, <1>16, <1>17,
     <1>18 DEF WrapperNext, Buildout

\* What a step keeps if the existing file does not get shorter.
LEMMA LaterStays ==
  ASSUME WrapperTypeOK, Len(existing) <= Len(existing'), Len(existing') \in Nat
  PROVE  /\ generated' = generated => \A path : Names(path) => Names(path)'
         /\ services' = services /\ ReadLater => ReadLater'
<1>1. \A e \in Bytes : Len(e) \in Nat
  BY BytesAre
<1>2. Len(existing) \in Nat
  BY <1>1 DEF WrapperTypeOK
<1>3. \A e \in Bytes : Len(e) <= Len(existing) => Len(e) <= Len(existing')
  BY <1>1, <1>2
<1>4. generated' = generated => \A path : Names(path) => Names(path)'
  BY <1>3 DEF Names
<1>5. services' = services /\ ReadLater => ReadLater'
  BY <1>3, Zenon DEF ReadLater
<1> QED BY <1>4, <1>5

\* A service that starts now from a path that names the files.
LEMMA ReadNow ==
  ASSUME WrapperTypeOK, NEW p, Names(p)
  PROVE  \E g \in Bytes \cup {NoFile} : \E e, f \in Bytes :
           /\ p = Hash(<<g, e>>) /\ <<generated, existing>> = <<g, f>>
           /\ Len(e) <= Len(f) /\ Len(f) <= Len(existing)
<1>1. PICK e \in Bytes : p = Hash(<<generated, e>>) /\ Len(e) <= Len(existing)
  BY DEF Names
<1>2. Len(existing) <= Len(existing)
  BY NowTyped
<1> QED BY <1>1, <1>2, Zenon DEF WrapperTypeOK

LEMMA WrapperSoundStep ==
  WrapperTypeOK /\ WrapperTypeOK' /\ WrapperSound /\ ~excepted' /\ [WrapperNext]_wrapperVars
    => WrapperSound'
<1> SUFFICES ASSUME WrapperTypeOK, WrapperTypeOK', WrapperSound, ~excepted',
                    [WrapperNext]_wrapperVars
             PROVE  WrapperSound'
  OBVIOUS
<1> USE DEF WrapperSound
<1> DEFINE Passes == [at : PassSteps, options : Options \cup {Nothing},
                      path : Paths \cup {Nothing}, built : Contents \cup {Nothing}]
<1>1. pass \in Passes
  BY DEF WrapperTypeOK
<1>2. Len(existing) \in Nat
  BY NowTyped
<1>3. ASSUME generated' = generated, existing' = existing
      PROVE  /\ \A path : Names(path) => Names(path)'
             /\ services' = services => ReadLater'
  BY <1>2, <1>3, LaterStays
<1>4. CASE Begin
  <2>1. pass.at = "idle" /\ pass' = [Idle EXCEPT !.at = "uninstall", !.options = PartOptions]
        /\ UNCHANGED <<generated, existing, installed, scripts, services>>
    BY <1>4 DEF Begin
  <2>2. pass'.at = "uninstall" /\ pass'.built = Nothing
    BY <2>1 DEF Idle
  <2>3. OneScript'
    BY <2>1, <2>2 DEF OneScript
  <2>4. SameOptions' /\ GeneratedFirst' /\ BuiltFrom' /\ ReadLater'
    BY <1>3, <2>1, <2>2 DEF SameOptions, GeneratedFirst, BuiltFrom
  <2> QED BY <2>3, <2>4
<1>5. CASE Uninstall
  <2>1. pass.at = "uninstall" /\ pass' = [pass EXCEPT !.at = "generate"]
        /\ UNCHANGED <<generated, existing, services>>
    BY <1>5 DEF Uninstall
  <2>2. pass'.at = "generate" /\ pass'.built = Nothing /\ pass'.options = pass.options
    BY <1>1, <2>1 DEF BuiltFrom
  <2>3. \/ installed.options = pass.options /\ UNCHANGED <<installed, scripts>>
        \/ installed' = NotInstalled /\ scripts' = Keep(scripts, DOMAIN scripts \ {installed.path})
    BY <1>5 DEF Uninstall
  <2>4. OneScript'
    <3>1. CASE /\ installed' = NotInstalled
               /\ scripts' = Keep(scripts, DOMAIN scripts \ {installed.path})
      <4>1. DOMAIN scripts' = DOMAIN scripts \ {installed.path}
        <5>1. DOMAIN Keep(scripts, DOMAIN scripts \ {installed.path}) =
              DOMAIN scripts \cap (DOMAIN scripts \ {installed.path})
          BY KeepIs
        <5> QED BY <3>1, <5>1
      <4>2. DOMAIN scripts \subseteq {installed.path}
        BY <2>1 DEF OneScript
      <4> QED BY <2>2, <3>1, <4>1, <4>2 DEF OneScript
    <3> QED BY <2>1, <2>2, <2>3, <3>1 DEF OneScript
  <2>5. SameOptions' /\ GeneratedFirst' /\ BuiltFrom' /\ ReadLater'
    BY <1>3, <2>1, <2>2, <2>3 DEF SameOptions, GeneratedFirst, BuiltFrom
  <2> QED BY <2>4, <2>5
<1>6. CASE Generate
  <2>1. pass.at = "generate" /\ generated' = pass.options[1]
        /\ UNCHANGED <<existing, installed, scripts, services>>
        /\ pass' = [pass EXCEPT !.at = IF installed.options = pass.options
                                       THEN "update" ELSE "install"]
    BY <1>6 DEF Generate
  <2>2. pass'.options = pass.options /\ pass'.built = Nothing
        /\ pass'.at = IF installed.options = pass.options THEN "update" ELSE "install"
    BY <1>1, <2>1 DEF BuiltFrom
  <2>3. OneScript'
    BY <2>1, <2>2 DEF OneScript
  <2>4. SameOptions' /\ BuiltFrom'
    BY <2>1, <2>2 DEF SameOptions, BuiltFrom
  <2>5. installed # NotInstalled => generated' = generated
    BY <2>1 DEF SameOptions, GeneratedFirst
  <2>6. GeneratedFirst'
    BY <1>3, <2>1, <2>2, <2>5 DEF GeneratedFirst
  <2>7. ReadLater'
    BY <2>1 DEF ReadLater
  <2> QED BY <2>3, <2>4, <2>6, <2>7
<1>7. CASE InstallWrapper
  <2>1. installed = NotInstalled /\ DOMAIN scripts = {} /\ pass.at = "install"
        /\ UNCHANGED <<generated, existing, installed, services>>
    BY <1>7 DEF InstallWrapper, OneScript, SameOptions
  <2>2. DOMAIN scripts' = {}
    <3>1. scripts' \in {scripts, Keep(scripts, DOMAIN scripts \ {WrapperPath})}
      BY <1>7 DEF InstallWrapper
    <3> QED BY <2>1, <3>1, KeepIs
  <2>3. pass' = [pass EXCEPT !.at = "open", !.path = WrapperPath, !.built = <<generated, existing>>]
    BY <1>7, <2>1 DEF InstallWrapper
  <2>4. pass'.at = "open" /\ pass'.path = WrapperPath /\ pass'.options = pass.options
        /\ pass'.built = <<generated, existing>> /\ pass'.built # Nothing
        /\ pass'.built[1] = generated
    BY <1>1, <2>3, TwoElements
  <2>5. OneScript' /\ SameOptions' /\ ReadLater'
    BY <1>3, <2>1, <2>2, <2>4 DEF OneScript, SameOptions
  <2>6. GeneratedFirst' /\ BuiltFrom'
    BY <1>3, <2>1, <2>4, NowTyped DEF GeneratedFirst, BuiltFrom
  <2> QED BY <2>5, <2>6
<1>8. CASE OpenScript
  <2>1. pass.at = "open" /\ scripts' = Put(scripts, pass.path, "empty")
        /\ pass' = [pass EXCEPT !.at = "write"]
        /\ UNCHANGED <<generated, existing, installed, services>>
    BY <1>8 DEF OpenScript
  <2>2. pass'.at = "write" /\ pass'.path = pass.path /\ pass'.options = pass.options
        /\ pass'.built = pass.built
    BY <1>1, <2>1
  <2>3. DOMAIN scripts' = {pass.path}
    <3>1. DOMAIN Put(scripts, pass.path, "empty") = DOMAIN scripts \cup {pass.path}
      BY DEF Put
    <3>2. DOMAIN scripts = {}
      BY <2>1 DEF OneScript, SameOptions
    <3> QED BY <2>1, <3>1, <3>2
  <2>4. OneScript' /\ SameOptions' /\ ReadLater'
    BY <1>3, <2>1, <2>2, <2>3 DEF OneScript, SameOptions
  <2>5. GeneratedFirst' /\ BuiltFrom'
    BY <1>3, <2>1, <2>2 DEF GeneratedFirst, BuiltFrom
  <2> QED BY <2>4, <2>5
<1>9. CASE WriteScript
  <2>1. pass.at = "write" /\ scripts' = Put(scripts, pass.path, "whole")
        /\ pass' = [pass EXCEPT !.at = "record"]
        /\ UNCHANGED <<generated, existing, installed, services>>
    BY <1>9 DEF WriteScript
  <2>2. pass'.at = "record" /\ pass'.path = pass.path /\ pass'.options = pass.options
        /\ pass'.built = pass.built
    BY <1>1, <2>1
  <2>3. DOMAIN scripts' = {pass.path} /\ scripts'[pass.path] = "whole"
    <3>1. /\ DOMAIN Put(scripts, pass.path, "whole") = DOMAIN scripts \cup {pass.path}
          /\ Put(scripts, pass.path, "whole")[pass.path] = "whole"
      <4>1. PICK path, whole : path = pass.path /\ whole = "whole"
        OBVIOUS
      <4>2. DOMAIN Put(scripts, path, whole) = DOMAIN scripts \cup {path}
            /\ Put(scripts, path, whole)[path] = whole
        BY DEF Put
      <4> QED BY <4>1, <4>2
    <3>2. DOMAIN scripts = {pass.path}
      BY <2>1 DEF OneScript
    <3> QED BY <2>1, <3>1, <3>2
  <2>4. OneScript' /\ SameOptions' /\ ReadLater'
    BY <1>3, <2>1, <2>2, <2>3 DEF OneScript, SameOptions
  <2>5. GeneratedFirst' /\ BuiltFrom'
    BY <1>3, <2>1, <2>2 DEF GeneratedFirst, BuiltFrom
  <2> QED BY <2>4, <2>5
<1>10. CASE Record
  <2>1. pass.at = "record" /\ installed' = [options |-> pass.options, path |-> pass.path]
        /\ pass' = [pass EXCEPT !.at = "services"]
        /\ UNCHANGED <<generated, existing, scripts, services>>
    BY <1>10 DEF Record
  <2>2. pass'.at = "services" /\ pass'.options = pass.options /\ pass'.built = pass.built
    BY <1>1, <2>1
  <2>3. installed'.options = pass.options /\ installed'.path = pass.path
    BY <2>1
  <2>4. installed' # NotInstalled
    <3>1. pass.options # Nothing
      BY <2>1 DEF WrapperTypeOK
    <3> QED BY <2>3, <3>1 DEF NotInstalled
  <2>5. OneScript' /\ SameOptions' /\ ReadLater'
    BY <1>3, <2>1, <2>2, <2>3, <2>4 DEF OneScript, SameOptions
  <2>6. GeneratedFirst' /\ BuiltFrom'
    BY <1>3, <2>1, <2>2, <2>3, <2>4 DEF GeneratedFirst, BuiltFrom
  <2> QED BY <2>5, <2>6
<1>11. CASE UpdateWrapper
  <2>1. pass.at = "update" /\ UNCHANGED <<generated, existing, installed, scripts, services>>
    BY <1>11 DEF UpdateWrapper
  <2>2. CASE WrapperPath \in DOMAIN scripts
    <3>1. pass' = [pass EXCEPT !.at = "services", !.built = <<generated, existing>>]
      BY <1>11, <2>2 DEF UpdateWrapper
    <3>2. pass'.at = "services" /\ pass'.options = pass.options
          /\ pass'.built = <<generated, existing>> /\ pass'.built # Nothing
          /\ pass'.built[1] = generated
      BY <1>1, <3>1, TwoElements
    <3>3. installed # NotInstalled /\ installed.path = WrapperPath
      BY <2>1, <2>2 DEF OneScript
    <3>4. OneScript' /\ SameOptions' /\ ReadLater'
      BY <1>3, <2>1, <3>2 DEF OneScript, SameOptions
    <3>5. GeneratedFirst' /\ BuiltFrom'
      BY <1>3, <2>1, <3>2, <3>3, NowTyped DEF GeneratedFirst, BuiltFrom
    <3> QED BY <3>4, <3>5
  <2>3. CASE WrapperPath \notin DOMAIN scripts
    <3>1. pass'.at = "idle" /\ pass'.built = Nothing
      BY <1>11, <2>3 DEF UpdateWrapper, Idle
    <3> QED BY <1>3, <2>1, <3>1 DEF OneScript, SameOptions, GeneratedFirst, BuiltFrom
  <2> QED BY <2>2, <2>3
<1>12. CASE UpdateServices
  <2>1. pass.at = "services" /\ UNCHANGED <<generated, existing, installed, scripts>>
        /\ pass' = [Idle EXCEPT !.built = pass.built]
        /\ services' = [p \in DOMAIN scripts |-> IF p \in DOMAIN services THEN services[p]
                                                 ELSE <<generated, existing>>]
    BY <1>12 DEF UpdateServices
  <2>2. pass'.at = "idle" /\ pass'.built = pass.built
    BY <2>1 DEF Idle
  <2>3. installed # NotInstalled /\ installed.path = Hash(pass.built)
        /\ DOMAIN scripts = {installed.path}
    BY <2>1 DEF BuiltFrom, OneScript
  <2>4. OneScript' /\ SameOptions' /\ GeneratedFirst'
    BY <1>3, <2>1, <2>2 DEF OneScript, SameOptions, GeneratedFirst
  <2>5. BuiltFrom'
    BY <2>1, <2>2, <2>3 DEF BuiltFrom
  <2>6. ReadLater'
    <3>1. Names(installed.path)
      BY <2>3 DEF GeneratedFirst
    <3>2. DOMAIN services' = {installed.path} /\
          services'[installed.path] = IF installed.path \in DOMAIN services
                                      THEN services[installed.path] ELSE <<generated, existing>>
      BY <2>1, <2>3
    <3>3. CASE installed.path \in DOMAIN services
      BY <2>1, <3>2, <3>3 DEF ReadLater
    <3>4. CASE installed.path \notin DOMAIN services
      <4>1. PICK path : path = installed.path
        OBVIOUS
      <4>2. \E g \in Bytes \cup {NoFile} : \E e, f \in Bytes :
              /\ path = Hash(<<g, e>>) /\ <<generated, existing>> = <<g, f>>
              /\ Len(e) <= Len(f) /\ Len(f) <= Len(existing)
        <5>1. Names(path)
          BY <3>1, <4>1 DEF Names
        <5> QED BY <5>1, ReadNow
      <4>3. DOMAIN services' = {path} /\ services'[path] = <<generated, existing>>
        BY <3>2, <3>4, <4>1
      <4> QED BY <2>1, <4>2, <4>3 DEF ReadLater
    <3> QED BY <3>3, <3>4
  <2> QED BY <2>4, <2>5, <2>6
<1>13. CASE KillPass
  <2>1. pass.at \notin {"write", "record"} /\ pass' = Idle
        /\ UNCHANGED <<generated, existing, installed, scripts, services>>
    BY <1>13 DEF KillPass
  <2>2. pass'.at = "idle" /\ pass'.built = Nothing
    BY <2>1 DEF Idle
  <2> QED BY <1>3, <2>1, <2>2 DEF OneScript, SameOptions, GeneratedFirst, BuiltFrom
<1>14. CASE ChangeParameters
  BY <1>3, <1>14 DEF ChangeParameters, OneScript, SameOptions, GeneratedFirst, BuiltFrom
<1>15. CASE ChangeExisting
  <2>1. UNCHANGED <<generated, pass, installed, scripts, services>>
    BY <1>15 DEF ChangeExisting
  <2>2. Len(existing') \in Nat
    BY BytesAre DEF WrapperTypeOK
  <2>3. Len(existing) <= Len(existing')
    <3>1. ~(Len(existing') < Len(existing))
      BY <1>15, Zenon DEF ChangeExisting
    <3> QED BY <1>2, <2>2, <3>1
  <2>4. (\A path : Names(path) => Names(path)') /\ ReadLater'
    BY <2>1, <2>3, LaterStays
  <2> QED BY <2>1, <2>4 DEF OneScript, SameOptions, GeneratedFirst, BuiltFrom
<1>16. ASSUME NEW path \in DOMAIN services, RestartService(path)
       PROVE  WrapperSound'
  <2>1. UNCHANGED <<generated, existing, pass, installed, scripts>>
    BY <1>16 DEF RestartService
  <2>2. OneScript' /\ SameOptions' /\ GeneratedFirst'
    BY <1>3, <2>1 DEF OneScript, SameOptions, GeneratedFirst
  <2>3. CASE path \in DOMAIN scripts /\ scripts[path] = "whole"
    <3>1. services' = Put(services, path, <<generated, existing>>)
      BY <1>16, <2>3 DEF RestartService
    <3>2. /\ DOMAIN services' = DOMAIN services
          /\ services'[path] = <<generated, existing>>
          /\ \A p \in DOMAIN services \ {path} : services'[p] = services[p]
      <4>1. /\ DOMAIN Put(services, path, <<generated, existing>>) = DOMAIN services \cup {path}
            /\ Put(services, path, <<generated, existing>>)[path] = <<generated, existing>>
            /\ \A p \in DOMAIN services \ {path} :
                 Put(services, path, <<generated, existing>>)[p] = services[p]
        <5>1. PICK files : files = <<generated, existing>>
          OBVIOUS
        <5>2. /\ DOMAIN Put(services, path, files) = DOMAIN services \cup {path}
              /\ Put(services, path, files)[path] = files
              /\ \A p \in DOMAIN services \ {path} :
                   Put(services, path, files)[p] = services[p]
          BY DEF Put
        <5> QED BY <5>1, <5>2
      <4> QED BY <1>16, <3>1, <4>1
    <3>3. Names(path)
      BY <2>3 DEF OneScript, GeneratedFirst
    <3>4. ReadLater'
      <4> SUFFICES ASSUME NEW p \in DOMAIN services
                   PROVE  \E g \in Bytes \cup {NoFile} : \E e, f \in Bytes :
                            /\ p = Hash(<<g, e>>) /\ services'[p] = <<g, f>>
                            /\ Len(e) <= Len(f) /\ Len(f) <= Len(existing)
        BY <2>1, <3>2 DEF ReadLater
      <4>1. CASE p = path
        BY <3>2, <3>3, <4>1, ReadNow
      <4>2. CASE p # path
        BY <3>2, <4>2 DEF ReadLater
      <4> QED BY <4>1, <4>2
    <3>5. BuiltFrom'
      BY <2>1, <3>2 DEF BuiltFrom
    <3> QED BY <2>2, <3>4, <3>5
  <2>4. CASE ~(path \in DOMAIN scripts /\ scripts[path] = "whole")
    <3>1. services' = Keep(services, DOMAIN services \ {path})
      BY <1>16, <2>4 DEF RestartService
    <3>2. DOMAIN services' = DOMAIN services \ {path}
          /\ \A p \in DOMAIN services \ {path} : services'[p] = services[p]
      <4>1. /\ DOMAIN Keep(services, DOMAIN services \ {path}) =
               DOMAIN services \cap (DOMAIN services \ {path})
            /\ \A p \in DOMAIN services \cap (DOMAIN services \ {path}) :
                 Keep(services, DOMAIN services \ {path})[p] = services[p]
        BY KeepIs
      <4> QED BY <3>1, <4>1
    <3>3. ReadLater'
      BY <2>1, <3>2 DEF ReadLater
    <3>4. ~(pass.at = "idle" /\ pass.built # Nothing)
      BY <1>16, <2>4 DEF BuiltFrom, OneScript
    <3>5. BuiltFrom'
      BY <2>1, <3>4 DEF BuiltFrom
    <3> QED BY <2>2, <3>3, <3>5
  <2> QED BY <2>3, <2>4
<1>17. CASE UNCHANGED wrapperVars
  BY <1>3, <1>17 DEF wrapperVars, OneScript, SameOptions, GeneratedFirst, BuiltFrom
<1> QED
  BY <1>4, <1>5, <1>6, <1>7, <1>8, <1>9, <1>10, <1>11, <1>12, <1>13, <1>14, <1>15, <1>16, <1>17
  DEF WrapperNext, Buildout

LEMMA WrapperInvStep == WrapperInv /\ [WrapperNext]_wrapperVars => WrapperInv'
<1> SUFFICES ASSUME WrapperInv, [WrapperNext]_wrapperVars, ~excepted'
             PROVE  WrapperTypeOK' /\ WrapperSound'
  BY WrapperTypeStep DEF WrapperInv
<1>1. ~excepted
  BY DEF WrapperNext, Buildout, Begin, Uninstall, Generate, InstallWrapper, OpenScript,
         WriteScript, Record, UpdateWrapper, UpdateServices, KillPass, ChangeParameters,
         ChangeExisting, RestartService, wrapperVars
<1> QED BY <1>1, WrapperTypeStep, WrapperSoundStep DEF WrapperInv

LEMMA FreshIfSound == WrapperInv => ServiceIsFresh
<1> SUFFICES ASSUME WrapperTypeOK, WrapperSound, pass.at = "idle",
                    pass.built = <<wanted, existing>>
             PROVE  /\ DOMAIN services = {WrapperPath}
                    /\ services[WrapperPath] = <<wanted, existing>>
  BY DEF WrapperInv, ServiceIsFresh
<1> USE DEF WrapperSound
<1>1. generated = wanted /\ DOMAIN services = {Hash(pass.built)}
  BY TwoElements DEF BuiltFrom
<1>2. WrapperPath = Hash(<<wanted, existing>>) /\ DOMAIN services = {WrapperPath}
  BY <1>1, NowTyped
<1>3. PICK g \in Bytes \cup {NoFile}, e \in Bytes, f \in Bytes :
        /\ WrapperPath = Hash(<<g, e>>) /\ services[WrapperPath] = <<g, f>>
        /\ Len(e) <= Len(f) /\ Len(f) <= Len(existing)
  BY <1>2 DEF ReadLater
<1>4. g = wanted /\ e = existing
  <2>1. g \in Seq(Nat) /\ e \in Seq(Nat) /\ wanted \in Seq(Nat) /\ existing \in Seq(Nat)
    BY BytesAre DEF WrapperTypeOK
  <2>2. Hash(<<g, e>>) = Hash(<<wanted, existing>>)
    BY <1>2, <1>3
  <2> QED BY <2>1, <2>2, HashInjective
<1>5. f = existing
  <2>1. Len(f) = Len(existing)
    BY <1>3, <1>4, BytesAre
  <2> QED BY <2>1, BytesAre DEF WrapperTypeOK
<1> QED BY <1>2, <1>3, <1>4, <1>5

\* For any files and any number of passes, kills, changes and restarts of the service: after
\* a pass that succeeded the service is there once, and has read what the script is named
\* after, unless a pass was killed between the script and its record, or the existing file
\* is again what it has been.
THEOREM ServiceReadsItsFiles == WrapperSpec => []ServiceIsFresh
<1>1. WrapperSpec => []WrapperInv
  BY WrapperInvInit, WrapperInvStep, PTL DEF WrapperSpec
<1> QED BY <1>1, FreshIfSound, PTL
=============================================================================
