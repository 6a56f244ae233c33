--------------------------- MODULE Instances_proofs ---------------------------
(* Instances that serve others: the authorities and the registry, whose pairs of *)
(* files go together, and the tree of a NEO cluster, which is one.              *)
EXTENDS MCAuthorities, InstanceTree, FiniteSetTheorems, TLAPS

-----------------------------------------------------------------------------
(* A number that no file bears always exists. *)

LEMMA ImageIsSmall ==
  ASSUME NEW S, IsFiniteSet(S), NEW f \in [S -> Nat]
  PROVE  /\ IsFiniteSet({f[x] : x \in S})
         /\ Cardinality({f[x] : x \in S}) <= Cardinality(S)
<1> DEFINE T == {f[x] : x \in S}
<1>1. f \in Surjection(S, T)
  BY DEF Surjection
<1> HIDE DEF T
<1> QED
  BY <1>1, FS_Surjection DEF T

LEMMA UnionIsSmall ==
  ASSUME NEW S, NEW T, NEW m \in Nat, NEW n \in Nat, IsFiniteSet(S), IsFiniteSet(T),
         Cardinality(S) <= m, Cardinality(T) <= n
  PROVE  IsFiniteSet(S \cup T) /\ Cardinality(S \cup T) <= m + n
<1>1. /\ IsFiniteSet(S \cup T)
      /\ Cardinality(S \cup T) = Cardinality(S) + Cardinality(T) - Cardinality(S \cap T)
  BY FS_Union
<1>2. IsFiniteSet(S \cap T)
  BY FS_Intersection
<1>3. Cardinality(S) \in Nat /\ Cardinality(T) \in Nat /\ Cardinality(S \cap T) \in Nat
  BY <1>2, FS_CardinalityType
<1> QED
  BY <1>1, <1>3

LEMMA SingletonIsSmall == \A x : IsFiniteSet({x}) /\ Cardinality({x}) <= 1
<1> TAKE x
<1>1. IsFiniteSet({x}) /\ Cardinality({x}) = 1
  BY FS_Singleton
<1> QED
  BY <1>1

\* Of more numbers than there are in a set, one is not in it.
LEMMA OneIsNew ==
  ASSUME NEW U, NEW m \in Nat, NEW n \in Nat, IsFiniteSet(U), Cardinality(U) < n
  PROVE  \E i \in (m + 1)..(m + n) : i \notin U
<1> SUFFICES ASSUME (m + 1)..(m + n) \subseteq U PROVE FALSE
  OBVIOUS
<1>1. Cardinality((m + 1)..(m + n)) = n
  BY FS_Interval
<1>2. Cardinality((m + 1)..(m + n)) <= Cardinality(U)
  BY FS_Subset
<1>3. Cardinality(U) \in Nat
  BY FS_CardinalityType
<1> QED
  BY <1>1, <1>2, <1>3

-----------------------------------------------------------------------------
(* The certificate authority. *)

CaSteps == {"dead", "authority", "next", "clean", "openKey", "writeKey", "openCert", "writeCert"}
GivingSteps == {"openKey", "writeKey", "openCert", "writeCert"}

CaTypeOK ==
  /\ request \in [Names -> {"none", "part", "full"}]
  /\ key \in [Pairs -> Nat] /\ cert \in [Pairs -> Nat] /\ signer \in [Pairs -> Nat]
  /\ ca \in [at : CaSteps, name : Pairs, id : Nat, todo : SUBSET Names]
  /\ recipe \in [at : {"idle", "open", "write"} \cup GivingSteps, name : Pairs, id : Nat,
                 alone : BOOLEAN]
  /\ recipe.at # "idle" => recipe.name \in Names
  /\ mixed \subseteq Names

\* The authority has its pair, and has signed with nothing else.
WholeCa == key[CA] > Part /\ cert[CA] = key[CA]
SignedByCa == \A n \in Names : signer[n] # None => signer[n] = key[CA] /\ WholeCa

\* What the authority makes: while it makes its own pair it has none, and it signs another
\* with the pair that it has.
CaSound ==
  /\ Making /\ ca.name = CA => ~WholeCa
  /\ ca.at = "writeCert" /\ ca.name # CA => WholeCa
  /\ cert[CA] > Part => signer[CA] = key[CA]

\* The files of a pair that the authority makes, if no other pair is given in its place.
MakingSound ==
  ca.name \notin mixed =>
    /\ ca.at \in {"openKey", "writeKey", "openCert"} => cert[ca.name] = None
    /\ ca.at = "writeCert" => cert[ca.name] = Part
    /\ ca.at \in {"openCert", "writeCert"} => key[ca.name] = ca.id

\* A pair is mixed while it is given; the recipe knows whether it is alone with it.
GivingSound ==
  recipe.at \in GivingSteps =>
    /\ recipe.name \in mixed
    /\ recipe.alone =>
         /\ ca.at \in {"openKey", "writeKey", "openCert", "writeCert"} => ca.name # recipe.name
         /\ recipe.at \in {"openCert", "writeCert"} => key[recipe.name] = recipe.id

CaInv == /\ CaTypeOK /\ SignedByCa /\ CaSound /\ MakingSound /\ GivingSound /\ CertificatesHold

LEMMA NewPairIsNew ==
  ASSUME CaTypeOK
  PROVE  NewPair \in Nat /\ NewPair > Part
<1> DEFINE c == Cardinality(Pairs)
           K == {key[n] : n \in Pairs}
           C == {cert[n] : n \in Pairs}
           S == {signer[n] : n \in Pairs}
           U == ((K \cup C) \cup S) \cup ({ca.id} \cup {recipe.id})
<1>1. IsFiniteSet(Pairs) /\ c \in Nat
  BY CaAssumption, FS_AddElement, FS_CardinalityType DEF Pairs
<1>2. IsFiniteSet(K) /\ IsFiniteSet(C) /\ IsFiniteSet(S)
      /\ Cardinality(K) <= c /\ Cardinality(C) <= c /\ Cardinality(S) <= c
  BY <1>1, ImageIsSmall DEF CaTypeOK
<1>3. IsFiniteSet({ca.id}) /\ Cardinality({ca.id}) <= 1
      /\ IsFiniteSet({recipe.id}) /\ Cardinality({recipe.id}) <= 1
  BY SingletonIsSmall
<1>4. IsFiniteSet(U) /\ Cardinality(U) <= 3 * c + 2
  <2> HIDE DEF c, K, C, S
  <2>0. c + c \in Nat /\ (c + c) + c \in Nat /\ 1 + 1 \in Nat /\ 1 \in Nat
    BY <1>1
  <2>1. IsFiniteSet(K \cup C) /\ Cardinality(K \cup C) <= c + c
    BY <1>1, <1>2, UnionIsSmall
  <2>2. IsFiniteSet((K \cup C) \cup S) /\ Cardinality((K \cup C) \cup S) <= (c + c) + c
    BY <1>1, <1>2, <2>0, <2>1, UnionIsSmall
  <2>3. IsFiniteSet({ca.id} \cup {recipe.id}) /\ Cardinality({ca.id} \cup {recipe.id}) <= 1 + 1
    BY <1>3, <2>0, UnionIsSmall
  <2>4. IsFiniteSet(U) /\ Cardinality(U) <= ((c + c) + c) + (1 + 1)
    BY <2>0, <2>2, <2>3, UnionIsSmall
  <2> QED
    BY <1>1, <2>4
<1>5. \E i \in (Part + 1)..(Part + (3 * c + 3)) : i \notin U
  <2> HIDE DEF c, U
  <2>1. Cardinality(U) \in Nat
    BY <1>4, FS_CardinalityType
  <2>2. Cardinality(U) < 3 * c + 3 /\ 3 * c + 3 \in Nat /\ Part \in Nat
    BY <1>1, <1>4, <2>1 DEF Part
  <2> QED
    BY <1>4, <2>2, OneIsNew
<1>6. \E i \in (Part + 1)..(Part + 3 * c + 3) :
        /\ \A n \in Pairs : i \notin {key[n], cert[n], signer[n]}
        /\ i \notin {ca.id, recipe.id}
  <2>1. Part + (3 * c + 3) = Part + 3 * c + 3
    BY <1>1 DEF Part
  <2> QED
    BY <1>5, <2>1
<1>7. NewPair \in (Part + 1)..(Part + 3 * c + 3)
  BY <1>6 DEF NewPair
<1> HIDE DEF c
<1> QED
  BY <1>1, <1>7 DEF Part

LEMMA CaInvInit == CaInit => CaInv
<1> SUFFICES ASSUME CaInit PROVE CaInv
  OBVIOUS
<1>1. CaTypeOK
  BY DEF CaInit, CaTypeOK, CaSteps, GivingSteps, Dead, Done, None, Pairs
<1>2. \A n \in Pairs : key[n] = None /\ cert[n] = None /\ signer[n] = None
  BY DEF CaInit
<1>3. ca = Dead /\ recipe = Done /\ mixed = {} /\ CA \in Pairs
  BY DEF CaInit, Pairs
<1> QED
  BY <1>1, <1>2, <1>3
  DEF CaInv, SignedByCa, CaSound, MakingSound, GivingSound, CertificatesHold, WholeCa, Making, Dead,
      Done, None, Part, Pairs, GivingSteps

LEMMA CaInvStep == CaInv /\ [CaNext]_caVars => CaInv'
<1> SUFFICES ASSUME CaInv, [CaNext]_caVars
             PROVE  CaInv'
  OBVIOUS
<1> USE DEF CaInv, CaTypeOK, SignedByCa, CaSound, MakingSound, GivingSound, CertificatesHold,
            WholeCa, Making, CaSteps, GivingSteps, None, Part, Pairs, files
<1>0. CA \notin Names
  BY CaAssumption
<1>1. CASE CaStart
  BY <1>0, <1>1 DEF CaStart, Goto
<1>2. CASE CheckAuthority
  <2>1. CaTypeOK'
    BY <1>0, <1>2 DEF CheckAuthority, Ready
  <2>2. SignedByCa'
    BY <1>0, <1>2 DEF CheckAuthority, Ready
  <2>3. CaSound'
    BY <1>0, <1>2 DEF CheckAuthority, Ready
  <2>4. MakingSound'
    BY <1>0, <1>2 DEF CheckAuthority, Ready
  <2>5. GivingSound'
    BY <1>0, <1>2 DEF CheckAuthority, Ready
  <2>6. CertificatesHold'
    BY <1>0, <1>2 DEF CheckAuthority, Ready
  <2> QED
    BY <2>1, <2>2, <2>3, <2>4, <2>5, <2>6
<1>3. ASSUME NEW n \in Names, CheckCertificate(n)
      PROVE  CaInv'
  BY <1>0, <1>3 DEF CheckCertificate, Ready, Dead
<1>4. CASE Poll
  BY <1>0, <1>4 DEF Poll, Goto
<1>5. CASE Clean
  <2>1. CaTypeOK'
    BY <1>0, <1>5 DEF Clean, Goto
  <2>2. SignedByCa'
    BY <1>0, <1>5 DEF Clean, Goto
  <2>3. CaSound'
    BY <1>0, <1>5 DEF Clean, Goto
  <2>4. MakingSound'
    BY <1>0, <1>5 DEF Clean, Goto
  <2>5. GivingSound'
    BY <1>0, <1>5 DEF Clean, Goto
  <2>6. CertificatesHold'
    BY <1>0, <1>5 DEF Clean, Goto
  <2> QED
    BY <2>1, <2>2, <2>3, <2>4, <2>5, <2>6
<1>6. CASE OpenKey
  BY <1>0, <1>6 DEF OpenKey, Goto
<1>7. CASE WriteKey
  <2>1. CaTypeOK'
    BY <1>0, <1>7, NewPairIsNew DEF WriteKey
  <2>2. SignedByCa'
    BY <1>0, <1>7, NewPairIsNew DEF WriteKey
  <2>3. CaSound'
    BY <1>0, <1>7, NewPairIsNew DEF WriteKey
  <2>4. MakingSound'
    BY <1>0, <1>7, NewPairIsNew DEF WriteKey
  <2>5. GivingSound'
    BY <1>0, <1>7, NewPairIsNew DEF WriteKey
  <2>6. CertificatesHold'
    BY <1>0, <1>7, NewPairIsNew DEF WriteKey
  <2> QED
    BY <2>1, <2>2, <2>3, <2>4, <2>5, <2>6
<1>8. CASE OpenCert
  BY <1>0, <1>8 DEF OpenCert, CanSign, Goto
<1>9. CASE WriteCert
  BY <1>0, <1>9 DEF WriteCert, Dead
<1>10. CASE OpensslFails
  BY <1>0, <1>10 DEF OpensslFails, Dead
<1>11. CASE CaKill
  BY <1>0, <1>11 DEF CaKill, Dead
<1>12. ASSUME NEW n \in Names, NEW given \in BOOLEAN, Install(n, given)
       PROVE  CaInv'
  BY <1>0, <1>12, NewPairIsNew DEF Install
<1>13. CASE WriteRequest
  <2>1. CaTypeOK'
    <3>1. CASE recipe.at = "open"
      BY <1>13, <3>1 DEF WriteRequest
    <3>2. CASE recipe.at = "write"
      <4>1. recipe' = Done /\ UNCHANGED ca /\ recipe.name \in Names
        BY <1>13, <3>2 DEF WriteRequest
      <4>2. /\ request' \in [Names -> {"none", "part", "full"}]
            /\ key' \in [Pairs -> Nat] /\ cert' \in [Pairs -> Nat] /\ signer' \in [Pairs -> Nat]
            /\ mixed' \subseteq Names
        BY <1>13, <3>2 DEF WriteRequest
      <4> QED
        BY <4>1, <4>2 DEF Done
    <3> QED
      BY <1>13, <3>1, <3>2 DEF WriteRequest
  <2>2. SignedByCa'
    BY <1>0, <1>13 DEF WriteRequest, Done
  <2>3. CaSound'
    BY <1>0, <1>13 DEF WriteRequest, Done
  <2>4. MakingSound'
    BY <1>0, <1>13 DEF WriteRequest, Done
  <2>5. GivingSound'
    BY <1>0, <1>13 DEF WriteRequest, Done
  <2>6. CertificatesHold'
    BY <1>0, <1>13 DEF WriteRequest, Done
  <2> QED
    BY <2>1, <2>2, <2>3, <2>4, <2>5, <2>6
<1>14. CASE GiveKey
  BY <1>0, <1>14 DEF GiveKey
<1>15. CASE GiveCert
  <2>1. CaTypeOK'
    <3>1. CASE recipe.at = "openCert"
      BY <1>15, <3>1 DEF GiveCert
    <3>2. CASE recipe.at = "writeCert"
      <4>1. recipe' = Done /\ UNCHANGED ca /\ recipe.name \in Names
        BY <1>15, <3>2 DEF GiveCert
      <4>2. /\ request' \in [Names -> {"none", "part", "full"}]
            /\ key' \in [Pairs -> Nat] /\ cert' \in [Pairs -> Nat] /\ signer' \in [Pairs -> Nat]
            /\ mixed' \subseteq Names
        BY <1>15, <3>2 DEF GiveCert
      <4> QED
        BY <4>1, <4>2 DEF Done
    <3> QED
      BY <1>15, <3>1, <3>2 DEF GiveCert
  <2>2. SignedByCa'
    BY <1>0, <1>15 DEF GiveCert, Done
  <2>3. CaSound'
    BY <1>0, <1>15 DEF GiveCert, Done
  <2>4. MakingSound'
    BY <1>0, <1>15 DEF GiveCert, Done
  <2>5. GivingSound'
    BY <1>0, <1>15 DEF GiveCert, Done
  <2>6. CertificatesHold'
    BY <1>0, <1>15 DEF GiveCert, Done
  <2> QED
    BY <2>1, <2>2, <2>3, <2>4, <2>5, <2>6
<1>16. CASE RecipeKill
  BY <1>0, <1>16 DEF RecipeKill, Done
<1>17. CASE UNCHANGED caVars
  BY <1>0, <1>17 DEF caVars
<1> QED
  BY <1>1, <1>2, <1>3, <1>4, <1>5, <1>6, <1>7, <1>8, <1>9, <1>10, <1>11, <1>12, <1>13, <1>14, <1>15,
     <1>16, <1>17 DEF CaNext, Authority, CaRecipe

\* For any names, installations, failures and kills, a certificate is that of its key.
THEOREM CertificatesAreOfTheirKeys == CaSpec => []CertificatesHold
<1>1. CaInv => CertificatesHold
  BY DEF CaInv
<1> QED
  BY <1>1, CaInvInit, CaInvStep, PTL DEF CaSpec

-----------------------------------------------------------------------------
(* The authority of ssh keys. *)

KeySteps == {"clean", "openPrivate", "writePrivate", "openPublic", "writePublic", "public",
             "openDerived", "writeDerived"}

SshTypeOK ==
  /\ private \in [Keys -> Nat] /\ public \in [Keys -> Nat]
  /\ ssh \in [at : {"dead", "list", "next"} \cup KeySteps, name : Keys \cup {"none"},
              todo : SUBSET Keys]
  /\ ssh.at \in KeySteps => ssh.name \in Keys
  /\ events \subseteq Keys
  /\ sshRecipe \in {Free} \cup [at : {"open", "write"}, name : Keys]

\* A private key is made where there is none, once its public key is removed.
KeyIsNew ==
  /\ ssh.at = "clean" => private[ssh.name] = NoKey
  /\ ssh.at \in {"openPrivate", "writePrivate"} => public[ssh.name] = NoKey

SshInv == SshTypeOK /\ KeyIsNew /\ KeysMatch

LEMMA NewKeyIsNew ==
  ASSUME SshTypeOK
  PROVE  NewKey \in Nat
<1> DEFINE c == Cardinality(Keys)
           P == {private[k] : k \in Keys}
           Q == {public[k] : k \in Keys}
           U == P \cup Q
<1>1. IsFiniteSet(Keys) /\ c \in Nat
  BY SshAssumption, FS_CardinalityType
<1>2. IsFiniteSet(P) /\ IsFiniteSet(Q) /\ Cardinality(P) <= c /\ Cardinality(Q) <= c
  BY <1>1, ImageIsSmall DEF SshTypeOK
<1>3. IsFiniteSet(U) /\ Cardinality(U) <= c + c
  <2> HIDE DEF c, P, Q
  <2> QED
    BY <1>1, <1>2, UnionIsSmall
<1>4. \E i \in (1 + 1)..(1 + (2 * c + 1)) : i \notin U
  <2> HIDE DEF c, U
  <2>1. Cardinality(U) \in Nat
    BY <1>3, FS_CardinalityType
  <2>2. Cardinality(U) < 2 * c + 1 /\ 2 * c + 1 \in Nat /\ 1 \in Nat
    BY <1>1, <1>3, <2>1
  <2> QED
    BY <1>3, <2>2, OneIsNew
<1>5. \E i \in 2..(2 + 2 * c) : \A k \in Keys : i \notin {private[k], public[k]}
  <2>1. 1 + (2 * c + 1) = 2 + 2 * c
    BY <1>1
  <2> QED
    BY <1>4, <2>1
<1>6. NewKey \in 2..(2 + 2 * c)
  BY <1>5 DEF NewKey
<1> HIDE DEF c
<1> QED
  BY <1>1, <1>6

LEMMA SshInvInit == SshInit => SshInv
  BY DEF SshInit, SshInv, SshTypeOK, KeySteps, KeyIsNew, KeysMatch, Gone, Free, NoKey, HalfKey

LEMMA SshInvStep == SshInv /\ [SshNext]_sshVars => SshInv'
<1> SUFFICES ASSUME SshInv, [SshNext]_sshVars
             PROVE  SshInv'
  OBVIOUS
<1> USE DEF SshInv, SshTypeOK, KeySteps, KeyIsNew, KeysMatch, NoKey, HalfKey, keyFiles,
            AuthorityOnly, Step
<1>1. CASE Watch
  BY <1>1 DEF Watch
<1>2. CASE List
  BY <1>2 DEF List
<1>3. CASE ReadEvents
  BY <1>3 DEF ReadEvents
<1>4. CASE ListAgain
  BY <1>4 DEF ListAgain
<1>5. ASSUME NEW k \in Keys, ReadRequest(k)
      PROVE  SshInv'
  BY <1>5 DEF ReadRequest, Gone
<1>6. CASE RemovePublic
  BY <1>6 DEF RemovePublic
<1>7. CASE MakePrivate
  BY <1>7, NewKeyIsNew DEF MakePrivate
<1>8. CASE MakePublic
  BY <1>8 DEF MakePublic
<1>9. CASE DerivePublic
  <2>1. \/ ssh' = [ssh EXCEPT !.at = "next", !.name = "none"]
        \/ ssh' = [ssh EXCEPT !.at = "openDerived"] /\ ssh.name \in Keys
        \/ ssh' = Gone
    BY <1>9 DEF DerivePublic
  <2>2. ssh' \in [at : {"dead", "next", "openDerived"}, name : Keys \cup {"none"},
                  todo : SUBSET Keys]
        /\ (ssh'.at = "openDerived" => ssh'.name \in Keys)
    <3>1. CASE ssh' = [ssh EXCEPT !.at = "next", !.name = "none"]
      BY <3>1
    <3>2. CASE ssh' = [ssh EXCEPT !.at = "openDerived"] /\ ssh.name \in Keys
      BY <3>2
    <3>3. CASE ssh' = Gone
      BY <3>3 DEF Gone
    <3> QED
      BY <2>1, <3>1, <3>2, <3>3
  <2>3. UNCHANGED <<private, public, events, sshRecipe>> /\ SshTypeOK
    BY <1>9 DEF DerivePublic
  <2>4. SshTypeOK' /\ KeyIsNew' /\ KeysMatch'
    BY <2>2, <2>3
  <2> QED
    BY <2>4
<1>10. CASE WriteDerived
  <2>1. SshTypeOK'
    <3>1. CASE ssh.at = "openDerived"
      BY <1>10, <3>1 DEF WriteDerived
    <3>2. CASE ssh.at = "writeDerived"
      <4>1. ssh' = [ssh EXCEPT !.at = "next", !.name = "none"]
        BY <1>10, <3>2 DEF WriteDerived
      <4>2. ssh' \in [at : {"next"}, name : {"none"}, todo : SUBSET Keys]
        BY <4>1
      <4> QED
        BY <1>10, <4>2 DEF WriteDerived
    <3> QED
      BY <1>10, <3>1, <3>2 DEF WriteDerived
  <2>2. KeyIsNew'
    BY <1>10 DEF WriteDerived
  <2>3. KeysMatch'
    BY <1>10 DEF WriteDerived
  <2> QED
    BY <2>1, <2>2, <2>3
<1>11. CASE SshKill
  BY <1>11 DEF SshKill, Gone
<1>12. CASE WriteAsked
  BY <1>12 DEF WriteAsked, RecipeOnly, Free
<1>13. CASE KillInstall
  BY <1>13 DEF KillInstall, RecipeOnly
<1>14. ASSUME NEW k \in Keys, Reinstall(k)
       PROVE  SshInv'
  BY <1>14 DEF Reinstall, RecipeOnly, Free
<1>15. ASSUME NEW k \in Keys, LoseKey(k)
       PROVE  SshInv'
  BY <1>15 DEF LoseKey
<1>16. CASE UNCHANGED sshVars
  BY <1>16 DEF sshVars
<1> QED
  BY <1>1, <1>2, <1>3, <1>4, <1>5, <1>6, <1>7, <1>8, <1>9, <1>10, <1>11, <1>12, <1>13, <1>14, <1>15,
     <1>16 DEF SshNext, KeyAuthority

\* For any keys, installations, failures and kills, and both generators, the two files of a
\* key go together.
THEOREM KeysAreOfOnePair == SshSpec => []KeysMatch
<1>1. SshInv => KeysMatch
  BY DEF SshInv
<1> QED
  BY <1>1, SshInvInit, SshInvStep, PTL DEF SshSpec

-----------------------------------------------------------------------------
(* The registry of re6st. *)

RegistryTypeOK ==
  /\ dhFile \in Nat /\ keyFile \in Nat /\ certFile \in Nat /\ lastKey \in Nat
  /\ lastKey >= Begun
  /\ generate \in {"none", "dhOpen", "dhWrite", "dhDone", "keyOpen", "keyWrite", "certOpen",
                   "certWrite", "installed"}

\* What is half written is being written, and what a step finds is made; unless a pass was
\* killed while openssl wrote.
RegistrySound ==
  /\ dhFile = Begun => generate = "dhWrite"
  /\ certFile = Begun => generate = "certWrite"
  /\ generate \notin {"none", "dhOpen", "dhWrite"} => dhFile > Begun
  /\ generate \in {"keyOpen", "keyWrite", "certOpen"} => certFile = Nothing
  /\ generate \in {"certOpen", "certWrite"} => keyFile > Begun
  /\ certFile > Begun => certFile = keyFile
  /\ generate = "installed" => certFile > Begun

RegistryInv == RegistryTypeOK /\ (~tornFile => RegistrySound)

LEMMA RegistryInvInit == RegistryInit => RegistryInv
  BY DEF RegistryInit, RegistryInv, RegistryTypeOK, RegistrySound, Nothing, Begun

LEMMA RegistryInvStep == RegistryInv /\ [RegistryNext]_registryVars => RegistryInv'
<1> SUFFICES ASSUME RegistryInv, [RegistryNext]_registryVars
             PROVE  RegistryInv'
  OBVIOUS
<1> USE DEF RegistryInv, RegistryTypeOK, RegistrySound, Nothing, Begun, FirstKey
<1>1. CASE CheckFiles
  BY <1>1 DEF CheckFiles
<1>2. CASE MakeParameters
  BY <1>2 DEF MakeParameters
<1>3. CASE MakeKey
  BY <1>3 DEF MakeKey
<1>4. CASE MakeCertificate
  BY <1>4 DEF MakeCertificate
<1>5. CASE OpensslRaises
  BY <1>5 DEF OpensslRaises
<1>6. CASE KillRegistry
  BY <1>6 DEF KillRegistry
<1>7. CASE UNCHANGED registryVars
  BY <1>7 DEF registryVars
<1> QED
  BY <1>1, <1>2, <1>3, <1>4, <1>5, <1>6, <1>7 DEF RegistryNext

\* For any number of failures and kills, a registry that is installed has the key of its
\* certificate.
THEOREM RegistryHasItsPair == RegistrySpec => []RegistryHolds
<1>1. RegistryInv => RegistryHolds
  BY DEF RegistryInv, RegistryTypeOK, RegistrySound, RegistryHolds
<1> QED
  BY <1>1, RegistryInvInit, RegistryInvStep, PTL DEF RegistrySpec

-----------------------------------------------------------------------------
(* The three beside each other, as TLC runs them. *)

LEMMA NextOfEach ==
  [Next]_allVars => [CaNext]_caVars /\ [SshNext]_sshVars /\ [RegistryNext]_registryVars
  BY DEF Next, OfCa, OfSsh, OfRegistry, allVars, caVars, sshVars, registryVars

\* Whatever was killed or failed in any of the three, the two files of each pair go together.
THEOREM PairsAlwaysMatch == Spec => []PairsMatch
<1>1. Init => CaInv /\ SshInv /\ RegistryInv
  BY CaInvInit, SshInvInit, RegistryInvInit DEF Init
<1>2. CaInv /\ SshInv /\ RegistryInv /\ [Next]_allVars => (CaInv /\ SshInv /\ RegistryInv)'
  BY NextOfEach, CaInvStep, SshInvStep, RegistryInvStep
<1>3. CaInv /\ SshInv /\ RegistryInv => PairsMatch
  BY DEF CaInv, SshInv, RegistryInv, RegistryTypeOK, RegistrySound, RegistryHolds, PairsMatch
<1> QED
  BY <1>1, <1>2, <1>3, PTL DEF Spec

-----------------------------------------------------------------------------
(* The tree of a NEO cluster. *)

RootSteps == {"idle", "request", "again", "early", "frontend", "install"}
NodeParameters == [name : Nat, masters : SUBSET Nodes]

TreeTypeOK ==
  /\ requested \in [Nodes -> NodeParameters] /\ started \in [Nodes -> NodeParameters]
  /\ allocated \subseteq Nodes /\ addresses \subseteq allocated
  /\ published \in [name : Nat, masters : SUBSET Nodes, rest : BOOLEAN, url : BOOLEAN]
  /\ root \in [at : RootSteps, name : Nat, masters : SUBSET Nodes, found : SUBSET Nodes,
               failed : SUBSET Nodes, todo : SUBSET Nodes, url : BOOLEAN]
  /\ lastName \in Nat /\ earlyKills \in Nat

\* The pass of the root has the name that is published, if one is, and publishes its own.
PassHasName ==
  /\ root.at # "idle" => root.name # NoName
  /\ root.at # "idle" /\ published.name # NoName => root.name = published.name
  /\ root.at \in {"frontend", "install"} =>
       published.name = root.name /\ published.masters = root.masters
  /\ published.name = NoName => published.masters = {}

\* A pass sorts the nodes: their addresses are found, or they have failed, or are left to do;
\* and those that have not failed have the parameters of the pass.
PassSorts ==
  /\ root.at = "request" => Nodes \subseteq root.found \cup root.failed \cup root.todo
  /\ root.at \notin {"idle", "request"} =>
       Nodes \subseteq root.found \cup root.failed /\ root.masters = root.found
  /\ root.at \in {"early", "frontend", "install"} => root.todo = {}
  /\ root.at # "idle" =>
       \A n \in Nodes \ (root.failed \cup root.todo) :
         requested[n] = [name |-> root.name, masters |-> root.masters]

\* Before a name is published masters are given by a second round of requests only, for
\* which some pass must have been killed before: no address is there in the first one.
FirstPasses ==
  published.name = NoName =>
    /\ root.at = "request" => root.masters = {}
    /\ root.at # "again" /\ earlyKills <= 1 =>
         \A n \in Nodes : requested[n].masters = {} /\ started[n].name = NoName
    /\ earlyKills = 0 =>
         /\ root.at \in {"idle", "request", "early"} /\ root.found = {}
         /\ root.at = "idle" => allocated = {}
         /\ root.at = "request" => allocated \cap root.todo = {}

\* What a node starts with has the name that it then keeps.
ClusterName == IF published.name # NoName THEN published.name ELSE root.name
GivenName ==
  earlyKills <= 1 =>
    \A n \in Nodes : /\ requested[n].masters # {} => requested[n].name = ClusterName
                     /\ started[n].name # NoName => started[n].name = ClusterName

TreeInv == TreeTypeOK /\ PassHasName /\ PassSorts /\ FirstPasses /\ GivenName

LEMMA TreeInvInit == TreeInit => TreeInv
<1> SUFFICES ASSUME TreeInit PROVE TreeInv
  OBVIOUS
<1> USE DEF TreeInit, Asleep, Unknown, NoName
<1>1. TreeTypeOK
  <2>1. Unknown \in NodeParameters
    BY DEF NodeParameters
  <2> QED
    BY <2>1 DEF TreeTypeOK, RootSteps
<1>2. PassHasName /\ PassSorts /\ FirstPasses /\ GivenName
  BY DEF PassHasName, PassSorts, FirstPasses, GivenName
<1> QED
  BY <1>1, <1>2 DEF TreeInv

LEMMA TreeInvStep == TreeInv /\ [TreeNext]_treeVars => TreeInv'
<1> SUFFICES ASSUME TreeInv, [TreeNext]_treeVars
             PROVE  TreeInv'
  OBVIOUS
<1> USE DEF TreeInv, TreeTypeOK, PassHasName, PassSorts, FirstPasses, GivenName, ClusterName,
            RootSteps, NodeParameters, NoName
<1>1. CASE Pass
  <2>1. PICK name \in Nat \ {NoName} :
          /\ root.at = "idle" /\ lastName' \in Nat
          /\ root' = [at |-> "request", name |-> name, masters |-> published.masters, found |-> {},
                     failed |-> {}, todo |-> Nodes, url |-> FALSE]
          /\ published.name # NoName => name = published.name
          /\ UNCHANGED <<requested, allocated, addresses, started, published, earlyKills>>
    <3> DEFINE name == IF published.name = NoName THEN lastName + 1 ELSE published.name
    <3>1. name \in Nat \ {NoName}
      OBVIOUS
    <3>2. root' = [Asleep EXCEPT !.at = "request", !.todo = Nodes, !.masters = published.masters,
                                 !.name = name]
      BY <1>1 DEF Pass
    <3> HIDE DEF name
    <3>3. root' = [at |-> "request", name |-> name, masters |-> published.masters, found |-> {},
                   failed |-> {}, todo |-> Nodes, url |-> FALSE]
      BY <3>2 DEF Asleep
    <3>4. published.name # NoName => name = published.name
      BY DEF name
    <3>5. lastName' \in Nat
      BY <1>1 DEF Pass
    <3> QED
      BY <1>1, <3>1, <3>3, <3>4, <3>5 DEF Pass
  <2> QED
    BY <2>1
<1>2. ASSUME NEW n \in Nodes, NEW fails \in BOOLEAN, NEW sent \in BOOLEAN, Request(n, fails, sent)
      PROVE  TreeInv'
  <2> DEFINE answer == IF fails THEN {} ELSE {n} \cap addresses
  <2>1. root' = [root EXCEPT !.todo = @ \ {n}, !.failed = @ \cup ({n} \ answer),
                             !.found = IF root.at = "request" THEN @ \cup answer ELSE @]
    BY <1>2 DEF Request, Answer
  <2>2. /\ root.at \in {"request", "again"} /\ n \in root.todo
        /\ UNCHANGED <<addresses, started, published, lastName, earlyKills>>
        /\ \/ UNCHANGED <<requested, allocated>> /\ answer = {}
           \/ /\ requested' = [requested EXCEPT ![n] = [name |-> root.name,
                                                         masters |-> root.masters]]
              /\ allocated' = allocated \cup {n}
    BY <1>2 DEF Request
  <2> answer \subseteq {n} \cap addresses
    OBVIOUS
  <2> HIDE DEF answer
  <2>3. TreeTypeOK'
    <3>1. root' \in [at : {"request", "again"}, name : Nat, masters : SUBSET Nodes,
                     found : SUBSET Nodes, failed : SUBSET Nodes, todo : SUBSET Nodes,
                     url : BOOLEAN]
      BY <2>1, <2>2
    <3>2. requested' \in [Nodes -> NodeParameters] /\ allocated' \subseteq Nodes
          /\ addresses \subseteq allocated'
      BY <2>2
    <3> QED
      BY <2>2, <3>1, <3>2
  <2>4. PassHasName'
    BY <2>1, <2>2
  <2>5. PassSorts'
    BY <2>1, <2>2
  <2>6. FirstPasses'
    BY <2>1, <2>2
  <2>7. GivenName'
    BY <2>1, <2>2
  <2> QED
    BY <2>3, <2>4, <2>5, <2>6, <2>7
<1>3. CASE Cluster
  BY <1>3 DEF Cluster
<1>4. CASE PublishEarly
  BY <1>4 DEF PublishEarly
<1>5. ASSUME NEW fails \in BOOLEAN, NEW sent \in BOOLEAN, RequestFrontend(fails, sent)
      PROVE  TreeInv'
  BY <1>5 DEF RequestFrontend
<1>6. CASE Publish
  BY <1>6 DEF Publish, Asleep
<1>7. CASE Kill
  BY <1>7 DEF Kill, Asleep
<1>8. ASSUME NEW n \in Nodes, NodePublish(n)
      PROVE  TreeInv'
  BY <1>8 DEF NodePublish
<1>9. ASSUME NEW n \in Nodes, NodeInstall(n)
      PROVE  TreeInv'
  BY <1>9 DEF NodeInstall
<1>10. CASE FrontendReady
  BY <1>10 DEF FrontendReady
<1>11. CASE UNCHANGED treeVars
  BY <1>11 DEF treeVars
<1> QED
  BY <1>1, <1>2, <1>3, <1>4, <1>5, <1>6, <1>7, <1>8, <1>9, <1>10, <1>11 DEF TreeNext, Root

LEMMA InvOneCluster == TreeInv => OneCluster
<1> SUFFICES ASSUME TreeInv PROVE OneCluster
  OBVIOUS
<1>1. OneName
  BY DEF TreeInv, GivenName, ClusterName, OneName, NoName
<1>2. NodesAgree
  BY DEF TreeInv, TreeTypeOK, PassHasName, PassSorts, NodesAgree
<1> QED
  BY <1>1, <1>2 DEF OneCluster

\* For any number of nodes, kills and errors.
THEOREM ClusterIsOne == TreeSpec => []OneCluster
  BY TreeInvInit, TreeInvStep, InvOneCluster, PTL DEF TreeSpec
=============================================================================
