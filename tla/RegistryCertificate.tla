------------------------- MODULE RegistryCertificate -------------------------
(***************************************************************************)
(* The key, the certificate and the Diffie-Hellman parameters of a re6st     *)
(* registry (re6stnet, generateCertificate): each pass of slapgrid has        *)
(* openssl make those that do not exist.  Openssl opens its output before it *)
(* writes it; it may fail at any point, and slapgrid may be killed.  Openssl  *)
(* is external.                                                              *)
(***************************************************************************)
EXTENDS Naturals

CONSTANT MaxRegistryFaults  \* bound: failures of openssl, kills

ASSUME RegistryAssumption == MaxRegistryFaults \in Nat

VARIABLES
  dhFile, keyFile, certFile,  \* the number of what they hold; Nothing, or Begun
  generate,                   \* the step of the pass; "installed" after the last
  lastKey,                    \* the number of the last key
  tornFile,                   \* a pass was killed while openssl wrote what is made once (history)
  registryFaults

registryVars == <<dhFile, keyFile, certFile, generate, lastKey, tornFile, registryFaults>>

Nothing == 0
Begun == 1
FirstKey == 2

RegistryInit ==
  /\ dhFile = Nothing /\ keyFile = Nothing /\ certFile = Nothing
  /\ generate = "none" /\ lastKey = Begun /\ tornFile = FALSE /\ registryFaults = 0

RegistryFault == registryFaults < MaxRegistryFaults /\ registryFaults' = registryFaults + 1

-----------------------------------------------------------------------------
\* What exists is taken for made; a key is made for each certificate.
CheckFiles ==
  /\ generate \in {"none", "installed", "dhDone"}
  /\ generate' = CASE generate # "dhDone" /\ dhFile = Nothing -> "dhOpen"
                   [] generate # "dhDone" /\ dhFile # Nothing -> "dhDone"
                   [] generate = "dhDone" /\ certFile = Nothing -> "keyOpen"
                   [] generate = "dhDone" /\ certFile # Nothing -> "installed"
  /\ UNCHANGED <<dhFile, keyFile, certFile, lastKey, tornFile, registryFaults>>

\* 'dhparam', 'genrsa' and 'req -x509', which open the file and then write it.
MakeParameters ==
  /\ \/ generate = "dhOpen" /\ dhFile' = Begun /\ generate' = "dhWrite"
     \/ generate = "dhWrite" /\ dhFile' = FirstKey /\ generate' = "dhDone"
  /\ UNCHANGED <<keyFile, certFile, lastKey, tornFile, registryFaults>>

MakeKey ==
  /\ \/ generate = "keyOpen" /\ keyFile' = Begun /\ generate' = "keyWrite" /\ UNCHANGED lastKey
     \/ /\ generate = "keyWrite"
        /\ lastKey' = lastKey + 1 /\ keyFile' = lastKey' /\ generate' = "certOpen"
  /\ UNCHANGED <<dhFile, certFile, tornFile, registryFaults>>

MakeCertificate ==
  /\ \/ generate = "certOpen" /\ certFile' = Begun /\ generate' = "certWrite"
     \/ generate = "certWrite" /\ certFile' = keyFile /\ generate' = "installed"
  /\ UNCHANGED <<dhFile, keyFile, lastKey, tornFile, registryFaults>>

\* The file that openssl was to write is removed, and the pass ends.
OpensslRaises ==
  /\ generate \notin {"none", "installed", "dhDone"} /\ RegistryFault
  /\ dhFile' = IF generate \in {"dhOpen", "dhWrite"} THEN Nothing ELSE dhFile
  /\ keyFile' = IF generate \in {"keyOpen", "keyWrite"} THEN Nothing ELSE keyFile
  /\ certFile' = IF generate \in {"certOpen", "certWrite"} THEN Nothing ELSE certFile
  /\ generate' = "none"
  /\ UNCHANGED <<lastKey, tornFile>>

KillRegistry ==
  /\ generate \notin {"none", "installed"} /\ RegistryFault
  /\ tornFile' = (tornFile \/ generate \in {"dhWrite", "certWrite"})
  /\ generate' = "none"
  /\ UNCHANGED <<dhFile, keyFile, certFile, lastKey>>

RegistryNext ==
  \/ CheckFiles \/ MakeParameters \/ MakeKey \/ MakeCertificate
  \/ OpensslRaises \/ KillRegistry

RegistrySpec == RegistryInit /\ [][RegistryNext]_registryVars

-----------------------------------------------------------------------------
(* Properties. *)

\* A registry that is installed has parameters, and a certificate of the key beside it,
\* whatever failed or was killed in the passes before; unless one was killed while
\* openssl wrote the parameters or the certificate, which are then taken for made.
RegistryHolds ==
  generate = "installed" /\ ~tornFile =>
    dhFile > Begun /\ keyFile > Begun /\ certFile = keyFile
=============================================================================
