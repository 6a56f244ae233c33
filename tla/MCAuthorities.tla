---------------------------- MODULE MCAuthorities ----------------------------
(* The two authorities and the registry of re6st know nothing of each other: a *)
(* behaviour is of one.                                                       *)
EXTENDS CertificateAuthority, SshAuthority, RegistryCertificate

VARIABLE which

allVars == <<which, caVars, sshVars, registryVars>>

Init == CaInit /\ SshInit /\ RegistryInit /\ which \in {"certificates", "keys", "registry"}

OfCa(A) == which = "certificates" /\ A /\ UNCHANGED <<which, sshVars, registryVars>>
OfSsh(A) == which = "keys" /\ A /\ UNCHANGED <<which, caVars, registryVars>>
OfRegistry(A) == which = "registry" /\ A /\ UNCHANGED <<which, caVars, sshVars>>

Next == OfCa(CaNext) \/ OfSsh(SshNext) \/ OfRegistry(RegistryNext)

\* supervisord starts the authorities again, and slapgrid ends its installations.
Spec == /\ Init /\ [][Next]_allVars
        /\ WF_allVars(OfCa(Authority)) /\ WF_allVars(OfCa(CaRecipe))
        /\ WF_allVars(OfSsh(KeyAuthority)) /\ WF_allVars(OfSsh(WriteAsked))

\* The two files of each pair, of a key and its certificate or of an ssh key, go
\* together, and a registry has the key of its certificate, whatever was killed or
\* failed.
PairsMatch == CertificatesHold /\ KeysMatch /\ RegistryHolds

\* Neither authority misses a request, though it is stopped many times.
AllServed == CertificatesServed /\ KeysServed
=============================================================================
