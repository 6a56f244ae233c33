------------------------------ MODULE CsrSigning ------------------------------
(***************************************************************************)
(* How a node of a content delivery network gets its certificate without     *)
(* anybody looking at it (software/rapid-cdn/software.py): the node makes a   *)
(* key, sends a request to the certificate authority and exposes it on a      *)
(* server of its own, whose certificate it publishes; in each pass, the        *)
(* master of the network reads the request from that server and has the        *)
(* authority sign the pending request with the same key, until a file says    *)
(* that it was done.  The node, the authority and the SlapOS master are        *)
(* external.                                                                 *)
(***************************************************************************)
EXTENDS Naturals

CONSTANT MaxSigningFaults  \* bound: calls that fail, passes that are killed, keys that are lost

ASSUME SigningAssumption == MaxSigningFaults \in Nat

VARIABLES
  key,        \* the number of the key of the node, of its request and of its server
  known,      \* the number of the certificate of its server, as the master has it
  pending,    \* the requests that wait at the authority
  signed,     \* those that were signed
  joined,     \* the node has a certificate for its key
  doneFile,
  signer,     \* smart_sign: its step, the request it has read, and the list it got
  tooLate,    \* the node made another key after the signer had read its request (history)
  signingFaults

signingVars == <<key, known, pending, signed, joined, doneFile, signer, tooLate, signingFaults>>

Foreign == 0  \* a request of somebody else
NotSigning == [at |-> "idle", csr |-> Foreign, list |-> {}]

SigningInit ==
  /\ key = 1 /\ known = 0
  /\ pending \in {{}, {Foreign}} /\ signed = {} /\ joined = FALSE
  /\ doneFile = FALSE /\ signer = NotSigning /\ tooLate = FALSE /\ signingFaults = 0

SigningFault == signingFaults < MaxSigningFaults /\ signingFaults' = signingFaults + 1

-----------------------------------------------------------------------------
(* smart_sign, in a pass of the master. *)

IsDone == doneFile

StartSigner ==
  /\ signer.at = "idle" /\ ~IsDone
  /\ signer' = [NotSigning EXCEPT !.at = "check"]
  /\ UNCHANGED <<key, known, pending, signed, joined, doneFile, tooLate, signingFaults>>

\* Another certificate than the one that was published raises.
CheckCertificate ==
  /\ signer.at = "check"
  /\ signer' = IF known = key THEN [signer EXCEPT !.at = "read"] ELSE NotSigning
  /\ UNCHANGED <<key, known, pending, signed, joined, doneFile, tooLate, signingFaults>>

\* A second connection, which does not look at the certificate: it is taken to be to the
\* same server.
GetExposedCsr ==
  /\ signer.at = "read"
  /\ signer' = [signer EXCEPT !.at = "list", !.csr = key]
  /\ UNCHANGED <<key, known, pending, signed, joined, doneFile, tooLate, signingFaults>>

GetCsrList ==
  /\ signer.at = "list"
  /\ signer' = [signer EXCEPT !.at = "sign", !.list = pending]
  /\ UNCHANGED <<key, known, pending, signed, joined, doneFile, tooLate, signingFaults>>

\* Mutant: what is not found is taken for signed before.
SignCsr_MarkAnyway ==
  /\ signer.at = "sign"
  /\ LET matches == signer.list \cap {signer.csr} IN
     signed' = signed \cup matches /\ pending' = pending \ matches
  /\ signer' = [signer EXCEPT !.at = "mark"]
  /\ UNCHANGED <<key, known, joined, doneFile, tooLate, signingFaults>>

\* The first request of the list that has the same key, if there is one.
SignCsr ==
  /\ signer.at = "sign"
  /\ LET matches == signer.list \cap {signer.csr} IN
     /\ signed' = signed \cup matches /\ pending' = pending \ matches
     /\ signer' = IF matches = {} THEN NotSigning ELSE [signer EXCEPT !.at = "mark"]
  /\ UNCHANGED <<key, known, joined, doneFile, tooLate, signingFaults>>

MarkDone ==
  /\ signer.at = "mark"
  /\ doneFile' = TRUE
  /\ signer' = NotSigning
  /\ UNCHANGED <<key, known, pending, signed, joined, tooLate, signingFaults>>

\* A call raises, or the pass is killed.
SignerFails ==
  /\ signer.at # "idle" /\ SigningFault
  /\ signer' = NotSigning
  /\ UNCHANGED <<key, known, pending, signed, joined, doneFile, tooLate>>

-----------------------------------------------------------------------------
(* The node and the authority. *)

PublishCertificate ==
  /\ known # key
  /\ known' = key
  /\ UNCHANGED <<key, pending, signed, joined, doneFile, signer, tooLate, signingFaults>>

SendRequest ==
  /\ key \notin pending \cup signed
  /\ pending' = pending \cup {key}
  /\ UNCHANGED <<key, known, signed, joined, doneFile, signer, tooLate, signingFaults>>

GetCertificate ==
  /\ key \in signed /\ ~joined
  /\ joined' = TRUE
  /\ UNCHANGED <<key, known, pending, signed, doneFile, signer, tooLate, signingFaults>>

\* The partition of the node is lost, and another one made.
NewKey ==
  /\ SigningFault
  /\ key' = key + 1 /\ joined' = FALSE
  /\ tooLate' = (tooLate \/ doneFile \/ signer.at \in {"list", "sign", "mark"})
  /\ UNCHANGED <<known, pending, signed, doneFile, signer>>

Signer == StartSigner \/ CheckCertificate \/ GetExposedCsr \/ GetCsrList \/ SignCsr \/ MarkDone

SigningNext ==
  Signer \/ SignerFails \/ PublishCertificate \/ SendRequest \/ GetCertificate \/ NewKey

\* The master and the node are processed again and again.
SigningSpec ==
  /\ SigningInit /\ [][SigningNext]_signingVars
  /\ WF_signingVars(Signer) /\ WF_signingVars(PublishCertificate)
  /\ WF_signingVars(SendRequest) /\ WF_signingVars(GetCertificate)

-----------------------------------------------------------------------------
(* Properties. *)

\* Whatever the order in which the node sends, exposes and publishes, and whatever fails,
\* it gets a certificate for the key that it has, and another request that waits at the
\* authority is not signed in its place; unless it made another key once the master had
\* read its request, or was done with it.
Joins == <>[](Foreign \notin signed /\ (joined \/ tooLate))
=============================================================================
