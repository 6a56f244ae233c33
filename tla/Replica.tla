------------------------------- MODULE Replica -------------------------------
(***************************************************************************)
(* What the backup of a resilient instance promises.  The exporter signs   *)
(* snapshots; the disk image a clone would start from is absent, or a      *)
(* snapshot the exporter has signed.  The next push may change the backup  *)
(* under a running import (exposed): the pieces of the image may then come *)
(* from several dumps, each of them at least as recent as one signed       *)
(* snapshot.  In all cases no piece is older than in the image before.     *)
(***************************************************************************)
EXTENDS Naturals

CONSTANTS
  Pieces,    \* an image is made of these
  MaxRuns    \* snapshots are numbered 1 .. MaxRuns

VARIABLES
  signed,  \* the snapshots the exporter has signed
  image,   \* the dump each piece of the image comes from, 0 if there is no image
  latest,  \* the same for the last image that was completed
  exposed  \* the backup has changed under the running import

NoImage == [p \in Pieces |-> 0]

Init == signed = {} /\ image = NoImage /\ latest = NoImage /\ exposed = FALSE

Sign(v) ==
  /\ v \in 1..MaxRuns
  /\ \A u \in signed : u < v
  /\ signed' = signed \cup {v}
  /\ UNCHANGED <<image, latest, exposed>>

\* A push changes the backup, or an import is given up.
Expose ==
  /\ exposed' \in BOOLEAN
  /\ UNCHANGED <<signed, image, latest>>

Wipe ==
  /\ image' = NoImage
  /\ UNCHANGED <<signed, latest, exposed>>

Complete(v) ==
  /\ v \in signed
  /\ image' \in [Pieces -> 1..MaxRuns]
  /\ \A p \in Pieces : /\ image'[p] >= v /\ image'[p] >= latest[p]
                       /\ ~exposed => image'[p] = v
  /\ latest' = image'
  /\ exposed' = FALSE
  /\ UNCHANGED signed

Next == Expose \/ Wipe \/ \E v \in 1..MaxRuns : Sign(v) \/ Complete(v)

Spec == Init /\ [][Next]_<<signed, image, latest, exposed>>
=============================================================================
