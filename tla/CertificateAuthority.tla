------------------------ MODULE CertificateAuthority ------------------------
(***************************************************************************)
(* The certificate authority of a partition (recipe certificate_authority): *)
(* a service that polls a directory of requests, makes its own pair of key *)
(* and certificate, then one for each request, and the recipe that writes   *)
(* the requests, or a pair given as parameter.  openssl is external: it     *)
(* opens a file, then writes it.  Supervisord starts an authority that      *)
(* died again; it and slapgrid may be killed anywhere.                      *)
(***************************************************************************)
EXTENDS Naturals, FiniteSets

CONSTANTS
  Names,      \* of the requests
  CA,         \* the pair of the authority itself
  MaxCaInstalls, MaxCaFaults  \* bounds: runs of the recipe, failures and kills

ASSUME CaAssumption ==
  IsFiniteSet(Names) /\ CA \notin Names /\ MaxCaInstalls \in Nat /\ MaxCaFaults \in Nat

Pairs == Names \cup {CA}

\* A file holds nothing, something unfinished, or the number of a pair.
None == 0
Part == 1

VARIABLES
  request,   \* request[n] is "none", "part" or "full"
  key, cert, \* the files of each pair; cert[n] is the number of its key
  signer,    \* the key that signed cert[n], None for a given certificate
  ca,        \* the authority: its step, the pair it makes, what is left to do
  recipe,    \* the recipe: its step, its request, whether it is alone on it
  mixed,     \* names whose given pair was not written whole and alone (history)
  torn,      \* an authority was killed between open and write of a certificate
  installs, caFaults

files == <<key, cert, signer>>
caVars == <<request, files, ca, recipe, mixed, torn, installs, caFaults>>

Dead == [at |-> "dead", name |-> CA, id |-> None, todo |-> {}]
Done == [at |-> "idle", name |-> CA, id |-> None, alone |-> TRUE]

CaInit ==
  /\ request = [n \in Names |-> "none"]
  /\ key = [n \in Pairs |-> None] /\ cert = key /\ signer = key
  /\ ca = Dead /\ recipe = Done
  /\ mixed = {} /\ torn = FALSE
  /\ installs = 0 /\ caFaults = 0

CaFault == caFaults < MaxCaFaults /\ caFaults' = caFaults + 1

\* A number that nothing bears.
NewPair ==
  CHOOSE i \in (Part + 1)..(Part + 3 * Cardinality(Pairs) + 3) :
    /\ \A n \in Pairs : i \notin {key[n], cert[n], signer[n]}
    /\ i \notin {ca.id, recipe.id}

-----------------------------------------------------------------------------
(* The authority: runCertificateAuthority. *)

\* Both files exist.
Ready(n) == key[n] # None /\ cert[n] # None

Making == ca.at \in {"clean", "openKey", "writeKey", "openCert", "writeCert"}
Goto(at) == ca' = [ca EXCEPT !.at = at]

CaStart ==
  /\ ca.at = "dead"
  /\ Goto("authority")
  /\ UNCHANGED <<request, files, recipe, mixed, torn, installs, caFaults>>

\* checkAuthority; once the pair is there, the requests are listed.
CheckAuthority ==
  /\ ca.at = "authority"
  /\ ca' = IF Ready(CA)
           THEN [ca EXCEPT !.at = "next", !.todo = {n \in Names : request[n] # "none"}]
           ELSE [ca EXCEPT !.at = "clean", !.name = CA]
  /\ UNCHANGED <<request, files, recipe, mixed, torn, installs, caFaults>>

\* A request that is not written yet has no section: the authority dies.
CheckCertificate(n) ==
  /\ ca.at = "next" /\ n \in ca.todo
  /\ ca' = IF request[n] = "part" THEN Dead
           ELSE IF Ready(n) THEN [ca EXCEPT !.todo = @ \ {n}]
           ELSE [ca EXCEPT !.at = "clean", !.name = n]
  /\ UNCHANGED <<request, files, recipe, mixed, torn, installs, caFaults>>

\* A minute later.
Poll ==
  /\ ca.at = "next" /\ ca.todo = {}
  /\ Goto("authority")
  /\ UNCHANGED <<request, files, recipe, mixed, torn, installs, caFaults>>

Clean ==
  /\ ca.at = "clean"
  /\ key' = [key EXCEPT ![ca.name] = None] /\ cert' = [cert EXCEPT ![ca.name] = None]
  /\ Goto("openKey")
  /\ recipe' = [recipe EXCEPT !.alone = @ /\ recipe.name # ca.name]
  /\ UNCHANGED <<request, signer, mixed, torn, installs, caFaults>>

OpenKey ==
  /\ ca.at = "openKey"
  /\ key' = [key EXCEPT ![ca.name] = Part]
  /\ Goto("writeKey")
  /\ UNCHANGED <<request, cert, signer, recipe, mixed, torn, installs, caFaults>>

\* openssl req: the key, and the request that holds its number.
WriteKey ==
  /\ ca.at = "writeKey"
  /\ key' = [key EXCEPT ![ca.name] = NewPair]
  /\ ca' = [ca EXCEPT !.at = "openCert", !.id = NewPair]
  /\ UNCHANGED <<request, cert, signer, recipe, mixed, torn, installs, caFaults>>

\* openssl ca reads the pair of the authority first.
CanSign == ca.name = CA \/ (key[CA] > Part /\ cert[CA] = key[CA])

OpenCert ==
  /\ ca.at = "openCert" /\ CanSign
  /\ cert' = [cert EXCEPT ![ca.name] = Part]
  /\ Goto("writeCert")
  /\ UNCHANGED <<request, key, signer, recipe, mixed, torn, installs, caFaults>>

\* After its own pair the authority lists, after another it goes on.
WriteCert ==
  /\ ca.at = "writeCert"
  /\ cert' = [cert EXCEPT ![ca.name] = ca.id]
  /\ signer' = [signer EXCEPT ![ca.name] = key[CA]]
  /\ ca' = IF ca.name = CA THEN [Dead EXCEPT !.at = "authority"]
           ELSE [Dead EXCEPT !.at = "next", !.todo = ca.todo \ {ca.name}]
  /\ UNCHANGED <<request, key, recipe, mixed, torn, installs, caFaults>>

\* Mutant: the files removed are those of the authority.
OpensslFails_WrongFiles ==
  /\ Making /\ ca.at # "clean"
  /\ \/ CaFault
     \/ ca.at = "openCert" /\ ~CanSign /\ UNCHANGED caFaults
  /\ key' = [key EXCEPT ![CA] = None] /\ cert' = [cert EXCEPT ![CA] = None]
  /\ ca' = Dead
  /\ UNCHANGED <<request, signer, recipe, mixed, torn, installs>>

\* openssl returns an error: the files are removed, and the authority dies.
OpensslFails ==
  /\ Making /\ ca.at # "clean"
  /\ \/ CaFault
     \/ ca.at = "openCert" /\ ~CanSign /\ UNCHANGED caFaults
  /\ key' = [key EXCEPT ![ca.name] = None] /\ cert' = [cert EXCEPT ![ca.name] = None]
  /\ ca' = Dead
  /\ UNCHANGED <<request, signer, recipe, mixed, torn, installs>>

\* supervisord kills the authority and its openssl.
CaKill ==
  /\ ca.at # "dead"
  /\ CaFault
  /\ torn' = (torn \/ ca.at = "writeCert")
  /\ ca' = Dead
  /\ UNCHANGED <<request, files, recipe, mixed, installs>>

-----------------------------------------------------------------------------
(* The recipe: Request.install. *)

\* A request, or a pair given with key-content and cert-content.
Install(n, given) ==
  /\ recipe.at = "idle" /\ installs < MaxCaInstalls
  /\ installs' = installs + 1
  /\ recipe' = [at |-> IF given THEN "openKey" ELSE "open", name |-> n, id |-> NewPair,
                alone |-> ~(Making /\ ca.name = n)]
  /\ mixed' = IF given THEN mixed \cup {n} ELSE mixed
  /\ UNCHANGED <<request, files, ca, torn, caFaults>>

\* The file of a request is opened, which empties it, and written.
WriteRequest ==
  /\ \/ /\ recipe.at = "open"
        /\ request' = [request EXCEPT ![recipe.name] = "part"]
        /\ recipe' = [recipe EXCEPT !.at = "write"]
     \/ /\ recipe.at = "write"
        /\ request' = [request EXCEPT ![recipe.name] = "full"]
        /\ recipe' = Done
  /\ UNCHANGED <<files, ca, mixed, torn, installs, caFaults>>

\* So are the files of a given pair, the key first.
GiveKey ==
  /\ \/ /\ recipe.at = "openKey"
        /\ key' = [key EXCEPT ![recipe.name] = Part]
        /\ recipe' = [recipe EXCEPT !.at = "writeKey"]
     \/ /\ recipe.at = "writeKey"
        /\ key' = [key EXCEPT ![recipe.name] = recipe.id]
        /\ recipe' = [recipe EXCEPT !.at = "openCert"]
  /\ UNCHANGED <<request, cert, signer, ca, mixed, torn, installs, caFaults>>

GiveCert ==
  /\ \/ /\ recipe.at = "openCert"
        /\ cert' = [cert EXCEPT ![recipe.name] = Part]
        /\ recipe' = [recipe EXCEPT !.at = "writeCert"]
        /\ UNCHANGED <<signer, mixed>>
     \/ /\ recipe.at = "writeCert"
        /\ cert' = [cert EXCEPT ![recipe.name] = recipe.id]
        /\ signer' = [signer EXCEPT ![recipe.name] = None]
        /\ recipe' = Done
        /\ mixed' = IF recipe.alone THEN mixed \ {recipe.name} ELSE mixed
  /\ UNCHANGED <<request, key, ca, torn, installs, caFaults>>

RecipeKill ==
  /\ recipe.at # "idle"
  /\ CaFault
  /\ recipe' = Done
  /\ UNCHANGED <<request, files, ca, mixed, torn, installs>>

-----------------------------------------------------------------------------
Authority == \/ CaStart \/ CheckAuthority \/ Poll
             \/ \E n \in Names : CheckCertificate(n)
             \/ Clean \/ OpenKey \/ WriteKey \/ OpenCert \/ WriteCert \/ OpensslFails
CaRecipe == WriteRequest \/ GiveKey \/ GiveCert

CaNext == \/ Authority \/ CaRecipe
          \/ \E n \in Names, given \in BOOLEAN : Install(n, given)
          \/ CaKill \/ RecipeKill

CaSpec == CaInit /\ [][CaNext]_caVars

-----------------------------------------------------------------------------
(* Properties. *)

\* Whatever was killed or failed, a certificate is that of the key beside it and
\* bears the signature of the authority that is there now, unless it is given
\* and was not written whole and alone.
CertificatesHold ==
  \A n \in Pairs \ mixed :
    (key[n] > Part /\ cert[n] > Part) =>
      cert[n] = key[n] /\ signer[n] \in {None, key[CA]}

\* A request gets its pair, though failures and kills have stopped the authority
\* many times; unless a certificate was torn, which is taken for ready, or a
\* request is left half written, on which the authority dies again and again.
CertificatesServed ==
  \A n \in Names :
    request[n] = "full" ~>
      \/ key[n] > Part /\ cert[n] = key[n]
      \/ torn \/ n \in mixed \/ \E m \in Names : request[m] = "part"
=============================================================================
