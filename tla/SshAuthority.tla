---------------------------- MODULE SshAuthority ----------------------------
(***************************************************************************)
(* The authority that makes ssh keys on request (recipe sshkeys_authority), *)
(* and the recipe that requests them.  The authority watches the directory  *)
(* of the requests, lists it, and then follows the events of inotify, or    *)
(* lists it every five seconds if it has no watch (inotify.subfiles).       *)
(* ssh-keygen is external; supervisord starts an authority that died again. *)
(***************************************************************************)
EXTENDS Naturals, FiniteSets

CONSTANTS
  Keys,       \* the names of the requests
  Openssh,    \* the key generator is that of openssh, which makes both files
  MaxSshInstalls, MaxSshFaults  \* bounds: runs of the recipe, failures and kills

ASSUME SshAssumption ==
  IsFiniteSet(Keys) /\ Openssh \in BOOLEAN /\ MaxSshInstalls \in Nat /\ MaxSshFaults \in Nat

\* A file holds nothing, something unfinished, or the number of a key.
NoKey == 0
HalfKey == 1

VARIABLES
  asked,           \* asked[k], the file of a request, is "none", "part" or "full"
  private, public, \* the files of each key
  ssh,             \* the authority: its step, the key it makes, what is left to do
  watching,        \* it has a watch of the directory
  events,          \* what inotify has for it
  sshRecipe,       \* the recipe: its step, and the request it writes
  spoilt,          \* killed, or raised, while it made a key (history)
  sshInstalls, sshFaults

keyFiles == <<private, public>>
sshVars == <<asked, keyFiles, ssh, watching, events, sshRecipe, spoilt,
             sshInstalls, sshFaults>>

Free == [at |-> "idle", name |-> "none"]
Gone == [at |-> "dead", name |-> "none", todo |-> {}]

SshInit ==
  /\ asked = [k \in Keys |-> "none"]
  /\ private = [k \in Keys |-> NoKey] /\ public = private
  /\ ssh = Gone /\ watching = FALSE /\ events = {}
  /\ sshRecipe = Free /\ spoilt = FALSE
  /\ sshInstalls = 0 /\ sshFaults = 0

SshFault == sshFaults < MaxSshFaults /\ sshFaults' = sshFaults + 1

\* A number that no file bears.
NewKey == CHOOSE i \in 2..(2 + 2 * Cardinality(Keys)) :
            \A k \in Keys : i \notin {private[k], public[k]}

-----------------------------------------------------------------------------
(* The authority: sshkeys_authority, and subfiles. *)

AuthorityOnly == UNCHANGED <<asked, sshRecipe, sshInstalls>>
Step(at) == ssh' = [ssh EXCEPT !.at = at]

\* inotify may have no watch left.
Watch ==
  /\ ssh.at = "dead"
  /\ watching' \in BOOLEAN /\ events' = {}
  /\ Step("list")
  /\ AuthorityOnly /\ UNCHANGED <<keyFiles, spoilt, sshFaults>>

List ==
  /\ ssh.at = "list"
  /\ ssh' = [ssh EXCEPT !.at = "next", !.todo = {k \in Keys : asked[k] # "none"}]
  /\ AuthorityOnly /\ UNCHANGED <<keyFiles, watching, events, spoilt, sshFaults>>

\* Mutant: of the events that are there, only one is read.
ReadEvents_One ==
  /\ ssh.at = "next" /\ ssh.todo = {}
  /\ watching /\ events # {}
  /\ \E k \in events : ssh' = [ssh EXCEPT !.todo = {k}]
  /\ events' = {}
  /\ AuthorityOnly /\ UNCHANGED <<keyFiles, watching, spoilt, sshFaults>>

\* inotify.read() waits for events, and returns all there are.
ReadEvents ==
  /\ ssh.at = "next" /\ ssh.todo = {}
  /\ watching /\ events # {}
  /\ ssh' = [ssh EXCEPT !.todo = events] /\ events' = {}
  /\ AuthorityOnly /\ UNCHANGED <<keyFiles, watching, spoilt, sshFaults>>

ListAgain ==
  /\ ssh.at = "next" /\ ssh.todo = {} /\ ~watching
  /\ Step("list")
  /\ AuthorityOnly /\ UNCHANGED <<keyFiles, watching, events, spoilt, sshFaults>>

\* A request that is gone or half written raises.
ReadRequest(k) ==
  /\ ssh.at = "next" /\ k \in ssh.todo
  /\ ssh' = IF asked[k] # "full" THEN Gone
            ELSE [at |-> IF private[k] = NoKey THEN "clean" ELSE "public",
                  name |-> k, todo |-> ssh.todo \ {k}]
  /\ AuthorityOnly /\ UNCHANGED <<keyFiles, watching, events, spoilt, sshFaults>>

RemovePublic ==
  /\ ssh.at = "clean"
  /\ public' = [public EXCEPT ![ssh.name] = NoKey]
  /\ Step("openPrivate")
  /\ AuthorityOnly
  /\ UNCHANGED <<private, watching, events, spoilt, sshFaults>>

MakePrivate ==
  /\ \/ /\ ssh.at = "openPrivate"
        /\ private' = [private EXCEPT ![ssh.name] = HalfKey]
        /\ Step("writePrivate")
     \/ /\ ssh.at = "writePrivate"
        /\ private' = [private EXCEPT ![ssh.name] = NewKey]
        /\ Step(IF Openssh THEN "openPublic" ELSE "public")
  /\ AuthorityOnly /\ UNCHANGED <<public, watching, events, spoilt, sshFaults>>

\* ssh-keygen of openssh writes the public key too.
MakePublic ==
  /\ \/ /\ ssh.at = "openPublic"
        /\ public' = [public EXCEPT ![ssh.name] = HalfKey]
        /\ Step("writePublic")
     \/ /\ ssh.at = "writePublic"
        /\ public' = [public EXCEPT ![ssh.name] = private[ssh.name]]
        /\ Step("public")
  /\ AuthorityOnly /\ UNCHANGED <<private, watching, events, spoilt, sshFaults>>

\* A public key that is missing is made from the private key: this fails if the
\* private key is half written, and raises on Python 3, where the pattern is no
\* bytes.
DerivePublic ==
  /\ ssh.at = "public"
  /\ IF public[ssh.name] # NoKey
     THEN ssh' = [ssh EXCEPT !.at = "next", !.name = "none"] /\ UNCHANGED spoilt
     ELSE \/ private[ssh.name] # HalfKey /\ Step("openDerived") /\ UNCHANGED spoilt
          \/ ssh' = Gone /\ spoilt' = TRUE
  /\ AuthorityOnly /\ UNCHANGED <<keyFiles, watching, events, sshFaults>>

\* What the pattern has found is written: nothing, if the line has no "=".
WriteDerived ==
  /\ \/ /\ ssh.at = "openDerived"
        /\ public' = [public EXCEPT ![ssh.name] = HalfKey]
        /\ Step("writeDerived") /\ UNCHANGED spoilt
     \/ /\ ssh.at = "writeDerived"
        /\ \/ public' = [public EXCEPT ![ssh.name] = private[ssh.name]] /\ UNCHANGED spoilt
           \/ UNCHANGED public /\ spoilt' = TRUE
        /\ ssh' = [ssh EXCEPT !.at = "next", !.name = "none"]
  /\ AuthorityOnly /\ UNCHANGED <<private, watching, events, sshFaults>>

\* A generator fails, or supervisord kills both.
SshKill ==
  /\ ssh.at # "dead"
  /\ SshFault
  /\ spoilt' = (spoilt \/ ssh.name # "none")
  /\ ssh' = Gone
  /\ AuthorityOnly /\ UNCHANGED <<keyFiles, watching, events>>

-----------------------------------------------------------------------------
(* The recipe: buildout removes the file of the last installation, then      *)
(* Request.install writes it again.                                          *)

RecipeOnly == UNCHANGED <<keyFiles, ssh, watching, spoilt>>

Reinstall(k) ==
  /\ sshRecipe = Free /\ sshInstalls < MaxSshInstalls
  /\ sshInstalls' = sshInstalls + 1
  /\ sshRecipe' = [at |-> "open", name |-> k]
  /\ asked' = [asked EXCEPT ![k] = "none"]
  /\ RecipeOnly /\ UNCHANGED <<events, sshFaults>>

\* CLOSE_WRITE comes when the file is written and closed.
WriteAsked ==
  /\ \/ /\ sshRecipe.at = "open"
        /\ asked' = [asked EXCEPT ![sshRecipe.name] = "part"]
        /\ sshRecipe' = [sshRecipe EXCEPT !.at = "write"]
        /\ UNCHANGED events
     \/ /\ sshRecipe.at = "write"
        /\ asked' = [asked EXCEPT ![sshRecipe.name] = "full"]
        /\ sshRecipe' = Free
        /\ events' = IF watching /\ ssh.at # "dead" THEN events \cup {sshRecipe.name}
                     ELSE events
  /\ RecipeOnly /\ UNCHANGED <<sshInstalls, sshFaults>>

\* slapgrid is killed: the kernel closes the file.
KillInstall ==
  /\ sshRecipe # Free
  /\ SshFault
  /\ sshRecipe' = Free
  /\ events' = IF sshRecipe.at = "write" /\ watching /\ ssh.at # "dead"
               THEN events \cup {sshRecipe.name} ELSE events
  /\ RecipeOnly /\ UNCHANGED <<asked, sshInstalls>>

\* Somebody removes a private key, to have another.
LoseKey(k) ==
  /\ ssh.name # k /\ private[k] # NoKey
  /\ SshFault
  /\ private' = [private EXCEPT ![k] = NoKey]
  /\ UNCHANGED <<asked, public, ssh, watching, events, sshRecipe, spoilt, sshInstalls>>

-----------------------------------------------------------------------------
KeyAuthority == \/ Watch \/ List \/ ReadEvents \/ ListAgain
                \/ \E k \in Keys : ReadRequest(k)
                \/ RemovePublic \/ MakePrivate \/ MakePublic
                \/ DerivePublic \/ WriteDerived

SshNext == \/ KeyAuthority \/ WriteAsked
           \/ SshKill \/ KillInstall
           \/ \E k \in Keys : Reinstall(k) \/ LoseKey(k)

SshSpec == SshInit /\ [][SshNext]_sshVars

-----------------------------------------------------------------------------
(* Properties. *)

\* The two files of a key, once they are written, are of the same key, however
\* often the authority was killed and the private key lost.
KeysMatch ==
  \A k \in Keys :
    (private[k] > HalfKey /\ public[k] > HalfKey) => public[k] = private[k]

\* No request is missed, whether it is written before, while or after the
\* authority watches and lists the directory, and whatever died meanwhile;
\* unless a key was spoilt, or a request is withdrawn or left half written.
KeysServed ==
  \A k \in Keys :
    asked[k] = "full" ~> \/ public[k] > HalfKey
                         \/ spoilt
                         \/ asked[k] = "none" \/ \E l \in Keys : asked[l] = "part"
=============================================================================
