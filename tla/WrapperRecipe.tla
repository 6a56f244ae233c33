---------------------------- MODULE WrapperRecipe ----------------------------
(***************************************************************************)
(* The recipe slapos.cookbook:wrapper, when it makes the wrapper script of   *)
(* a service that must start again each time one of its files changes: the  *)
(* name of the script ends with a hash of these files, so that slapgrid sees *)
(* another service.  hash-files are written by other parts of the buildout   *)
(* before the wrapper; hash-existing-files are there, and change, whatever   *)
(* the buildout does: their hash is an option of the part, which makes       *)
(* buildout install it again.  Buildout, slapgrid, supervisord and the parts *)
(* that write the hash-files are external.                                   *)
(***************************************************************************)
EXTENDS Naturals, Sequences
LOCAL INSTANCE SequencesExt

CONSTANTS MaxLength, MaxWrapperKills  \* bounds: size of a file, passes that are killed

ASSUME WrapperAssumption == MaxLength \in Nat /\ MaxWrapperKills \in Nat

Byte == 100                                          \* told apart from a length
Bytes == UNION {[1..n -> {Byte}] : n \in 0..MaxLength}
Nothing == <<>>

VARIABLES
  python,     \* the wrapper is a Python script that calls generic_exec, else one of sh
  wanted,     \* what the parameters want in the hash-file
  generated,  \* what is in the hash-file; NoFile before it is written
  existing,   \* what is in the existing file
  pass,       \* the step of the instantiation, and what it has computed
  installed,  \* .installed.cfg: the options of the part, and the path it returned
  scripts,    \* scripts[path], whether the script is "whole" or "empty"
  services,   \* services[path], the contents that the service had read when it started
  kills,
  excepted    \* what the property excepts happened (history)

wrapperVars == <<python, wanted, generated, existing, pass, installed, scripts, services,
                 kills, excepted>>

NoFile == <<0>>
Idle == [at |-> "idle", options |-> Nothing, path |-> Nothing, built |-> Nothing]
NotInstalled == [options |-> Nothing, path |-> Nothing]

\* Mutant: the lengths are not hashed.
Hash_NoLength(files) == FlattenSeq(files)

\* generateHashFromFiles, taken for injective on the bytes that it hashes.
Hash(files) == FlattenSeq([i \in 1..Len(files) |-> <<Len(files[i])>> \o files[i]])

\* getWrapperPath.
WrapperPath == Hash(<<generated, existing>>)

\* What buildout compares: the options of the part, '__hash_files__' among them, and
\* those of the parts it refers to.
PartOptions == <<wanted, Hash(<<existing>>)>>

Keep(f, paths) == [p \in DOMAIN f \cap paths |-> f[p]]
Put(f, path, value) == [p \in DOMAIN f \cup {path} |-> IF p = path THEN value ELSE f[p]]

WrapperInit ==
  /\ python \in BOOLEAN /\ wanted \in Bytes
  /\ generated = NoFile /\ existing = <<>> /\ pass = Idle
  /\ installed = NotInstalled /\ scripts = <<>> /\ services = <<>>
  /\ kills = 0 /\ excepted = FALSE

-----------------------------------------------------------------------------
(* The recipe, in a pass of buildout. *)

\* Recipe.__init__: the options are known before any part is installed.
Begin ==
  /\ pass.at = "idle"
  /\ pass' = [Idle EXCEPT !.at = "uninstall", !.options = PartOptions]
  /\ UNCHANGED <<python, wanted, generated, existing, installed, scripts, services, kills,
                 excepted>>

\* A part whose options have changed is uninstalled.
Uninstall ==
  /\ pass.at = "uninstall"
  /\ pass' = [pass EXCEPT !.at = "generate"]
  /\ IF installed.options = pass.options THEN UNCHANGED <<installed, scripts>>
     ELSE /\ installed' = NotInstalled
          /\ scripts' = Keep(scripts, DOMAIN scripts \ {installed.path})
  /\ UNCHANGED <<python, wanted, generated, existing, services, kills, excepted>>

\* The part that writes the hash-file, before the wrapper that refers to it.
Generate ==
  /\ pass.at = "generate"
  /\ generated' = pass.options[1]
  /\ pass' = [pass EXCEPT !.at = IF installed.options = pass.options THEN "update" ELSE "install"]
  /\ UNCHANGED <<python, wanted, existing, installed, scripts, services, kills, excepted>>

\* install: the path is computed from the files as they are now.  createFile keeps a
\* file that has the right content and unlinks one that has not, which a Python
\* script is not.
InstallWrapper ==
  /\ pass.at = "install"
  /\ LET whole == WrapperPath \in DOMAIN scripts /\ scripts[WrapperPath] = "whole" IN
     /\ pass' = [pass EXCEPT !.at = IF whole THEN "record" ELSE "open",
                             !.path = WrapperPath, !.built = <<generated, existing>>]
     /\ scripts' = IF whole \/ python THEN scripts
                   ELSE Keep(scripts, DOMAIN scripts \ {WrapperPath})
  /\ UNCHANGED <<python, wanted, generated, existing, installed, services, kills, excepted>>

OpenScript ==
  /\ pass.at = "open"
  /\ scripts' = Put(scripts, pass.path, "empty")
  /\ pass' = [pass EXCEPT !.at = "write"]
  /\ UNCHANGED <<python, wanted, generated, existing, installed, services, kills, excepted>>

WriteScript ==
  /\ pass.at = "write"
  /\ scripts' = Put(scripts, pass.path, "whole")
  /\ pass' = [pass EXCEPT !.at = "record"]
  /\ UNCHANGED <<python, wanted, generated, existing, installed, services, kills, excepted>>

Record ==
  /\ pass.at = "record"
  /\ installed' = [options |-> pass.options, path |-> pass.path]
  /\ pass' = [pass EXCEPT !.at = "services"]
  /\ UNCHANGED <<python, wanted, generated, existing, scripts, services, kills, excepted>>

\* update: "unstable wrapper path", if an existing file changed since __init__.
UpdateWrapper ==
  /\ pass.at = "update"
  /\ pass' = IF WrapperPath \in DOMAIN scripts
             THEN [pass EXCEPT !.at = "services", !.built = <<generated, existing>>] ELSE Idle
  /\ UNCHANGED <<python, wanted, generated, existing, installed, scripts, services, kills,
                 excepted>>

\* At the end of a pass that succeeds, slapgrid stops the services whose scripts are
\* gone, and starts those that are new.
UpdateServices ==
  /\ pass.at = "services"
  /\ services' = [p \in DOMAIN scripts |-> IF p \in DOMAIN services THEN services[p]
                                           ELSE <<generated, existing>>]
  /\ pass' = [Idle EXCEPT !.built = pass.built]
  /\ UNCHANGED <<python, wanted, generated, existing, installed, scripts, kills, excepted>>

-----------------------------------------------------------------------------
(* The rest of the world. *)

KillPass ==
  /\ pass.at # "idle" /\ kills < MaxWrapperKills
  /\ kills' = kills + 1
  /\ excepted' = (excepted \/ pass.at \in {"write", "record"})
  /\ pass' = Idle
  /\ UNCHANGED <<python, wanted, generated, existing, installed, scripts, services>>

\* A service that ends is started again from its script, and reads its files again.
RestartService(path) ==
  /\ path \in DOMAIN services
  /\ services' = IF path \in DOMAIN scripts /\ scripts[path] = "whole"
                 THEN Put(services, path, <<generated, existing>>)
                 ELSE Keep(services, DOMAIN services \ {path})
  /\ UNCHANGED <<python, wanted, generated, existing, pass, installed, scripts, kills, excepted>>

ChangeParameters ==
  /\ wanted' \in Bytes \ {wanted}
  /\ UNCHANGED <<python, generated, existing, pass, installed, scripts, services, kills, excepted>>

\* There is one content of each length: a file that never gets shorter is never again
\* what it has been.
ChangeExisting ==
  /\ existing' \in Bytes \ {existing}
  /\ excepted' = (excepted \/ Len(existing') < Len(existing))
  /\ UNCHANGED <<python, wanted, generated, pass, installed, scripts, services, kills>>

Buildout == \/ Begin \/ Uninstall \/ Generate \/ InstallWrapper \/ OpenScript \/ WriteScript
            \/ Record \/ UpdateWrapper \/ UpdateServices

WrapperNext ==
  \/ Buildout \/ KillPass \/ ChangeParameters \/ ChangeExisting
  \/ \E path \in DOMAIN services : RestartService(path)

WrapperSpec == WrapperInit /\ [][WrapperNext]_wrapperVars

-----------------------------------------------------------------------------
(* Properties. *)

\* After a pass that succeeded, and as long as no file changes, the service runs, once,
\* and has read the files as they are, whatever passes failed or were killed before,
\* whenever the files changed, and however often it was started again meanwhile; unless
\* a pass was killed after it opened the script and before it was recorded, so that the
\* script stays for ever, or the existing file is again what it has been: a service that
\* read it in between then has the right name.
ServiceIsFresh ==
  pass.at = "idle" /\ pass.built = <<wanted, existing>> /\ ~excepted =>
    /\ DOMAIN services = {WrapperPath}
    /\ services[WrapperPath] = <<wanted, existing>>
=============================================================================
