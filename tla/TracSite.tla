------------------------------- MODULE TracSite -------------------------------
(***************************************************************************)
(* The recipe of a Trac site (slapos/recipe/trac.py): it makes the site once, *)
(* and in every pass adds what is missing and writes, last, a file that says  *)
(* that it is done.  Programs that fail end the pass, some with an error and  *)
(* some without; slapgrid may be killed, and the user asks for more.          *)
(* trac-admin, the scripts of the repositories and htpasswd are external.     *)
(***************************************************************************)
EXTENDS Naturals, FiniteSets

CONSTANTS MaxTracFailures, MaxTracKills, MaxWishes  \* bounds

ASSUME TracAssumption == MaxTracFailures \in Nat /\ MaxTracKills \in Nat /\ MaxWishes \in Nat

VARIABLES
  wishes,   \* the repositories and users that the parameters ask for
  site,     \* the directory of the site: "none", "bare" before its files, or "whole"
  granted,  \* the admin has his rights
  items,    \* items[i], a plugin or repository: "none", "bare" or "whole"
  users,    \* those in the file of passwords
  finished, \* file-status says "done."
  trac,     \* the pass: its step, and what it, or the last one, was asked for
  interrupted,  \* what a kill or a failure left half made, which no pass makes again,
                \* and "users" if the file of passwords could not be made (history)
  setbacks  \* failures, kills and new wishes

tracVars == <<wishes, site, granted, items, users, finished, trac, interrupted, setbacks>>

Repositories == {"svn", "git"}
Items == Repositories \cup {"plugin"}
Wishes == Repositories \cup {"user"}
Outside == [at |-> "idle", asked |-> {}]

TracInit ==
  /\ wishes \in SUBSET Wishes
  /\ site = "none" /\ granted = FALSE /\ items = [i \in Items |-> "none"] /\ users = {}
  /\ finished = FALSE /\ trac = Outside /\ interrupted = {}
  /\ setbacks = [failures |-> 0, kills |-> 0, wishes |-> 0]

TracGoto(step) == trac' = [trac EXCEPT !.at = step]

\* The pass ends, with an exception or without.
Fails ==
  /\ setbacks.failures < MaxTracFailures
  /\ setbacks' = [setbacks EXCEPT !.failures = @ + 1]
  /\ TracGoto("idle")

\* What it was making is there, and not complete: the next pass takes it for made.
FailsWithin(what) == interrupted' = interrupted \cup {what} /\ Fails

-----------------------------------------------------------------------------
\* Mutant: the file of the last pass is left.
CheckSite_Leave ==
  /\ trac.at = "idle"
  /\ trac' = [at |-> IF site = "none" THEN "init" ELSE "list", asked |-> wishes]
  /\ UNCHANGED <<wishes, site, granted, items, users, finished, interrupted, setbacks>>

\* The directory tells whether the site is there.
CheckSite ==
  /\ trac.at = "idle"
  /\ finished' = FALSE
  /\ trac' = [at |-> IF site = "none" THEN "init" ELSE "list", asked |-> wishes]
  /\ UNCHANGED <<wishes, site, granted, items, users, interrupted, setbacks>>

\* A directory that initenv has left is removed, and nothing is raised; but for an error
\* in talking to it.
InitSite ==
  /\ trac.at = "init"
  /\ \/ site' = "bare" /\ TracGoto("copy") /\ UNCHANGED <<interrupted, setbacks>>
     \/ site' = "none" /\ Fails /\ UNCHANGED interrupted
     \/ site' = "bare" /\ FailsWithin("site")
  /\ UNCHANGED <<wishes, granted, items, users, finished>>

\* The directories of the repositories, the configuration and the script of the server.
CopyFiles ==
  /\ trac.at = "copy"
  /\ \/ site' = "whole" /\ TracGoto("grant") /\ UNCHANGED <<interrupted, setbacks>>
     \/ UNCHANGED site /\ FailsWithin("site")
  /\ UNCHANGED <<wishes, granted, items, users, finished>>

\* 'repository list' of a site that is there.
ListRepositories ==
  /\ trac.at = "list"
  /\ \/ TracGoto("grant") /\ UNCHANGED setbacks
     \/ Fails
  /\ UNCHANGED <<wishes, site, granted, items, users, finished, interrupted>>

Grant ==
  /\ trac.at = "grant"
  /\ \/ granted' = TRUE /\ TracGoto("plugins") /\ UNCHANGED setbacks
     \/ UNCHANGED granted /\ Fails
  /\ UNCHANGED <<wishes, site, items, users, finished, interrupted>>

\* A plugin that is there is not copied again.
CopyPlugins ==
  \/ /\ trac.at = "copying"
     /\ \/ /\ items' = [items EXCEPT !["plugin"] = "whole"] /\ TracGoto("svn")
           /\ UNCHANGED <<interrupted, setbacks>>
        \/ UNCHANGED items /\ FailsWithin("plugin")
     /\ UNCHANGED <<wishes, site, granted, users, finished>>
  \/ /\ trac.at = "plugins"
     /\ IF items["plugin"] = "none"
        THEN items' = [items EXCEPT !["plugin"] = "bare"] /\ TracGoto("copying")
        ELSE UNCHANGED items /\ TracGoto("svn")
     /\ UNCHANGED <<wishes, site, granted, users, finished, interrupted, setbacks>>

Todo(repository) == repository \in trac.asked /\ items[repository] = "none"

\* Half a repository is removed if the script fails; the hooks are copied if it succeeds.
MakeSvn ==
  \/ /\ trac.at = "svn" /\ ~Todo("svn") /\ TracGoto("git")
     /\ UNCHANGED <<wishes, site, granted, items, users, finished, interrupted, setbacks>>
  \/ /\ trac.at = "svn" /\ Todo("svn")
     /\ items' = [items EXCEPT !["svn"] = "bare"] /\ TracGoto("hooks")
     /\ UNCHANGED <<wishes, site, granted, users, finished, interrupted, setbacks>>
  \/ /\ trac.at = "hooks"
     /\ \/ items' = [items EXCEPT !["svn"] = "none"] /\ Fails /\ UNCHANGED interrupted
        \/ /\ items' = [items EXCEPT !["svn"] = "whole"] /\ TracGoto("git")
           /\ UNCHANGED <<interrupted, setbacks>>
        \/ UNCHANGED items /\ FailsWithin("svn")
     /\ UNCHANGED <<wishes, site, granted, users, finished>>

\* 'git init', and then 'repository add' and 'resync', the hook and the description: what
\* fails once the directory is there is not tried again.
MakeGit ==
  \/ /\ trac.at = "git" /\ ~Todo("git") /\ TracGoto("users")
     /\ UNCHANGED <<wishes, site, granted, items, users, finished, interrupted, setbacks>>
  \/ /\ trac.at = "git" /\ Todo("git")
     /\ \/ /\ items' = [items EXCEPT !["git"] = "bare"] /\ TracGoto("add")
           /\ UNCHANGED <<interrupted, setbacks>>
        \/ UNCHANGED items /\ Fails /\ UNCHANGED interrupted
        \/ items' = [items EXCEPT !["git"] = "bare"] /\ FailsWithin("git")
     /\ UNCHANGED <<wishes, site, granted, users, finished>>
  \/ /\ trac.at = "add"
     /\ \/ /\ items' = [items EXCEPT !["git"] = "whole"] /\ TracGoto("users")
           /\ UNCHANGED <<interrupted, setbacks>>
        \/ UNCHANGED items /\ FailsWithin("git")
     /\ UNCHANGED <<wishes, site, granted, users, finished>>

\* The file is made anew with the admin, by a program whose status nobody reads, and
\* then each user is added.
AddUsers ==
  \/ /\ trac.at = "users"
     /\ \/ /\ users' = {"admin"} /\ interrupted' = interrupted \ {"users"}
           /\ TracGoto("user") /\ UNCHANGED setbacks
        \/ /\ UNCHANGED users /\ interrupted' = interrupted \cup {"users"}
           /\ setbacks.failures < MaxTracFailures
           /\ setbacks' = [setbacks EXCEPT !.failures = @ + 1] /\ TracGoto("user")
     /\ UNCHANGED <<wishes, site, granted, items, finished>>
  \/ /\ trac.at = "user"
     /\ \/ users' = users \cup ({"user"} \cap trac.asked) /\ TracGoto("done") /\ UNCHANGED setbacks
        \/ "user" \in trac.asked /\ UNCHANGED users /\ Fails
     /\ UNCHANGED <<wishes, site, granted, items, finished, interrupted>>

WriteStatusFile ==
  /\ trac.at = "done"
  /\ finished' = TRUE
  /\ TracGoto("idle")
  /\ UNCHANGED <<wishes, site, granted, items, users, interrupted, setbacks>>

-----------------------------------------------------------------------------
\* What a killed pass has half made is taken for made by the next.
KillTrac ==
  /\ trac.at # "idle" /\ setbacks.kills < MaxTracKills
  /\ setbacks' = [setbacks EXCEPT !.kills = @ + 1]
  /\ TracGoto("idle")
  /\ interrupted' = interrupted \cup {i \in Items : items[i] = "bare"}
                       \cup (IF site = "bare" THEN {"site"} ELSE {})
  /\ UNCHANGED <<wishes, site, granted, items, users, finished>>

\* The user asks for something else; buildout would run the recipe in its next pass.
ChangeWishes ==
  /\ trac.at = "idle" /\ setbacks.wishes < MaxWishes
  /\ setbacks' = [setbacks EXCEPT !.wishes = @ + 1]
  /\ wishes' \in SUBSET Wishes \ {wishes}
  /\ UNCHANGED <<site, granted, items, users, finished, trac, interrupted>>

TracNext ==
  \/ CheckSite \/ InitSite \/ CopyFiles \/ ListRepositories \/ Grant \/ CopyPlugins
  \/ MakeSvn \/ MakeGit \/ AddUsers \/ WriteStatusFile \/ KillTrac \/ ChangeWishes

TracSpec == TracInit /\ [][TracNext]_tracVars

-----------------------------------------------------------------------------
(* Properties. *)

\* A site that is said to be done has all that its last pass was asked for, whatever
\* programs failed in that pass or in one before, and whatever else the user had asked
\* for; and nothing in it is half made but what a kill or a failure left so, when the site,
\* the plugin or a repository was there and not complete, or the file of passwords if it
\* could not be made in that pass.
DoneIsComplete ==
  finished /\ trac.at = "idle" =>
    /\ site = "whole" \/ (site = "bare" /\ "site" \in interrupted)
    /\ granted
    /\ \A i \in Items :
         \/ items[i] = "whole"
         \/ items[i] = "bare" /\ i \in interrupted
         \/ items[i] = "none" /\ i \in Repositories \ trac.asked
    /\ "users" \notin interrupted => users = {"admin"} \cup ({"user"} \cap trac.asked)
=============================================================================
