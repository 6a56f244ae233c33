----------------------------- MODULE Publication -----------------------------
(***************************************************************************)
(* How a partition publishes the connection parameters of its shared         *)
(* instances, one part for each (recipe publish_failsafe, as rapid-cdn uses   *)
(* it): an error of the SlapOS master does not stop the others, it is written *)
(* to a file, and the part tries again as long as there is one.  Buildout     *)
(* uninstalls a part whose options change, installs it, and records them; it  *)
(* updates a part whose options are those recorded.  Buildout and the SlapOS  *)
(* master are external.                                                      *)
(***************************************************************************)
EXTENDS Naturals

CONSTANTS
  Shared,                                          \* the shared instances
  MaxInformation, MaxPublishErrors, MaxPublishKills  \* bounds: different information,
                                                   \* errors of the master, kills

ASSUME PublicationAssumption ==
  MaxInformation \in Nat \ {0} /\ MaxPublishErrors \in Nat /\ MaxPublishKills \in Nat

VARIABLES
  information,  \* information[s], what is to be published for s; 0 once s is destroyed
  public,       \* public[s], what the SlapOS master has
  statusFile,   \* the shared instances that have an error status file
  recorded,     \* recorded[s], the options in .installed.cfg; 0 if there are none
  run,          \* the pass of buildout: its step, the shared instance it is at, those
                \* that are left, and the options it has computed
  cut,          \* those that a killed pass has uninstalled, still recorded (history)
  troubles      \* errors and kills so far

publicationVars == <<information, public, statusFile, recorded, run, cut, troubles>>

NoRun == [at |-> "idle", s |-> "nobody", todo |-> {}, options |-> <<>>]

PublicationInit ==
  /\ information = [s \in Shared |-> 1]
  /\ public = [s \in Shared |-> 0] /\ recorded = public
  /\ statusFile = {} /\ cut = {} /\ run = NoRun
  /\ troubles = [errors |-> 0, kills |-> 0]

-----------------------------------------------------------------------------
\* The options of all the parts, and the parts to uninstall.
StartRun ==
  /\ run.at = "idle"
  /\ run' = [NoRun EXCEPT !.at = "uninstall", !.options = information,
               !.todo = {s \in Shared : recorded[s] \notin {0, information[s]}}]
  /\ UNCHANGED <<information, public, statusFile, recorded, cut, troubles>>

\* uninstall, the entry point that buildout calls.
UninstallPart(s) ==
  /\ run.at = "uninstall" /\ s \in run.todo
  /\ statusFile' = statusFile \ {s}
  /\ run' = [run EXCEPT !.at = "forget", !.s = s]
  /\ UNCHANGED <<information, public, recorded, cut, troubles>>

\* Buildout writes .installed.cfg again, without the part.
ForgetPart ==
  /\ run.at = "forget"
  /\ recorded' = [recorded EXCEPT ![run.s] = 0] /\ cut' = cut \ {run.s}
  /\ run' = [run EXCEPT !.at = "uninstall", !.s = "nobody", !.todo = @ \ {run.s}]
  /\ UNCHANGED <<information, public, statusFile, troubles>>

UninstalledAll ==
  /\ run.at = "uninstall" /\ run.todo = {}
  /\ run' = [run EXCEPT !.at = "parts", !.todo = {s \in Shared : run.options[s] # 0}]
  /\ UNCHANGED <<information, public, statusFile, recorded, cut, troubles>>

InstallPart(s) ==
  /\ run.at = "parts" /\ s \in run.todo
  /\ recorded[s] = 0
  /\ run' = [run EXCEPT !.at = "call", !.s = s, !.todo = @ \ {s}]
  /\ UNCHANGED <<information, public, statusFile, recorded, cut, troubles>>

\* "last run failed, so need to reinstall".
UpdatePart(s) ==
  /\ run.at = "parts" /\ s \in run.todo
  /\ recorded[s] # 0
  /\ run' = IF s \in statusFile THEN [run EXCEPT !.at = "call", !.s = s, !.todo = @ \ {s}]
            ELSE [run EXCEPT !.todo = @ \ {s}]
  /\ UNCHANGED <<information, public, statusFile, recorded, cut, troubles>>

\* setConnectionDict: the error may come after the master has stored the parameters.
SetConnection(fails, sent) ==
  /\ run.at = "call"
  /\ fails => troubles.errors < MaxPublishErrors
  /\ troubles' = IF fails THEN [troubles EXCEPT !.errors = @ + 1] ELSE troubles
  /\ public' = IF fails /\ ~sent THEN public ELSE [public EXCEPT ![run.s] = run.options[run.s]]
  /\ run' = [run EXCEPT !.at = IF fails THEN "failed" ELSE "succeeded"]
  /\ UNCHANGED <<information, statusFile, recorded, cut>>

\* Mutant: the file is removed whatever happens.
WriteStatus_Always ==
  /\ run.at \in {"failed", "succeeded"}
  /\ statusFile' = statusFile \ {run.s}
  /\ run' = [run EXCEPT !.at = "record"]
  /\ UNCHANGED <<information, public, recorded, cut, troubles>>

\* The error is written to the file, which is removed if there is none.
WriteStatus ==
  /\ run.at \in {"failed", "succeeded"}
  /\ statusFile' = IF run.at = "failed" THEN statusFile \cup {run.s} ELSE statusFile \ {run.s}
  /\ run' = [run EXCEPT !.at = "record"]
  /\ UNCHANGED <<information, public, recorded, cut, troubles>>

RecordPart ==
  /\ run.at = "record"
  /\ recorded' = [recorded EXCEPT ![run.s] = run.options[run.s]]
  /\ run' = [run EXCEPT !.at = "parts", !.s = "nobody"]
  /\ UNCHANGED <<information, public, statusFile, cut, troubles>>

EndRun ==
  /\ run.at = "parts" /\ run.todo = {}
  /\ run' = NoRun
  /\ UNCHANGED <<information, public, statusFile, recorded, cut, troubles>>

-----------------------------------------------------------------------------
KillRun ==
  /\ run.at # "idle" /\ troubles.kills < MaxPublishKills
  /\ troubles' = [troubles EXCEPT !.kills = @ + 1]
  /\ cut' = IF run.at = "forget" THEN cut \cup {run.s} ELSE cut
  /\ run' = NoRun
  /\ UNCHANGED <<information, public, statusFile, recorded>>

\* Other information, or what was there before.
NewInformation(s, new) ==
  /\ information[s] \notin {0, new}
  /\ information' = [information EXCEPT ![s] = new]
  /\ UNCHANGED <<public, statusFile, recorded, run, cut, troubles>>

DestroyShared(s) ==
  /\ information[s] # 0
  /\ information' = [information EXCEPT ![s] = 0]
  /\ UNCHANGED <<public, statusFile, recorded, run, cut, troubles>>

PublicationNext ==
  \/ StartRun \/ UninstalledAll \/ WriteStatus \/ RecordPart \/ EndRun
  \/ ForgetPart \/ KillRun
  \/ \E fails, sent \in BOOLEAN : SetConnection(fails, sent)
  \/ \E s \in Shared : \/ UninstallPart(s) \/ InstallPart(s) \/ UpdatePart(s) \/ DestroyShared(s)
                       \/ \E new \in 1..MaxInformation : NewInformation(s, new)

PublicationSpec == PublicationInit /\ [][PublicationNext]_publicationVars

-----------------------------------------------------------------------------
(* Properties. *)

\* What buildout takes for published is published, or its part has an error status file
\* that makes the next pass publish it and a promise tell of it, or is being uninstalled:
\* no error, kill or change of the information leaves a user with parameters that are out
\* of date and that nothing will put right; unless a pass was killed after it had removed
\* the file of a part and before .installed.cfg said that the part is uninstalled.
PublishedOrRetried ==
  \A s \in Shared :
    recorded[s] # 0 =>
      public[s] = recorded[s] \/ s \in statusFile \/ s \in cut
        \/ (run.at = "forget" /\ run.s = s)
=============================================================================
