-------------------------- MODULE SignalTranslation --------------------------
(***************************************************************************)
(* The script of a service that does not end on SIGTERM as it should         *)
(* (execute.execute_with_signal_translation, which generic_cloudooo uses):   *)
(* it starts the service in a process group of its own, waits for a signal   *)
(* and sends the group two others.  Supervisord starts the script again      *)
(* whenever it has ended; scripts are numbered in that order.  The service,  *)
(* which may end at any time, and supervisord are external.                  *)
(***************************************************************************)
EXTENDS Naturals

CONSTANT MaxScriptRuns  \* bound

ASSUME TranslationAssumption == MaxScriptRuns \in Nat \ {0}

VARIABLES
  current,   \* the script that runs, or ran last
  phase,     \* its phase
  group,     \* group[p], the group of p: "none", "runs", "hup" or "term" if it got a
             \* signal and runs, or "gone"
  orphaned   \* the script was killed, or got a signal before it knew its group (history)

translationVars == <<current, phase, group, orphaned>>

Scripts == 1..MaxScriptRuns

TranslationInit ==
  /\ current = 1 /\ phase = "start" /\ group = [p \in Scripts |-> "none"] /\ orphaned = FALSE

Enter(next) == phase' = next /\ UNCHANGED current

-----------------------------------------------------------------------------
\* Popen returns once the service is in its own group; or it raises.
StartGroup ==
  \/ /\ phase = "start" /\ Enter("started")
     /\ group' = [group EXCEPT ![current] = "runs"]
     /\ UNCHANGED orphaned
  \/ /\ phase = "start" /\ Enter("ended")
     /\ UNCHANGED <<group, orphaned>>

\* child_pg, the print, and signal.pause, which only a signal with a handler ends.
KnowGroup ==
  \/ phase = "started" /\ Enter("known") /\ UNCHANGED <<group, orphaned>>
  \/ phase = "known" /\ Enter("paused") /\ UNCHANGED <<group, orphaned>>

\* Mutant: the handler only exits.
SigHandler_Exit ==
  /\ phase \in {"start", "started", "known", "paused"}
  /\ Enter(IF phase = "paused" THEN "finally" ELSE "ended")
  /\ orphaned' = (orphaned \/ phase = "started")
  /\ UNCHANGED group

\* sig_handler of SIGINT, SIGQUIT and SIGTERM: the group is told if there is one.
SigHandler ==
  /\ phase \in {"start", "started", "known", "paused"}
  /\ Enter(CASE phase = "known" -> "handler" [] phase = "paused" -> "pausedHandler"
             [] OTHER -> "ended")
  /\ orphaned' = (orphaned \/ phase = "started")
  /\ UNCHANGED group

Told == CASE group[current] = "runs" -> "hup" [] group[current] = "hup" -> "term"
          [] OTHER -> group[current]

\* SIGHUP, and SIGTERM; and both again in the finally of the script that paused.
KillGroup ==
  /\ phase \in {"handler", "pausedHandler", "finally"}
  /\ group' = [group EXCEPT ![current] = Told]
  /\ Enter(CASE Told = "hup" -> phase [] Told # "hup" /\ phase = "pausedHandler" -> "finally"
             [] OTHER -> "ended")
  /\ UNCHANGED orphaned

-----------------------------------------------------------------------------
KillScript ==
  /\ phase # "ended" /\ Enter("ended")
  /\ orphaned' = (orphaned \/ group[current] \in {"runs", "hup"})
  /\ UNCHANGED group

\* The service ends by itself or upon either signal: the script does not notice.
ServiceEnds(p) ==
  /\ group[p] \in {"runs", "hup", "term"}
  /\ group' = [group EXCEPT ![p] = "gone"]
  /\ UNCHANGED <<current, phase, orphaned>>

RestartScript ==
  /\ phase = "ended" /\ current < MaxScriptRuns
  /\ current' = current + 1 /\ phase' = "start"
  /\ UNCHANGED <<group, orphaned>>

TranslationNext ==
  \/ StartGroup \/ KnowGroup \/ SigHandler \/ KillGroup \/ KillScript \/ RestartScript
  \/ \E p \in Scripts : ServiceEnds(p)

TranslationSpec == TranslationInit /\ [][TranslationNext]_translationVars

-----------------------------------------------------------------------------
(* Properties. *)

\* Only the group of the script that runs may not know that it must end: whenever and
\* however often the script is stopped, and started again, each service of an earlier one
\* has ended or has been sent the signal to terminate; unless a script was killed, or got
\* its signal before it had noted the group.
NoneLeft ==
  ~orphaned => \A p \in Scripts :
    group[p] \in {"runs", "hup"} => p = current /\ phase # "ended"
=============================================================================
