----------------------------- MODULE GenericExec -----------------------------
(***************************************************************************)
(* generic_exec (slapos/recipe/librecipe/execute.py): the life of the      *)
(* processes started from one wrapper script that has a pidfile.  A        *)
(* process ignores the signal of logrotate, reads the pidfile, gives up if *)
(* the pid it holds is that of a running command, else registers itself in *)
(* it, possibly waits for files (module WaitFiles), and becomes the        *)
(* command, or spawns it if it has to redirect its output.                 *)
(***************************************************************************)

CONSTANTS
  Procs,           \* the processes started from the wrapper
  NoPid, Empty     \* no pidfile; a pidfile that is truncated and not yet written

ASSUME GenericExecAssumption == NoPid \notin Procs /\ Empty \notin Procs /\ NoPid # Empty

VARIABLES
  options,    \* of the wrapper: its output is redirected; sig-ign is given
  phase,      \* where each process is
  pidfile,    \* its content
  found,      \* what each process has read in it
  handler,    \* what the signal of logrotate does to each process
  overlapped  \* a process started while another was starting (history)

execVars == <<options, phase, pidfile, found, handler, overlapped>>

Starting == {"read", "inspect", "claim", "write", "wait"}
Alive(p) == phase[p] \in Starting \cup {"spawned", "running"}

\* The command runs: in place of the wrapper, or as its child.
Commands == {p \in Procs : phase[p] \in {"spawned", "running"}}

ExecInit ==
  /\ options \in [redirect : BOOLEAN, sigIgn : BOOLEAN]
  /\ overlapped = FALSE
  /\ phase = [p \in Procs |-> "off"]
  /\ pidfile = NoPid
  /\ found = [p \in Procs |-> NoPid]
  /\ handler = [p \in Procs |-> "default"]

Goto(p, label) == phase' = [phase EXCEPT ![p] = label]

-----------------------------------------------------------------------------
\* Mutant: nothing is done about the signal before the pidfile is written.
Start_NoSigIgn(p) ==
  /\ phase[p] = "off"
  /\ overlapped' = (overlapped \/ \E q \in Procs : phase[q] \in Starting)
  /\ Goto(p, "read")
  /\ UNCHANGED <<options, pidfile, found, handler>>

\* "All the SIG_IGN stuff": USR1 if redirect, or what sig-ign says.
Start(p) ==
  /\ phase[p] = "off"
  /\ overlapped' = (overlapped \/ \E q \in Procs : phase[q] \in Starting)
  /\ Goto(p, "read")
  /\ handler' = IF options.redirect \/ options.sigIgn
                THEN [handler EXCEPT ![p] = "ignored"] ELSE handler
  /\ UNCHANGED <<options, pidfile, found>>

\* A pidfile that is absent or empty does not stop the process.
ReadPidfile(p) ==
  /\ phase[p] = "read"
  /\ found' = [found EXCEPT ![p] = pidfile]
  /\ \/ pidfile \in Procs /\ Goto(p, "inspect")
     \/ pidfile \notin Procs /\ Goto(p, "claim")
  /\ UNCHANGED <<options, pidfile, handler, overlapped>>

\* Mutant: the command line is not compared with that of the pid.
Running_Never(q) == FALSE

\* psutil.Process(q).cmdline() is the command: not that of the wrapper script,
\* which q shows until it becomes the command, and for ever if it redirects.
Running(q) == phase[q] = "running" /\ ~options.redirect

\* "Already running with pid": the process ends.
Inspect(p) ==
  /\ phase[p] = "inspect"
  /\ \/ Running(found[p]) /\ Goto(p, "refused")
     \/ ~Running(found[p]) /\ Goto(p, "claim")
  /\ UNCHANGED <<options, pidfile, found, handler, overlapped>>

\* open(pidfile, 'w'), the clean-up being registered.
Truncate(p) ==
  /\ phase[p] = "claim"
  /\ pidfile' = Empty
  /\ Goto(p, "write")
  /\ UNCHANGED <<options, found, handler, overlapped>>

WritePid(p) ==
  /\ phase[p] = "write"
  /\ pidfile' = p
  /\ Goto(p, "wait")
  /\ UNCHANGED <<options, found, handler, overlapped>>

\* The wait for files, or what follows, raises (parse_signal(None), when there is a
\* redirection without redirect-signal): the clean-up removes the pidfile.
Abort(p) ==
  /\ phase[p] = "wait"
  /\ Goto(p, "ended")
  /\ pidfile' = NoPid
  /\ UNCHANGED <<options, found, handler, overlapped>>

\* execv, which keeps an ignored signal ignored and forgets the clean-up.
Exec(p) ==
  /\ phase[p] = "wait" /\ ~options.redirect
  /\ Goto(p, "running")
  /\ UNCHANGED <<options, pidfile, found, handler, overlapped>>

\* The command sets up its own handler.
SetupHandler(p) ==
  /\ phase[p] = "running" /\ ~options.redirect
  /\ handler' = [handler EXCEPT ![p] = "caught"]
  /\ UNCHANGED <<options, phase, pidfile, found, overlapped>>

\* subprocess.Popen, in the wrapper that will copy the output of the command.
Redirection(p) ==
  /\ phase[p] = "wait" /\ options.redirect
  /\ Goto(p, "spawned")
  /\ UNCHANGED <<options, pidfile, found, handler, overlapped>>

\* signal.signal(sig_ign, sighandler), once the child is there.
SetSigHandler(p) ==
  /\ phase[p] = "spawned"
  /\ handler' = [handler EXCEPT ![p] = "caught"]
  /\ Goto(p, "running")
  /\ UNCHANGED <<options, pidfile, found, overlapped>>

\* The command ends: its pidfile stays, unless the wrapper is still there.
End(p) ==
  /\ phase[p] = "running"
  /\ Goto(p, "ended")
  /\ pidfile' = IF options.redirect THEN NoPid ELSE pidfile
  /\ UNCHANGED <<options, found, handler, overlapped>>

\* supervisord stops the process: there is no clean-up.
Kill(p) ==
  /\ Alive(p)
  /\ Goto(p, "ended")
  /\ UNCHANGED <<options, pidfile, found, handler, overlapped>>

\* logrotate sends its signal to the process it finds in the pidfile.
LogRotate ==
  /\ pidfile \in Procs
  /\ Alive(pidfile) /\ handler[pidfile] = "default"
  /\ Goto(pidfile, "killed")
  /\ UNCHANGED <<options, pidfile, found, handler, overlapped>>

-----------------------------------------------------------------------------
ExecNext ==
  \/ \E p \in Procs :
       \/ Start(p) \/ ReadPidfile(p) \/ Inspect(p) \/ Truncate(p) \/ WritePid(p)
       \/ Abort(p) \/ Exec(p) \/ SetupHandler(p) \/ Redirection(p)
       \/ SetSigHandler(p) \/ End(p) \/ Kill(p)
  \/ LogRotate

ExecSpec == ExecInit /\ [][ExecNext]_execVars

-----------------------------------------------------------------------------
(* Properties *)

\* The types.
ExecTypeOK ==
  /\ options \in [redirect : BOOLEAN, sigIgn : BOOLEAN]
  /\ phase \in [Procs -> Starting \cup {"off", "refused", "spawned", "running",
                                        "ended", "killed"}]
  /\ pidfile \in Procs \cup {NoPid, Empty}
  /\ found \in [Procs -> Procs \cup {NoPid, Empty}]
  /\ handler \in [Procs -> {"default", "ignored", "caught"}]
  /\ overlapped \in BOOLEAN

\* The command runs at most once, if the processes of the wrapper do not start at
\* the same time.
Exclusive == ~overlapped => \A p, q \in Commands : p = q

\* "pidfile ensure exclusivity for the process" (wrapper.py:41): it does when the
\* process becomes the command, after any sequence of stale pidfiles, refused
\* processes, failed starts and kills.
ExclusiveCommand == ~options.redirect => Exclusive

\* Under the same conditions the pidfile names the command that runs: a process
\* that is refused, a stale pidfile or a clean-up does not make logrotate lose it.
PidfileNamesCommand ==
  ~overlapped /\ ~options.redirect => \A p \in Commands : pidfile = p

\* The signal of logrotate never kills a process, whatever the moment, when the
\* wrapper was told to ignore it; and processes may well start together.
NeverKilledBySignal ==
  options.redirect \/ options.sigIgn => \A p \in Procs : phase[p] # "killed"
=============================================================================
