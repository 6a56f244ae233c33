----------------------------- MODULE MCWrappers -----------------------------
(* What a wrapper script does before its command, and what its processes do  *)
(* to each other: a behaviour is of one of them.                             *)
EXTENDS WaitFiles, GenericExec

CONSTANTS f1, f2, f3, d1, d2

\* Two files in one directory, and one in another.
MCFiles == {f1, f2, f3}
MCDirs == {d1, d2}
MCDirOf == [f \in MCFiles |-> IF f = f3 THEN d2 ELSE d1]

VARIABLE which

allVars == <<which, vars, execVars>>

NoFiles ==
  /\ exists = {} /\ pending = [f \in Files |-> "none"] /\ pc = "done" /\ toCheck = {}
  /\ watched = {} /\ known = {} /\ seen = {} /\ together = FALSE
  /\ disturbed = FALSE /\ changes = 0

MCInit ==
  /\ which \in {"wait", "exec"}
  /\ IF which = "wait" THEN Init ELSE NoFiles
  /\ ExecInit /\ (which = "exec" \/ options = [redirect |-> FALSE, sigIgn |-> FALSE])

OfWait(A) == which = "wait" /\ A /\ UNCHANGED <<which, execVars>>
OfExec(A) == which = "exec" /\ A /\ UNCHANGED <<which, vars>>

MCNext == OfWait(Next) \/ OfExec(ExecNext)

\* The wrapper that waits is a process that goes on.
MCSpec == MCInit /\ [][MCNext]_allVars /\ WF_allVars(OfWait(Wrapper))
=============================================================================
