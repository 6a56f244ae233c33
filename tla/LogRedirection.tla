---------------------------- MODULE LogRedirection ----------------------------
(***************************************************************************)
(* generic_exec with a redirection (slapos/recipe/librecipe/execute.py):    *)
(* the wrapper stays the parent of the command, copies what it reads from    *)
(* its pipes to log files, and opens these again each time logrotate, having *)
(* renamed them, sends the signal.  The handler only writes to a pipe of the *)
(* wrapper itself, the trigger, that the loop selects with the others.       *)
(* Logrotate and the command are external.                                  *)
(***************************************************************************)
EXTENDS Naturals, Sequences
LOCAL INSTANCE SequencesExt

CONSTANTS MaxLines, MaxRotations  \* bounds: lines of each stream, rotations

ASSUME RedirectionAssumption == MaxLines \in Nat /\ MaxRotations \in Nat

VARIABLES
  loop,      \* the wrapper: "start", "spawned", "handler", "select", "closing" or "end"
  logs,      \* logs, the pairs of a stream and the generation of the file that is open
  rfds,      \* the streams that are read, in the order of logs
  ready,     \* what select returned and is not handled yet, which is in the order of rfds
  toReopen,  \* the positions of logs that reopen() has still to open again
  trigger,   \* bytes are in the pipe of the handler
  signal,    \* what the signal of logrotate does: "ignored" or "caught"
  pipe,      \* pipe[s], what the command wrote and the wrapper has not read
  said,      \* said[s], the lines the command wrote
  open,      \* the streams that the command has not closed
  file,      \* file[s][g], what is in the g-th file of the log of s
  rotation   \* logrotate: "idle", or "renamed" before its signal

redirectionVars == <<loop, logs, rfds, ready, toReopen, trigger, signal, pipe, said, open,
                     file, rotation>>

Streams == {"stdout", "stderr"}
Pipe == 0                       \* what logs hold before they are first opened
Trigger == "trigger"
Latest(s) == Len(file[s])       \* the file that has the name of the log

RedirectionInit ==
  /\ loop = "start" /\ logs = <<>> /\ rfds = <<>> /\ ready = {} /\ toReopen = {}
  /\ trigger = FALSE /\ signal = "ignored" /\ rotation = "idle"
  /\ pipe = [s \in Streams |-> <<>>] /\ said = [s \in Streams |-> 0] /\ open = {}
  /\ file = [s \in Streams |-> <<<<>>>>]

\* It is the turn of the i-th stream.
Turn(i) ==
  /\ loop = "select" /\ toReopen = {} /\ Trigger \notin ready
  /\ rfds[i] \in ready /\ \A j \in 1..(i - 1) : rfds[j] \notin ready

-----------------------------------------------------------------------------
(* The wrapper. *)

\* The pipes are made and the command is spawned: stderr has its own log, or that of
\* stdout, or none.
Spawn ==
  /\ loop = "start" /\ loop' = "spawned"
  /\ \E streams \in {<<"stdout">>, <<"stdout", "stderr">>} :
       /\ rfds' = streams /\ open' = {streams[i] : i \in 1..Len(streams)}
       /\ logs' = [i \in 1..Len(streams) |-> <<streams[i], Pipe>>]
  /\ UNCHANGED <<ready, toReopen, trigger, signal, pipe, said, file, rotation>>

\* Mutant: the logs are opened before the handler is set.
CatchSignal_Late ==
  \/ /\ loop = "spawned" /\ loop' = "handler"
     /\ logs' = [i \in 1..Len(logs) |-> <<logs[i][1], Latest(logs[i][1])>>]
     /\ UNCHANGED <<rfds, ready, toReopen, trigger, signal, pipe, said, open, file, rotation>>
  \/ /\ loop = "handler" /\ loop' = "select"
     /\ signal' = "caught"
     /\ UNCHANGED <<logs, rfds, ready, toReopen, trigger, pipe, said, open, file, rotation>>

\* The handler is there before the logs are first opened.
CatchSignal ==
  \/ /\ loop = "spawned" /\ loop' = "handler"
     /\ signal' = "caught"
     /\ UNCHANGED <<logs, rfds, ready, toReopen, trigger, pipe, said, open, file, rotation>>
  \/ /\ loop = "handler" /\ loop' = "select"
     /\ toReopen' = 1..Len(logs)
     /\ UNCHANGED <<logs, rfds, ready, trigger, signal, pipe, said, open, file, rotation>>

\* reopen(): one log after the other.
Reopen ==
  /\ loop = "select" /\ toReopen # {}
  /\ LET i == CHOOSE i \in toReopen : \A j \in toReopen : i <= j IN
     /\ logs' = [logs EXCEPT ![i][2] = Latest(logs[i][1])]
     /\ toReopen' = toReopen \ {i}
  /\ UNCHANGED <<loop, rfds, ready, trigger, signal, pipe, said, open, file, rotation>>

Readable(s) == pipe[s] # <<>> \/ s \notin open

Select ==
  /\ loop = "select" /\ toReopen = {} /\ ready = {}
  /\ ready' = {s \in Streams : (\E i \in 1..Len(rfds) : rfds[i] = s) /\ Readable(s)}
              \cup (IF trigger THEN {Trigger} ELSE {})
  /\ ready' # {}
  /\ UNCHANGED <<loop, logs, rfds, toReopen, trigger, signal, pipe, said, open, file, rotation>>

\* All the bytes of the trigger, then reopen().
ReadTrigger ==
  /\ loop = "select" /\ toReopen = {} /\ Trigger \in ready
  /\ ready' = ready \ {Trigger}
  /\ trigger' = FALSE
  /\ toReopen' = 1..Len(logs)
  /\ UNCHANGED <<loop, logs, rfds, signal, pipe, said, open, file, rotation>>

\* What is read, 1024 bytes at most, goes to the log whose place is that of the stream.
Copy(i) ==
  /\ Turn(i) /\ pipe[rfds[i]] # <<>>
  /\ LET s == rfds[i] IN
     \E n \in 1..Len(pipe[s]) :
       /\ file' = [file EXCEPT ![logs[i][1]][logs[i][2]] = @ \o SubSeq(pipe[s], 1, n)]
       /\ pipe' = [pipe EXCEPT ![s] = SubSeq(@, n + 1, Len(@))]
  /\ ready' = ready \ {rfds[i]}
  /\ UNCHANGED <<loop, logs, rfds, toReopen, trigger, signal, said, open, rotation>>

\* The end of a stream: its log is closed, and after the last the signal is ignored.
EndOfStream(i) ==
  /\ Turn(i) /\ pipe[rfds[i]] = <<>>
  /\ logs' = RemoveAt(logs, i) /\ rfds' = RemoveAt(rfds, i)
  /\ ready' = ready \ {rfds[i]}
  /\ IF logs' = <<>> THEN loop' = "closing" /\ signal' = "ignored" ELSE UNCHANGED <<loop, signal>>
  /\ UNCHANGED <<toReopen, trigger, pipe, said, open, file, rotation>>

\* process.wait().
Wait ==
  /\ loop = "closing" /\ loop' = "end"
  /\ UNCHANGED <<logs, rfds, ready, toReopen, trigger, signal, pipe, said, open, file, rotation>>

-----------------------------------------------------------------------------
(* The command, and logrotate. *)

Say(s) ==
  /\ s \in open /\ said[s] < MaxLines
  /\ said' = [said EXCEPT ![s] = @ + 1]
  /\ pipe' = [pipe EXCEPT ![s] = Append(@, said'[s])]
  /\ UNCHANGED <<loop, logs, rfds, ready, toReopen, trigger, signal, open, file, rotation>>

Close(s) ==
  /\ s \in open
  /\ open' = open \ {s}
  /\ UNCHANGED <<loop, logs, rfds, ready, toReopen, trigger, signal, pipe, said, file, rotation>>

\* The logs are renamed, and new ones take their names.
Rename ==
  /\ rotation = "idle" /\ Latest("stdout") <= MaxRotations
  /\ rotation' = "renamed"
  /\ file' = [s \in Streams |-> Append(file[s], <<>>)]
  /\ UNCHANGED <<loop, logs, rfds, ready, toReopen, trigger, signal, pipe, said, open>>

\* The signal, which the handler turns into a byte.
Signal ==
  /\ rotation = "renamed" /\ rotation' = "idle"
  /\ trigger' = (trigger \/ signal = "caught")
  /\ UNCHANGED <<loop, logs, rfds, ready, toReopen, signal, pipe, said, open, file>>

Redirecting == \/ Spawn \/ CatchSignal \/ Reopen \/ Select \/ ReadTrigger \/ Wait
               \/ \E i \in 1..Len(rfds) : Copy(i) \/ EndOfStream(i)

RedirectionNext ==
  \/ Redirecting \/ Rename \/ Signal
  \/ \E s \in Streams : Say(s) \/ Close(s)

RedirectionSpec == RedirectionInit /\ [][RedirectionNext]_redirectionVars

-----------------------------------------------------------------------------
(* Properties. *)

\* What the command says on a stream is in the files of the log of that stream, each
\* line once and in order, but for what is still in the pipe: whatever the moments
\* of the rotations, and when one stream ends before the other.
NothingLost ==
  \A s \in Streams : FlattenSeq(file[s]) \o pipe[s] = [n \in 1..said[s] |-> n]

\* A wrapper that has nothing more to do writes to the files that have the names of
\* its logs: no rotation is missed, not even one whose signal came while the wrapper
\* was starting and ignored it.  Logrotate may thus compress the others.
RotationsSeen ==
  loop = "select" /\ rotation = "idle" /\ ~trigger /\ toReopen = {} =>
    \A i \in 1..Len(logs) : logs[i][2] = Latest(logs[i][1])

\* A log is complete and goes where its name is.
LogsAreKept == NothingLost /\ RotationsSeen
=============================================================================
