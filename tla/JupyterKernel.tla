---------------------------- MODULE JupyterKernel ----------------------------
(***************************************************************************)
(* The kernel that runs the cells of a notebook in ERP5 (ERP5kernel.py).    *)
(* Magics set the url, the user, the password and the reference that a      *)
(* request needs, one by one; once all are set each magic makes a request,  *)
(* and the status of the last answer decides whether code is sent.  ERP5    *)
(* may refuse, fail, or be cut off before or after it has run the code; the *)
(* user interrupts or restarts the kernel at any time.                      *)
(***************************************************************************)
EXTENDS Naturals, FiniteSets

CONSTANT MaxCells  \* bound: the cells of code

ASSUME KernelAssumption == MaxCells \in Nat

Required == {"url", "user", "password", "reference"}
Attributes == Required \cup {"title"}
Unset == ""
Values == {"right", "wrong"}

VARIABLES
  attr,      \* the attributes that magics set
  status,    \* status_code: that of the last answer, or "none"
  response,  \* what the next display shows
  kernel,    \* what the kernel is doing
  cell,      \* the cells of code that were executed
  runs,      \* how often ERP5 has run the last one
  shown      \* what was displayed for it

kernelVars == <<attr, status, response, kernel, cell, runs, shown>>

\* erp5_url may be given by buildout.
Fresh == {[a \in Attributes |-> IF a = "url" THEN url ELSE Unset] :
            url \in Values \cup {Unset}}

KernelInit ==
  /\ attr \in Fresh
  /\ status = "none" /\ response = "nothing"
  /\ kernel = "idle" /\ cell = 0 /\ runs = 0 /\ shown = "nothing"

AllowedCodes == {"200", "500"}   \* 500 to 510

Complete(attributes) == \A a \in Required : attributes[a] # Unset

-----------------------------------------------------------------------------
(* make_erp5_request. *)

Contents == {"result", "error", "text"}   \* json of a result or an error, or no json

\* What becomes of a request: its status ("lost" if there is no answer), its content,
\* and whether the code was run.
Answers ==
  LET Accepted == attr["url"] = "right" /\ attr["user"] = "right" /\ attr["password"] = "right"
  IN [status : {"lost"}, content : {"text"}, ran : IF Accepted THEN {0, 1} ELSE {0}]
     \cup [status : {"401", "500"}, content : {"text"}, ran : {0}]
     \cup IF Accepted
          THEN [status : {"200"}, content : Contents \ {"text"}, ran : {1}]
               \cup [status : {"200", "500"}, content : {"text"}, ran : {0, 1}]
          ELSE {}

\* Mutant: an error of the connection leaves the response before.
MakeRequest_KeepsResponse(answer, message) ==
  /\ status' = IF answer.status = "lost" THEN status ELSE answer.status
  /\ response' =
       CASE answer.status = "lost" -> response
         [] answer.status # "lost" /\ status' \notin AllowedCodes -> "refused"
         [] answer.status # "lost" /\ status' \in AllowedCodes ->
              IF message THEN "proceed" ELSE answer.content

MakeRequest(answer, message) ==
  /\ status' = IF answer.status = "lost" THEN status ELSE answer.status
  /\ response' =
       CASE answer.status = "lost" -> "text"
         [] answer.status # "lost" /\ status' \notin AllowedCodes -> "refused"
         [] answer.status # "lost" /\ status' \in AllowedCodes ->
              IF message THEN "proceed" ELSE answer.content

-----------------------------------------------------------------------------
(* do_execute of a magic. *)

\* A magic without value sets nothing; the reference comes after the three others.
SetMagic(a, value) ==
  /\ kernel = "idle"
  /\ attr' = IF value = Unset \/ (a = "reference"
                                  /\ \E b \in Required \ {"reference"} : attr[b] = Unset)
             THEN attr ELSE [attr EXCEPT ![a] = value]
  /\ kernel' = IF a # "title" /\ Complete(attr') THEN "magic" ELSE "idle"
  /\ response' = "message"
  /\ UNCHANGED <<status, cell, runs, shown>>

MyNotebooks ==
  /\ kernel = "idle"
  /\ kernel' = IF Complete(attr) THEN "notebooks" ELSE "idle"
  /\ response' = "message"
  /\ UNCHANGED <<attr, status, cell, runs, shown>>

MagicRequest ==
  /\ kernel \in {"magic", "notebooks"}
  /\ \E answer \in Answers : MakeRequest(answer, kernel = "magic")
  /\ kernel' = "idle"
  /\ UNCHANGED <<attr, cell, runs, shown>>

-----------------------------------------------------------------------------
(* do_execute of code. *)

Execute ==
  /\ kernel = "idle" /\ cell < MaxCells
  /\ cell' = cell + 1 /\ runs' = 0
  /\ IF status \in AllowedCodes THEN kernel' = "code" /\ shown' = "nothing"
     ELSE kernel' = "idle" /\ shown' = "unauthorized"
  /\ UNCHANGED <<attr, status, response>>

\* Only the status tells whether there is a result; there is one more request if not.
Code ==
  /\ kernel = "code"
  /\ \E answer \in Answers :
       /\ MakeRequest(answer, FALSE)
       /\ runs' = runs + answer.ran
  /\ IF status' = "200" THEN kernel' = "idle" /\ shown' = response'
     ELSE kernel' = "again" /\ UNCHANGED shown
  /\ UNCHANGED <<attr, cell>>

CodeAgain ==
  /\ kernel = "again"
  /\ \E answer \in Answers :
       /\ MakeRequest(answer, FALSE)
       /\ runs' = runs + answer.ran
  /\ kernel' = "idle" /\ shown' = "server_error"
  /\ UNCHANGED <<attr, cell>>

\* The user interrupts a request, which ERP5 may have carried out.
Interrupt ==
  /\ kernel # "idle"
  /\ kernel' = "idle"
  /\ \/ runs' = runs
     \/ kernel \in {"code", "again"} /\ \E answer \in Answers : runs' = runs + answer.ran
  /\ UNCHANGED <<attr, status, response, cell, shown>>

Restart ==
  /\ attr' \in Fresh
  /\ status' = "none" /\ response' = "nothing" /\ kernel' = "idle"
  /\ UNCHANGED <<cell, runs, shown>>

KernelNext ==
  \/ \E a \in Attributes, value \in Values \cup {Unset} : SetMagic(a, value)
  \/ MyNotebooks \/ MagicRequest \/ Execute \/ Code \/ CodeAgain \/ Interrupt \/ Restart

KernelSpec == KernelInit /\ [][KernelNext]_kernelVars

-----------------------------------------------------------------------------
(* Properties. *)

\* A result, or an error, that is shown for a cell is that of this cell, which was run
\* once; a cell is never run more than twice, and one that is run twice shows no result.
ResultIsOwn ==
  /\ shown \in {"result", "error"} => runs = 1
  /\ runs = 2 => shown \in {"nothing", "server_error"}
  /\ runs <= 2
=============================================================================
