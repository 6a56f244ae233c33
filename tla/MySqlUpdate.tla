----------------------------- MODULE MySqlUpdate -----------------------------
(***************************************************************************)
(* The program that brings a MariaDB server up to date each time it is       *)
(* started (slapos/recipe/generic_mysql/mysql.py): it upgrades the tables,   *)
(* runs the script that makes the databases and users, loads the time zones, *)
(* and starts over, later and later, when any of these fails.  It reads the  *)
(* script once, while slapgrid may write another one at any time.  The       *)
(* server, mysql_upgrade, mysql, slapgrid and supervisord are external.      *)
(***************************************************************************)
EXTENDS Naturals

CONSTANTS
  MaxSleep,                   \* 30 in the code
  MaxScripts, MaxMySqlFaults  \* bounds: scripts; crashes, errors and kills

ASSUME MySqlAssumption ==
  MaxSleep \in Nat /\ MaxScripts \in Nat \ {0} /\ MaxMySqlFaults \in Nat

VARIABLES
  update,    \* the program: its step, the script it read, and its last sleep
  scriptFile,  \* the number of the script in the file
  mysqld,    \* the server runs
  database,  \* what was done in it
  mysqlFaults

mysqlVars == <<update, scriptFile, mysqld, database, mysqlFaults>>

NotStarted == [at |-> "start", script |-> 0, sleep |-> 0]

MySqlInit ==
  /\ update = NotStarted /\ scriptFile = 1 /\ mysqld = FALSE
  /\ database = [upgraded |-> FALSE, script |-> 0, half |-> 0, zones |-> FALSE]
  /\ mysqlFaults = 0

MySqlFault == mysqlFaults < MaxMySqlFaults /\ mysqlFaults' = mysqlFaults + 1
Smaller(a, b) == IF a < b THEN a ELSE b

-----------------------------------------------------------------------------
ReadScript ==
  /\ update.at = "start"
  /\ update' = [update EXCEPT !.at = "upgrade", !.script = scriptFile]
  /\ UNCHANGED <<scriptFile, mysqld, database, mysqlFaults>>

MySqlUpgrade ==
  /\ update.at = "upgrade" /\ mysqld
  /\ database' = [database EXCEPT !.upgraded = TRUE]
  /\ update' = [update EXCEPT !.at = "script"]
  /\ UNCHANGED <<scriptFile, mysqld, mysqlFaults>>

\* mysql -B runs one statement after the other.
RunScript ==
  /\ mysqld
  /\ \/ /\ update.at = "script"
        /\ database' = [database EXCEPT !.half = update.script, !.script = 0]
        /\ update' = [update EXCEPT !.at = "rest"]
     \/ /\ update.at = "rest"
        /\ database' = [database EXCEPT !.script = update.script]
        /\ update' = [update EXCEPT !.at = "zones"]
  /\ UNCHANGED <<scriptFile, mysqld, mysqlFaults>>

\* mysql_tzinfo_to_sql, and mysql with what it said.
LoadZones ==
  /\ update.at = "zones" /\ mysqld
  /\ database' = [database EXCEPT !.zones = TRUE]
  /\ update' = [update EXCEPT !.at = "end"]
  /\ UNCHANGED <<scriptFile, mysqld, mysqlFaults>>

\* Mutant: what failed is not tried again, only what follows.
CommandFails_Next ==
  /\ update.at \in {"upgrade", "script", "rest", "zones"}
  /\ \/ ~mysqld /\ UNCHANGED mysqlFaults
     \/ mysqld /\ MySqlFault
  /\ update' = IF update.at = "rest" THEN [update EXCEPT !.at = "zones"]
               ELSE [update EXCEPT !.at = "sleep", !.sleep = Smaller(@ + 1, MaxSleep)]
  /\ UNCHANGED <<scriptFile, mysqld, database>>

\* Any command fails without the server, or for a reason of its own.
CommandFails ==
  /\ update.at \in {"upgrade", "script", "rest", "zones"}
  /\ \/ ~mysqld /\ UNCHANGED mysqlFaults
     \/ mysqld /\ MySqlFault
  /\ update' = [update EXCEPT !.at = "sleep", !.sleep = Smaller(@ + 1, MaxSleep)]
  /\ UNCHANGED <<scriptFile, mysqld, database>>

Retry ==
  /\ update.at = "sleep"
  /\ update' = [update EXCEPT !.at = "upgrade"]
  /\ UNCHANGED <<scriptFile, mysqld, database, mysqlFaults>>

-----------------------------------------------------------------------------
StartMySql ==
  /\ ~mysqld
  /\ mysqld' = TRUE
  /\ UNCHANGED <<update, scriptFile, database, mysqlFaults>>

CrashMySql ==
  /\ mysqld /\ MySqlFault
  /\ mysqld' = FALSE
  /\ UNCHANGED <<update, scriptFile, database>>

\* A new script, for other databases or users.
NewScript ==
  /\ scriptFile < MaxScripts
  /\ scriptFile' = scriptFile + 1
  /\ UNCHANGED <<update, mysqld, database, mysqlFaults>>

\* The instance is stopped and started.
RestartUpdate ==
  /\ update.at # "start" /\ MySqlFault
  /\ update' = NotStarted
  /\ UNCHANGED <<scriptFile, mysqld, database>>

\* Another version of the server, for which the program is started again.
NewServer ==
  /\ MySqlFault
  /\ mysqld' = FALSE /\ update' = NotStarted
  /\ database' = [database EXCEPT !.upgraded = FALSE]
  /\ UNCHANGED scriptFile

Update == ReadScript \/ MySqlUpgrade \/ RunScript \/ LoadZones \/ CommandFails \/ Retry

MySqlNext ==
  Update \/ StartMySql \/ CrashMySql \/ NewScript \/ RestartUpdate \/ NewServer

\* supervisord starts the server and the program.
MySqlSpec ==
  MySqlInit /\ [][MySqlNext]_mysqlVars /\ WF_mysqlVars(Update) /\ WF_mysqlVars(StartMySql)

-----------------------------------------------------------------------------
(* Properties. *)

\* Whatever fails, crashes or is started again, the program ends, and then the tables
\* are those of the server that runs, the whole script that it has read was run, after
\* any other, and the time zones are there.
Updated ==
  <>[](/\ update.at = "end"
       /\ database = [upgraded |-> TRUE, script |-> update.script, half |-> update.script,
                      zones |-> TRUE])
=============================================================================
