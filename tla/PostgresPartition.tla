-------------------------- MODULE PostgresPartition --------------------------
(***************************************************************************)
(* A partition that runs a PostgreSQL server, on a port and with a password *)
(* that the first pass of slapgrid chooses and the next ones find again     *)
(* (recipes postgres, generate.password and free_port).  slapgrid may be    *)
(* killed, commands fail, other processes take ports; supervisord starts    *)
(* the server, once a pass is complete, and it may stop or crash.           *)
(* initdb, postgres, psql and pg_ctl are external.                          *)
(***************************************************************************)
EXTENDS Naturals

CONSTANTS
  minimum, maximum,  \* of the ports
  MaxFaults,         \* bound: failures, kills and crashes
  MaxPasses          \* bound: passwords, of which a pass makes one at most

ASSUME PostgresAssumption ==
  /\ minimum \in Nat \ {0} /\ maximum \in Nat /\ minimum < maximum
  /\ MaxFaults \in Nat /\ MaxPasses \in Nat

Ports == minimum..maximum
NoPort == 0
Nothing == 0   \* no password, or a file that does not exist or is empty

VARIABLES
  pass,       \* the running pass: its step, port and password
  installed,  \* the port in the .installed file
  storage,    \* the password in storage-path
  passwords,  \* how many were generated
  pg,         \* pgdata: whether it exists, has the database, and its password and port
  script,     \* postgres-start
  deployed,   \* a pass was complete, supervisord knows the service
  server,     \* the port of the running server, or NoPort
  pidFile,    \* postmaster.pid
  others,     \* the ports that other processes use
  ok,         \* the last pass was complete (history)
  spoilt,     \* what the property excepts happened (history)
  faults

vars == <<pass, installed, storage, passwords, pg, script, deployed, server, pidFile,
          others, ok, spoilt, faults>>

Resting == [at |-> "idle", port |-> NoPort, password |-> Nothing, creates |-> FALSE]
NoCluster == [exists |-> FALSE, database |-> FALSE, password |-> Nothing, port |-> NoPort]

Init ==
  /\ pass = Resting /\ installed = NoPort /\ storage = Nothing /\ passwords = 0
  /\ pg = NoCluster /\ script = FALSE /\ deployed = FALSE
  /\ server = NoPort /\ pidFile = FALSE
  /\ others \in SUBSET Ports
  /\ ok = FALSE /\ spoilt = FALSE /\ faults = 0

Fault == faults < MaxFaults /\ faults' = faults + 1

World == UNCHANGED <<deployed, server, others, faults>>
Goto(at) == pass' = [pass EXCEPT !.at = at]

-----------------------------------------------------------------------------
(* A pass: the port and the password. *)

Free == {p \in minimum..(maximum - 1) : p \notin others \cup {server}}

\* Mutant: the port of the last installation is not read.
Start_NewPort ==
  /\ pass.at = "idle"
  /\ pass' = [Resting EXCEPT !.at = "password", !.port =
                IF Free = {} THEN NoPort ELSE CHOOSE p \in Free : \A q \in Free : p <= q]
  /\ ok' = FALSE
  /\ UNCHANGED <<installed, storage, passwords, pg, script, pidFile, spoilt>> /\ World

\* free_port: the port of the last installation, or the least that can be bound.
Start ==
  /\ pass.at = "idle"
  /\ pass' = [Resting EXCEPT !.at = "password", !.port =
                IF installed # NoPort THEN installed
                ELSE IF Free = {} THEN NoPort
                ELSE CHOOSE p \in Free : \A q \in Free : p <= q]
  /\ ok' = FALSE
  /\ UNCHANGED <<installed, storage, passwords, pg, script, pidFile, spoilt>> /\ World

\* generate.password: what is stored, or a new one, which is to be stored.
Password ==
  /\ pass.at = "password"
  /\ IF storage # Nothing
     THEN pass' = [pass EXCEPT !.at = "port", !.password = storage] /\ UNCHANGED passwords
     ELSE /\ passwords < MaxPasses /\ passwords' = passwords + 1
          /\ pass' = [pass EXCEPT !.at = "port", !.password = passwords']
  /\ UNCHANGED <<installed, storage, pg, script, pidFile, ok, spoilt>> /\ World

\* buildout records the parts as it installs them.
RecordPort ==
  /\ pass.at = "port"
  /\ installed' = pass.port
  /\ Goto(IF storage = pass.password THEN "postgres" ELSE "open")
  /\ UNCHANGED <<storage, passwords, pg, script, pidFile, ok, spoilt>> /\ World

StorePassword ==
  /\ \/ pass.at = "open" /\ storage' = Nothing /\ Goto("write")
     \/ pass.at = "write" /\ storage' = pass.password /\ Goto("postgres")
  /\ UNCHANGED <<installed, passwords, pg, script, pidFile, ok, spoilt>> /\ World

-----------------------------------------------------------------------------
(* postgres: Recipe.install. *)

\* The steps that make a cluster, and those that update one.
Postgres ==
  /\ pass.at = "postgres"
  /\ pass' = [pass EXCEPT !.at = IF pg.exists THEN "config" ELSE "initdb",
                          !.creates = ~pg.exists]
  /\ UNCHANGED <<installed, storage, passwords, pg, script, pidFile, ok, spoilt>> /\ World

CreateCluster ==
  /\ pass.at = "initdb"
  /\ pg' = [pg EXCEPT !.exists = TRUE]
  /\ Goto("config")
  /\ UNCHANGED <<installed, storage, passwords, script, pidFile, ok, spoilt>> /\ World

CreateConfig ==
  /\ pass.at = "config"
  /\ pg' = [pg EXCEPT !.port = pass.port]
  /\ Goto(IF pass.creates THEN "database" ELSE "script")
  /\ UNCHANGED <<installed, storage, passwords, script, pidFile, ok, spoilt>> /\ World

CreateRunScript ==
  /\ pass.at = "script"
  /\ script' = TRUE
  /\ Goto(IF pass.creates THEN "end" ELSE "status")
  /\ UNCHANGED <<installed, storage, passwords, pg, pidFile, ok, spoilt>> /\ World

\* runPostgresCommand does not look at the status of postgres --single, which does
\* nothing if it fails, or if a server has the cluster.
CreateDatabase ==
  /\ pass.at = "database"
  /\ \/ pg' = [pg EXCEPT !.database = TRUE] /\ UNCHANGED <<spoilt, faults>>
     \/ Fault /\ spoilt' = TRUE /\ UNCHANGED pg
  /\ Goto("status")
  /\ UNCHANGED <<installed, storage, passwords, script, deployed, server, pidFile, others, ok>>

\* isPosgresServerRunning: pg_ctl tells that the server of a pid file is gone.
IsRunning ==
  /\ pass.at = "status"
  /\ Goto(IF ~pidFile THEN "single" ELSE IF server # NoPort THEN "psql" ELSE "stale")
  /\ UNCHANGED <<installed, storage, passwords, pg, script, pidFile, ok, spoilt>> /\ World

\* The server may have started since: then its pid file is lost.
RemovePidFile ==
  /\ pass.at = "stale"
  /\ pidFile' = FALSE
  /\ Goto("single")
  /\ spoilt' = (spoilt \/ server # NoPort)
  /\ UNCHANGED <<installed, storage, passwords, pg, script, ok>> /\ World

AfterSuperuser == IF pass.creates THEN "script" ELSE "end"

\* With the server, which must listen where the options say, or without.
UpdateSuperuser ==
  /\ \/ /\ pass.at = "psql" /\ server = pass.port
        /\ pg' = [pg EXCEPT !.password = pass.password] /\ UNCHANGED <<spoilt, faults>>
     \/ /\ pass.at = "single" /\ server = NoPort
        /\ pg' = [pg EXCEPT !.password = pass.password] /\ UNCHANGED <<spoilt, faults>>
     \/ /\ pass.at = "single" /\ spoilt' = TRUE
        /\ \/ server # NoPort /\ UNCHANGED faults
           \/ server = NoPort /\ Fault
        /\ UNCHANGED pg
  /\ Goto(AfterSuperuser)
  /\ UNCHANGED <<installed, storage, passwords, script, deployed, server, pidFile, others, ok>>

\* slapgrid deploys the services.
End ==
  /\ pass.at = "end"
  /\ pass' = Resting /\ ok' = TRUE /\ deployed' = TRUE
  /\ UNCHANGED <<installed, storage, passwords, pg, script, server, pidFile, others, spoilt,
                 faults>>

\* Mutant: the half-made cluster stays.
Raise_Leave ==
  /\ pass.at \in {"initdb", "config", "script", "database", "status", "stale", "psql"}
  /\ \/ Fault
     \/ pass.at = "psql" /\ server # pass.port /\ UNCHANGED faults
  /\ pass' = Resting
  /\ UNCHANGED <<installed, storage, passwords, pg, pidFile, script, deployed, server, others,
                 ok, spoilt>>

\* A step raises: a cluster that was being made is removed.
Raise ==
  /\ pass.at \in {"initdb", "config", "script", "database", "status", "stale", "psql"}
  /\ \/ Fault
     \/ pass.at = "psql" /\ server # pass.port /\ UNCHANGED faults
  /\ pass' = Resting
  /\ IF pass.creates THEN pg' = NoCluster /\ pidFile' = FALSE ELSE UNCHANGED <<pg, pidFile>>
  /\ UNCHANGED <<installed, storage, passwords, script, deployed, server, others, ok, spoilt>>

\* slapgrid is killed: nothing is removed.
Kill ==
  /\ pass.at # "idle"
  /\ Fault
  /\ pass' = Resting
  /\ spoilt' = (spoilt \/ (pass.creates /\ pg.exists))
  /\ UNCHANGED <<installed, storage, passwords, pg, script, deployed, server, pidFile, others, ok>>

-----------------------------------------------------------------------------
(* The server, and the other processes. *)

StartServer ==
  /\ deployed /\ script /\ server = NoPort /\ pg.exists
  /\ pg.port # NoPort /\ pg.port \notin others
  /\ server' = pg.port /\ pidFile' = TRUE
  /\ UNCHANGED <<pass, installed, storage, passwords, pg, script, deployed, others, ok, spoilt,
                 faults>>

\* A server that is stopped removes its pid file, one that crashes does not.
StopServer(crash) ==
  /\ server # NoPort
  /\ Fault
  /\ server' = NoPort /\ pidFile' = (crash /\ pidFile)
  /\ UNCHANGED <<pass, installed, storage, passwords, pg, script, deployed, others, ok, spoilt>>

TakePort(p) ==
  /\ p \notin others \cup {server}
  /\ Fault
  /\ others' = others \cup {p}
  /\ UNCHANGED <<pass, installed, storage, passwords, pg, script, deployed, server, pidFile, ok,
                 spoilt>>

ReleasePort(p) ==
  /\ p \in others
  /\ others' = others \ {p}
  /\ UNCHANGED <<pass, installed, storage, passwords, pg, script, deployed, server, pidFile, ok,
                 spoilt, faults>>

-----------------------------------------------------------------------------
Install == \/ Start \/ Password \/ RecordPort \/ StorePassword
           \/ Postgres \/ CreateCluster \/ CreateConfig \/ CreateRunScript \/ CreateDatabase
           \/ IsRunning \/ RemovePidFile \/ UpdateSuperuser \/ End \/ Raise

Next == \/ Install \/ Kill \/ StartServer
        \/ \E crash \in BOOLEAN : StopServer(crash)
        \/ \E p \in Ports : TakePort(p) \/ ReleasePort(p)

Spec == Init /\ [][Next]_vars

\* slapgrid runs its passes, and supervisord starts the server.
FairSpec == Spec /\ WF_vars(Install) /\ WF_vars(StartServer)

-----------------------------------------------------------------------------
(* Properties. *)

\* After a complete pass the url of the recipe is good: the database is there, the
\* superuser has the password that is stored, and the server, if it runs, listens
\* on the port that was recorded.  Excepted are a cluster whose creation was killed,
\* a postgres --single that failed, and a server that started during the pass.
UrlWorks ==
  (ok /\ ~spoilt) =>
    /\ pg.exists /\ pg.database
    /\ pg.password = storage /\ storage # Nothing
    /\ pg.port = installed
    /\ server # NoPort => server = installed

\* Passes that fail, are killed or find no port are made up for by later ones: if a
\* port is free for good, the server ends up running on a port of its own.
Serves ==
  <>[](\E p \in minimum..(maximum - 1) : p \notin others) =>
    []<>(spoilt \/ installed \in others \/ (ok /\ server = installed /\ server # NoPort))
=============================================================================
