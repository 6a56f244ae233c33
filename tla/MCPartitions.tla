---------------------------- MODULE MCPartitions ----------------------------
(* Four programs that know nothing of each other: a behaviour is of one, and  *)
(* the others have already become what their properties ask.                 *)
EXTENDS PostgresPartition, BackupAccess, MySqlUpdate, CsrSigning

VARIABLE which

allVars == <<which, vars, accessVars, mysqlVars, signingVars>>

Connected ==
  /\ clientKey = ClientKey /\ serverKey = [h \in Hosts |-> 1]
  /\ clientPublic = clientKey /\ serverPublic = serverKey
  /\ keyParameter = [h \in Hosts |-> clientKey] /\ authorized = keyParameter
  /\ entry = [h \in Hosts |-> [url |-> TRUE, key |-> 1]] /\ installedEntries = entry
  /\ knownHosts = serverKey /\ callbacks = Hosts /\ newFile = [h \in Hosts |-> Missing]
  /\ rootPass = NoRoot /\ pbsPass = NoPbs /\ hostPass = [h \in Hosts |-> NoHost]
  /\ accessFaults = 0

UpToDate ==
  /\ update = [at |-> "end", script |-> 1, sleep |-> 0] /\ scriptFile = 1 /\ mysqld = TRUE
  /\ database = [upgraded |-> TRUE, script |-> 1, half |-> 1, zones |-> TRUE]
  /\ mysqlFaults = 0

ServerRuns ==
  /\ pass = Resting /\ installed = minimum /\ storage = 1 /\ passwords = 1
  /\ pg = [exists |-> TRUE, database |-> TRUE, password |-> 1, port |-> minimum]
  /\ script = TRUE /\ deployed = TRUE /\ server = minimum /\ pidFile = TRUE
  /\ others = {} /\ ok = TRUE /\ spoilt = FALSE /\ faults = 0

HasJoined ==
  /\ key = 1 /\ known = key /\ pending = {} /\ signed = {key} /\ joined = TRUE
  /\ doneFile = TRUE /\ signer = NotSigning /\ tooLate = FALSE /\ signingFaults = 0

MCInit ==
  /\ which \in {"postgres", "access", "mysql", "signing"}
  /\ IF which = "postgres" THEN Init ELSE ServerRuns
  /\ IF which = "access" THEN AccessInit ELSE Connected
  /\ IF which = "mysql" THEN MySqlInit ELSE UpToDate
  /\ IF which = "signing" THEN SigningInit ELSE HasJoined

OfPostgres(A) ==
  which = "postgres" /\ A /\ UNCHANGED <<which, accessVars, mysqlVars, signingVars>>
OfAccess(A) == which = "access" /\ A /\ UNCHANGED <<which, vars, mysqlVars, signingVars>>
OfMySql(A) == which = "mysql" /\ A /\ UNCHANGED <<which, vars, accessVars, signingVars>>
OfSigning(A) == which = "signing" /\ A /\ UNCHANGED <<which, vars, accessVars, mysqlVars>>

MCNext ==
  OfPostgres(Next) \/ OfAccess(AccessNext) \/ OfMySql(MySqlNext) \/ OfSigning(SigningNext)

\* slapgrid instantiates every partition again and again, supervisord starts the
\* servers, and the authorities make the keys.
MCSpec ==
  /\ MCInit /\ [][MCNext]_allVars
  /\ WF_allVars(OfPostgres(Install)) /\ WF_allVars(OfPostgres(StartServer))
  /\ WF_allVars(OfAccess(RootStep)) /\ WF_allVars(OfAccess(PbsPassStep))
  /\ WF_allVars(OfAccess(MakeClientKey))
  /\ \A h \in Hosts : /\ WF_allVars(OfAccess(HostStep(h)))
                      /\ WF_allVars(OfAccess(MakeServerKey(h)))
  /\ WF_allVars(OfMySql(Update)) /\ WF_allVars(OfMySql(StartMySql))
  /\ WF_allVars(OfSigning(Signer)) /\ WF_allVars(OfSigning(PublishCertificate))
  /\ WF_allVars(OfSigning(SendRequest)) /\ WF_allVars(OfSigning(GetCertificate))
=============================================================================
