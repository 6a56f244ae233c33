---------------------------- MODULE InstanceTree ----------------------------
(***************************************************************************)
(* How a tree of instances settles: a root makes up the name of a NEO      *)
(* cluster and requests its nodes (recipes publish-early, neoppod.cluster,  *)
(* request and publish, as stack/erp5-zope2/instance-erp5.cfg.in puts them  *)
(* together).  A node publishes its address as soon as it has a partition,  *)
(* but starts only when it is given the addresses of masters: the root      *)
(* reads the addresses from the answers to its requests, requests each      *)
(* node again with all of them, and publishes name and masters early, for   *)
(* its next pass to start from.  It also requests a frontend that it can do *)
(* without (requestoptional).  Slapgrid runs the passes, again and again;   *)
(* it may be killed, and a request may fail.  The SlapOS master is          *)
(* external.                                                                *)
(***************************************************************************)
EXTENDS Naturals

CONSTANTS
  NodeCount,
  MaxRootKills, MaxErrors  \* bounds: kills of the root, requests that fail

ASSUME TreeAssumption ==
  NodeCount \in Nat \ {0} /\ MaxRootKills \in Nat /\ MaxErrors \in Nat

Nodes == 1..NodeCount

NoName == 0
Unknown == [name |-> NoName, masters |-> {}]

VARIABLES
  requested,   \* requested[n], the parameters of a node at the SlapOS master
  allocated,   \* the nodes that are requested and have a partition
  addresses,   \* the nodes that have published their address
  started,     \* started[n], the parameters a node last started with
  frontend,    \* the frontend: "none", "asked" or "ready", when it has published its URL
  published,   \* the connection parameters of the root
  root,        \* the pass of the root
  lastName,    \* the last name that was made up
  earlyKills,  \* kills before any name was published (history)
  kills, errors

treeVars == <<requested, allocated, addresses, started, frontend, published, root, lastName,
              earlyKills, kills, errors>>

Asleep == [at |-> "idle", name |-> NoName, masters |-> {}, found |-> {}, failed |-> {},
           todo |-> {}, url |-> FALSE]

TreeInit ==
  /\ requested = [n \in Nodes |-> Unknown] /\ allocated = {} /\ addresses = {}
  /\ started = requested /\ frontend = "none"
  /\ published = [name |-> NoName, masters |-> {}, rest |-> FALSE, url |-> FALSE]
  /\ root = Asleep /\ lastName = NoName /\ earlyKills = 0
  /\ kills = 0 /\ errors = 0

-----------------------------------------------------------------------------
(* The root. *)

\* Mutant: the published values are not read.
Pass_Afresh ==
  /\ root.at = "idle"
  /\ lastName' = lastName + 1
  /\ root' = [Asleep EXCEPT !.at = "request", !.name = lastName', !.todo = Nodes]
  /\ UNCHANGED <<requested, allocated, addresses, started, frontend, published, earlyKills,
                 kills, errors>>

\* publish-early overrides the options of its init sections by what is published,
\* and the first section makes up a name if there is none.
Pass ==
  /\ root.at = "idle"
  /\ lastName' = IF published.name = NoName THEN lastName + 1 ELSE lastName
  /\ root' = [Asleep EXCEPT !.at = "request", !.todo = Nodes, !.masters = published.masters,
                !.name = IF published.name = NoName THEN lastName' ELSE published.name]
  /\ UNCHANGED <<requested, allocated, addresses, started, frontend, published, earlyKills,
                 kills, errors>>

\* The connection parameters that are returned, none before the node has published any.
Answer(n) == {n} \cap addresses

\* A request gives its parameters to the node, and returns the address if there is
\* one.  It may fail, and may have reached the SlapOS master before.
Request(n, fails, sent) ==
  /\ root.at \in {"request", "again"} /\ n \in root.todo
  /\ \A other \in root.todo : n <= other
  /\ fails => errors < MaxErrors
  /\ errors' = IF fails THEN errors + 1 ELSE errors
  /\ IF fails /\ ~sent THEN UNCHANGED <<requested, allocated>>
     ELSE /\ requested' = [requested EXCEPT ![n] = [name |-> root.name, masters |-> root.masters]]
          /\ allocated' = allocated \cup {n}
  /\ LET answer == IF fails THEN {} ELSE Answer(n) IN
     root' = [root EXCEPT !.todo = @ \ {n}, !.failed = @ \cup ({n} \ answer),
                          !.found = IF root.at = "request" THEN @ \cup answer ELSE @]
  /\ UNCHANGED <<addresses, started, frontend, published, lastName, earlyKills, kills>>

\* Mutant: masters that are known once are never looked at again.
Cluster_Once ==
  /\ root.at = "request" /\ root.todo = {}
  /\ root' = IF root.masters # {} THEN [root EXCEPT !.at = "early"]
             ELSE [root EXCEPT !.at = "again", !.masters = root.found, !.todo = Nodes]
  /\ UNCHANGED <<requested, allocated, addresses, started, frontend, published, lastName,
                 earlyKills, kills, errors>>

\* neoppod.Cluster: if the addresses found are not the masters the nodes were given,
\* every request is initialised again.
Cluster ==
  /\ root.at = "request" /\ root.todo = {}
  /\ root' = IF root.found = root.masters THEN [root EXCEPT !.at = "early"]
             ELSE [root EXCEPT !.at = "again", !.masters = root.found, !.todo = Nodes]
  /\ UNCHANGED <<requested, allocated, addresses, started, frontend, published, lastName,
                 earlyKills, kills, errors>>

\* What the init sections have made or changed replaces all that was published.
PublishEarly ==
  /\ root.at \in {"early", "again"} /\ root.todo = {}
  /\ published' = IF published.name = root.name /\ published.masters = root.masters
                  THEN published
                  ELSE [name |-> root.name, masters |-> root.masters, rest |-> FALSE,
                        url |-> FALSE]
  /\ root' = [root EXCEPT !.at = "frontend"]
  /\ UNCHANGED <<requested, allocated, addresses, started, frontend, lastName, earlyKills,
                 kills, errors>>

\* RequestOptional: without an answer the URL is empty, and nothing raises.
RequestFrontend(fails, sent) ==
  /\ root.at = "frontend"
  /\ fails => errors < MaxErrors
  /\ errors' = IF fails THEN errors + 1 ELSE errors
  /\ frontend' = IF frontend = "none" /\ (fails => sent) THEN "asked" ELSE frontend
  /\ root' = [root EXCEPT !.at = "install", !.url = ~fails /\ frontend = "ready"]
  /\ UNCHANGED <<requested, allocated, addresses, started, published, lastName, earlyKills,
                 kills>>

\* A request that failed, or did not return all its parameters, raises when it is
\* installed, before publish is.
Raises == root.failed # {}

Publish ==
  /\ root.at = "install"
  /\ published' = IF Raises THEN published ELSE [published EXCEPT !.rest = TRUE, !.url = root.url]
  /\ root' = Asleep
  /\ UNCHANGED <<requested, allocated, addresses, started, frontend, lastName, earlyKills,
                 kills, errors>>

Kill ==
  /\ root.at # "idle"
  /\ kills < MaxRootKills /\ kills' = kills + 1
  /\ earlyKills' = IF published.name = NoName THEN earlyKills + 1 ELSE earlyKills
  /\ root' = Asleep
  /\ UNCHANGED <<requested, allocated, addresses, started, frontend, published, lastName, errors>>

-----------------------------------------------------------------------------
(* The nodes: in each pass a node publishes, then installs its program. *)

NodePublish(n) ==
  /\ n \in allocated \ addresses
  /\ addresses' = addresses \cup {n}
  /\ UNCHANGED <<requested, allocated, started, frontend, published, root, lastName, earlyKills,
                 kills, errors>>

\* "masters" parameter is mandatory.
NodeInstall(n) ==
  /\ n \in addresses
  /\ requested[n].masters # {}
  /\ started' = [started EXCEPT ![n] = requested[n]]
  /\ UNCHANGED <<requested, allocated, addresses, frontend, published, root, lastName, earlyKills,
                 kills, errors>>

\* Some time or never.
FrontendReady ==
  /\ frontend = "asked"
  /\ frontend' = "ready"
  /\ UNCHANGED <<requested, allocated, addresses, started, published, root, lastName,
                 earlyKills, kills, errors>>

-----------------------------------------------------------------------------
Root == \/ Pass \/ Cluster \/ PublishEarly \/ Publish
        \/ \E n \in Nodes : Request(n, FALSE, TRUE)
        \/ RequestFrontend(FALSE, TRUE)

TreeNext ==
  \/ Root \/ Kill
  \/ \E n \in Nodes, sent \in BOOLEAN : Request(n, TRUE, sent)
  \/ \E sent \in BOOLEAN : RequestFrontend(TRUE, sent)
  \/ FrontendReady
  \/ \E n \in Nodes : NodePublish(n) \/ NodeInstall(n)

TreeSpec == TreeInit /\ [][TreeNext]_treeVars

\* Slapgrid processes each partition again and again.
FairTree == /\ TreeSpec /\ WF_treeVars(Root)
            /\ \A n \in Nodes : WF_treeVars(NodePublish(n)) /\ WF_treeVars(NodeInstall(n))

-----------------------------------------------------------------------------
(* Properties. *)

\* A node that has started, and has a database under the name of its cluster, is
\* never given another name, and that name is published or will be by the pass that
\* gave it; unless the root was killed twice before anything was published.
OneName ==
  earlyKills <= 1 =>
    \A n \in Nodes : started[n].name # NoName =>
      started[n].name = IF published.name # NoName THEN published.name ELSE root.name

\* A pass whose requests were all answered publishes what the nodes have been given:
\* the name, and all the masters, none of which was lost or is known to some nodes
\* only.
NodesAgree ==
  (root.at = "install" /\ root.failed = {}) =>
    /\ published.masters = Nodes
    /\ \A n \in Nodes : requested[n] = [name |-> published.name, masters |-> Nodes]

\* At every moment the cluster is one: under one name, and once all the requests of a
\* pass were answered, with the same masters everywhere.
OneCluster == OneName /\ NodesAgree

\* However the root was killed and its requests failed, the tree settles: each node
\* runs with all the masters, and the root publishes everything, though the frontend may
\* be ready late or never.
Settled ==
  /\ published.url = (frontend = "ready")
  /\ published.rest /\ published.masters = Nodes
  /\ \A n \in Nodes : started[n] = [name |-> published.name, masters |-> Nodes]
Converges == <>[]Settled
=============================================================================
