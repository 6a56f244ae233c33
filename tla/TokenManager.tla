----------------------------- MODULE TokenManager -----------------------------
(***************************************************************************)
(* The tokens of re6stnet (slapos/recipe/re6stnet).  The recipe gives each *)
(* slave instance a token, kept in token.json, and asks for its addition   *)
(* or its removal by a file <reference>.add or <reference>.remove.  The    *)
(* manager, run by cron and at each instantiation, carries these requests  *)
(* out in the registry and publishes the state of each token.              *)
(***************************************************************************)
EXTENDS Integers

CONSTANTS
  Slaves,       \* references of the slave instances
  Managers,     \* runs of the manager that may overlap
  MaxTokens,    \* bound: tokens made for one slave
  MaxFailures   \* bound: registry calls that fail, managers or recipes killed

ASSUME TokenManagerAssumption ==
  /\ Slaves # {}
  /\ MaxTokens \in Nat /\ MaxFailures \in Nat

\* The content of a file about one slave: a token, nothing yet, or no file.
Tokens == 1..MaxTokens
None == 0
Empty == -1
Contents == Tokens \cup {None, Empty}

NoTokens == [r \in Slaves |-> None]
NotPublished == [token |-> None, used |-> FALSE]

VARIABLES
  wanted,      \* the slave instances, in the SlapOS master
  published,   \* what the master publishes for each
  json,        \* token.json: a token for each slave (an absent file has none)
  broken,      \* token.json is empty
  addFile, removeFile, status,   \* the files of each slave in token-dir
  made,        \* the last token made for each slave
  rpc, dict, toAdd, toRemove, ref,   \* the recipe: token_dict, to_add_dict, to_remove_dict
  mgr,         \* each manager: path_list, reference, token, token_dict
  registered,  \* the tokens the registry knows
  nodes,       \* the tokens whose certificate is valid
  used,        \* the tokens that have been used (history)
  overlapped,  \* a manager has started while another one, or the recipe, was running
  crashed,     \* the recipe has been killed (history)
  failures

master == <<wanted, published>>
files == <<json, broken, addFile, removeFile, status>>
recipe == <<made, rpc, dict, toAdd, toRemove, ref>>
registry == <<registered, nodes, used>>
vars == <<master, files, recipe, mgr, registry, overlapped, crashed, failures>>

Someone == CHOOSE r \in Slaves : TRUE
IdleManager == [pc |-> "idle", list |-> {}, reference |-> Someone, token |-> None,
                dict |-> NoTokens]

Init ==
  /\ wanted = {} /\ published = [r \in Slaves |-> NotPublished]
  /\ json = NoTokens /\ broken = FALSE
  /\ addFile = NoTokens /\ removeFile = NoTokens
  /\ status = [r \in Slaves |-> "none"]
  /\ made = NoTokens /\ rpc = "idle" /\ dict = NoTokens
  /\ toAdd = {} /\ toRemove = {} /\ ref = Someone
  /\ mgr = [m \in Managers |-> IdleManager]
  /\ registered = {} /\ nodes = {} /\ used = {}
  /\ overlapped = FALSE /\ crashed = FALSE /\ failures = 0

-----------------------------------------------------------------------------
(* The recipe. *)

\* generateSlaveTokenList.  Without any change the recipe writes nothing.
InstallStart ==
  LET known == {r \in Slaves : json[r] # None}
      new == wanted \ known
  IN
  /\ rpc = "idle" /\ ~broken
  /\ known # wanted
  /\ \A r \in new : made[r] < MaxTokens
  /\ made' = [r \in Slaves |-> IF r \in new THEN made[r] + 1 ELSE made[r]]
  /\ dict' = [r \in Slaves |-> IF r \notin wanted THEN None
                               ELSE IF r \in new THEN made[r] + 1 ELSE json[r]]
  /\ toAdd' = new /\ toRemove' = known \ wanted
  /\ rpc' = "files"
  /\ UNCHANGED <<ref, master, files, mgr, registry, overlapped, crashed, failures>>

\* if not os.path.exists('<reference>.add'): createFile, which opens then writes.
AddOpen(r) ==
  /\ rpc = "files" /\ r \in toAdd
  /\ \/ addFile[r] = None
        /\ addFile' = [addFile EXCEPT ![r] = Empty]
        /\ rpc' = "write_add" /\ ref' = r
        /\ UNCHANGED toAdd
     \/ addFile[r] # None
        /\ toAdd' = toAdd \ {r}
        /\ UNCHANGED <<addFile, rpc, ref>>
  /\ UNCHANGED <<made, dict, toRemove, json, broken, removeFile, status>>
  /\ UNCHANGED <<master, mgr, registry, overlapped, crashed, failures>>

AddWrite ==
  /\ rpc = "write_add"
  /\ addFile' = [addFile EXCEPT ![ref] = dict[ref]]
  /\ toAdd' = toAdd \ {ref}
  /\ rpc' = "files"
  /\ UNCHANGED <<made, dict, toRemove, ref, json, broken, removeFile, status>>
  /\ UNCHANGED <<master, mgr, registry, overlapped, crashed, failures>>

\* if not os.path.exists('<reference>.remove'), once the additions are written.
RemoveOpen(r) ==
  /\ rpc = "files" /\ toAdd = {} /\ r \in toRemove
  /\ \/ removeFile[r] = None
        /\ removeFile' = [removeFile EXCEPT ![r] = Empty]
        /\ rpc' = "write_remove" /\ ref' = r
        /\ UNCHANGED toRemove
     \/ removeFile[r] # None
        /\ toRemove' = toRemove \ {r}
        /\ UNCHANGED <<removeFile, rpc, ref>>
  /\ UNCHANGED <<made, dict, toAdd, json, broken, addFile, status>>
  /\ UNCHANGED <<master, mgr, registry, overlapped, crashed, failures>>

RemoveWrite ==
  /\ rpc = "write_remove"
  /\ removeFile' = [removeFile EXCEPT ![ref] = json[ref]]
  /\ rpc' = "unlink_add"
  /\ UNCHANGED <<made, dict, toAdd, toRemove, ref, json, broken, addFile, status>>
  /\ UNCHANGED <<master, mgr, registry, overlapped, crashed, failures>>

\* "remove request add token if exists"
UnlinkAdd ==
  /\ rpc = "unlink_add"
  /\ addFile' = [addFile EXCEPT ![ref] = None]
  /\ toRemove' = toRemove \ {ref}
  /\ rpc' = "files"
  /\ UNCHANGED <<made, dict, toAdd, ref, json, broken, removeFile, status>>
  /\ UNCHANGED <<master, mgr, registry, overlapped, crashed, failures>>

\* createFile(token.json): unlink, open, write.
JsonUnlink ==
  /\ rpc = "files" /\ toAdd = {} /\ toRemove = {}
  /\ json' = NoTokens
  /\ rpc' = "open_json"
  /\ UNCHANGED <<made, dict, toAdd, toRemove, ref, broken, addFile, removeFile, status>>
  /\ UNCHANGED <<master, mgr, registry, overlapped, crashed, failures>>

JsonOpen ==
  /\ rpc = "open_json"
  /\ broken' = TRUE
  /\ rpc' = "write_json"
  /\ UNCHANGED <<made, dict, toAdd, toRemove, ref, json, addFile, removeFile, status>>
  /\ UNCHANGED <<master, mgr, registry, overlapped, crashed, failures>>

JsonWrite ==
  /\ rpc = "write_json"
  /\ json' = dict /\ broken' = FALSE
  /\ rpc' = "idle" /\ dict' = NoTokens
  /\ UNCHANGED <<made, toAdd, toRemove, ref, addFile, removeFile, status>>
  /\ UNCHANGED <<master, mgr, registry, overlapped, crashed, failures>>

\* slapgrid is killed in the recipe.
Crash ==
  /\ rpc # "idle"
  /\ failures < MaxFailures /\ failures' = failures + 1
  /\ rpc' = "idle" /\ dict' = NoTokens /\ toAdd' = {} /\ toRemove' = {}
  /\ crashed' = TRUE
  /\ UNCHANGED <<made, ref, master, files, mgr, registry, overlapped>>

-----------------------------------------------------------------------------
(* The manager. *)

At(m, label) == mgr[m].pc = label
Reference(m) == mgr[m].reference
Token(m) == <<Reference(m), mgr[m].token>>
Goto(m, label) == mgr' = [mgr EXCEPT ![m] = [@ EXCEPT !.pc = label]]
Stop(m) == mgr' = [mgr EXCEPT ![m] = IdleManager]
Elsewhere == UNCHANGED <<wanted, json, broken, recipe, overlapped, crashed>>

\* path_list, the references of the files with one suffix.
ListFiles(m, file, label) ==
  mgr' = [mgr EXCEPT ![m] = [@ EXCEPT !.pc = label, !.token = None,
                                      !.list = {r \in Slaves : file[r] # None}]]

\* readFile; a file that is empty or gone is passed over ("Bad token").
ReadFile(m, r, file, label) ==
  mgr' = [mgr EXCEPT ![m] =
            [@ EXCEPT !.list = mgr[m].list \ {r}, !.reference = r, !.token = file[r],
                      !.pc = IF file[r] \in Tokens THEN label ELSE mgr[m].pc]]

\* requestAddToken.
BeginAdd(m) ==
  /\ At(m, "idle")
  /\ ListFiles(m, addFile, "adding")
  /\ overlapped' = (overlapped \/ rpc # "idle" \/ \E n \in Managers : ~At(n, "idle"))
  /\ UNCHANGED <<published, addFile, removeFile, status, registry, failures, wanted, json,
                 broken, recipe, crashed>>

ReadAdd(m, r) ==
  /\ At(m, "adding") /\ r \in mgr[m].list
  /\ ReadFile(m, r, addFile, "add")
  /\ UNCHANGED <<published, addFile, removeFile, status, registry, failures>> /\ Elsewhere

\* client.addToken.
AddToken(m) ==
  /\ At(m, "add")
  /\ registered' = registered \cup {Token(m)}
  /\ Goto(m, "added")
  /\ UNCHANGED <<published, addFile, removeFile, status, nodes, used, failures>> /\ Elsewhere

\* updateFile(status_file, 'TOKEN_ADDED')
Added(m) ==
  /\ At(m, "added")
  /\ status' = [status EXCEPT ![Reference(m)] = "added"]
  /\ Goto(m, "unlink")
  /\ UNCHANGED <<published, addFile, removeFile, registry, failures>> /\ Elsewhere

\* request_file.unlink() raises if the file is gone, and the manager ends.
UnlinkRequest(m) ==
  /\ At(m, "unlink")
  /\ \/ addFile[Reference(m)] = None /\ Stop(m) /\ UNCHANGED addFile
     \/ addFile[Reference(m)] # None /\ Goto(m, "adding")
        /\ addFile' = [addFile EXCEPT ![Reference(m)] = None]
  /\ UNCHANGED <<published, removeFile, status, registry, failures>> /\ Elsewhere

\* requestRemoveToken.
BeginRemove(m) ==
  /\ At(m, "adding") /\ mgr[m].list = {}
  /\ ListFiles(m, removeFile, "removing")
  /\ UNCHANGED <<published, addFile, removeFile, status, registry, failures>> /\ Elsewhere

ReadRemove(m, r) ==
  /\ At(m, "removing") /\ r \in mgr[m].list
  /\ ReadFile(m, r, removeFile, "remove")
  /\ UNCHANGED <<published, addFile, removeFile, status, registry, failures>> /\ Elsewhere

DeleteToken(m) ==
  /\ At(m, "remove")
  /\ registered' = registered \ {Token(m)}
  /\ Goto(m, "revoke")
  /\ UNCHANGED <<published, addFile, removeFile, status, nodes, used, failures>> /\ Elsewhere

\* Mutant: the token is deleted and the certificate kept.
Revoke_TokenOnly(m) ==
  /\ At(m, "revoke")
  /\ Goto(m, "clean")
  /\ UNCHANGED <<published, addFile, removeFile, status, registry, failures>> /\ Elsewhere

\* getNodePrefix, by the e-mail address made from the reference, and revoke.
Revoke(m) ==
  LET found == {n \in nodes : n[1] = Reference(m)} IN
  /\ At(m, "revoke")
  /\ \/ (Token(m) \in registered \/ found = {}) /\ UNCHANGED nodes
     \/ Token(m) \notin registered /\ \E n \in found : nodes' = nodes \ {n}
  /\ Goto(m, "clean")
  /\ UNCHANGED <<published, addFile, removeFile, status, registered, used, failures>>
  /\ Elsewhere

\* The request, then the status, are unlinked; it must still be there.
CleanUp(m) ==
  LET r == Reference(m) IN
  /\ At(m, "clean")
  /\ \/ removeFile[r] = None /\ Stop(m) /\ UNCHANGED <<removeFile, status>>
     \/ /\ removeFile[r] # None /\ Goto(m, "removing")
        /\ removeFile' = [removeFile EXCEPT ![r] = None]
        /\ status' = [status EXCEPT ![r] = "none"]
  /\ UNCHANGED <<published, addFile, registry, failures>> /\ Elsewhere

\* checkService.  An empty token.json cannot be loaded.
BeginCheck(m) ==
  /\ At(m, "removing") /\ mgr[m].list = {}
  /\ \/ broken /\ Stop(m)
     \/ ~broken /\ mgr' = [mgr EXCEPT ![m] =
                    [@ EXCEPT !.pc = "checking", !.token = None, !.dict = json,
                              !.list = {r \in Slaves : json[r] # None}]]
  /\ UNCHANGED <<published, addFile, removeFile, status, registry, failures>> /\ Elsewhere

\* Mutant: a token that is not added yet is checked too.
CheckToken_NotAdded(m, r) ==
  /\ At(m, "checking") /\ r \in mgr[m].list
  /\ status' = IF <<r, mgr[m].dict[r]>> \in registered THEN status
               ELSE [status EXCEPT ![r] = "used"]
  /\ mgr' = [mgr EXCEPT ![m] = [@ EXCEPT !.pc = "publish", !.reference = r,
                                          !.list = mgr[m].list \ {r}]]
  /\ UNCHANGED <<published, addFile, removeFile, registry, failures>> /\ Elsewhere

\* isToken, for a token that has a status: "This token is not added yet!"
CheckToken(m, r) ==
  /\ At(m, "checking") /\ r \in mgr[m].list
  /\ \/ /\ status[r] = "none"
        /\ mgr' = [mgr EXCEPT ![m] = [@ EXCEPT !.list = mgr[m].list \ {r}]]
        /\ UNCHANGED status
     \/ /\ status[r] # "none"
        /\ status' = IF <<r, mgr[m].dict[r]>> \in registered THEN status
                     ELSE [status EXCEPT ![r] = "used"]
        /\ mgr' = [mgr EXCEPT ![m] = [@ EXCEPT !.pc = "publish", !.reference = r,
                                                !.list = mgr[m].list \ {r}]]
  /\ UNCHANGED <<published, addFile, removeFile, registry, failures>> /\ Elsewhere

\* setConnectionDict, which fails, and is logged, for a slave that is gone.
Publish(m) ==
  LET r == Reference(m) IN
  /\ At(m, "publish")
  /\ published' = IF r \notin wanted THEN published
                  ELSE [published EXCEPT ![r] = [token |-> mgr[m].dict[r],
                                                 used |-> status[r] = "used"]]
  /\ Goto(m, "checking")
  /\ UNCHANGED <<addFile, removeFile, status, registry, failures>> /\ Elsewhere

End(m) ==
  /\ At(m, "checking") /\ mgr[m].list = {}
  /\ Stop(m)
  /\ UNCHANGED <<published, addFile, removeFile, status, registry, failures>> /\ Elsewhere

\* Mutant: the exception is logged and the request goes on (no continue).
RegistryFails_NoContinue(m) ==
  /\ failures < MaxFailures /\ failures' = failures + 1
  /\ \/ At(m, "add") /\ Goto(m, "added")
     \/ At(m, "remove") /\ Goto(m, "revoke")
     \/ At(m, "revoke") /\ Goto(m, "clean")
  /\ UNCHANGED <<published, addFile, removeFile, status, registry>> /\ Elsewhere

\* A call to the registry raises: the next request.
RegistryFails(m) ==
  /\ failures < MaxFailures /\ failures' = failures + 1
  /\ \/ At(m, "add") /\ Goto(m, "adding")
     \/ (At(m, "remove") \/ At(m, "revoke")) /\ Goto(m, "removing")
  /\ UNCHANGED <<published, addFile, removeFile, status, registry>> /\ Elsewhere

\* isToken raises, or the partition is stopped: the manager ends.
Killed(m) ==
  /\ failures < MaxFailures /\ failures' = failures + 1
  /\ ~At(m, "idle") /\ Stop(m)
  /\ UNCHANGED <<published, addFile, removeFile, status, registry>> /\ Elsewhere

-----------------------------------------------------------------------------
(* The users of the SlapOS master, and the nodes.  A slave instance that is    *)
(* destroyed does not come back under the same reference.                      *)

Request(r) ==
  /\ r \notin wanted
  /\ made[r] = 0
  /\ wanted' = wanted \cup {r}
  /\ UNCHANGED <<published, files, recipe, mgr, registry, overlapped, crashed, failures>>

Destroy(r) ==
  /\ r \in wanted
  /\ wanted' = wanted \ {r}
  /\ published' = [published EXCEPT ![r] = NotPublished]
  /\ UNCHANGED <<files, recipe, mgr, registry, overlapped, crashed, failures>>

\* A node reads its token and registers with it.
Use(r) ==
  LET token == <<r, published[r].token>> IN
  /\ token \in registered
  /\ registered' = registered \ {token}
  /\ nodes' = nodes \cup {token} /\ used' = used \cup {token}
  /\ UNCHANGED <<master, files, recipe, mgr, overlapped, crashed, failures>>

-----------------------------------------------------------------------------
Install ==
  \/ InstallStart \/ AddWrite \/ RemoveWrite \/ UnlinkAdd
  \/ JsonUnlink \/ JsonOpen \/ JsonWrite
  \/ \E r \in Slaves : AddOpen(r) \/ RemoveOpen(r)

Manage(m) ==
  \/ BeginAdd(m) \/ AddToken(m) \/ Added(m) \/ UnlinkRequest(m)
  \/ BeginRemove(m) \/ DeleteToken(m) \/ Revoke(m) \/ CleanUp(m)
  \/ BeginCheck(m) \/ Publish(m) \/ End(m)
  \/ \E r \in Slaves : ReadAdd(m, r) \/ ReadRemove(m, r) \/ CheckToken(m, r)

Next ==
  \/ Install \/ Crash
  \/ \E m \in Managers : Manage(m) \/ RegistryFails(m) \/ Killed(m)
  \/ \E r \in Slaves : Request(r) \/ Destroy(r) \/ Use(r)

Spec == Init /\ [][Next]_vars

\* slapgrid processes the partition, and cron runs the manager, for ever.
FairSpec == Spec /\ WF_vars(Install) /\ WF_vars(\E m \in Managers : Manage(m))

-----------------------------------------------------------------------------
(* Properties *)

\* The local variables of a manager.
ManagerState ==
  [pc : {"idle", "adding", "add", "added", "unlink", "removing", "remove", "revoke",
         "clean", "checking", "publish"},
   list : SUBSET Slaves, reference : Slaves, token : Contents,
   dict : [Slaves -> Tokens \cup {None}]]

MasterTyped ==
  /\ wanted \subseteq Slaves
  /\ published \in [Slaves -> [token : Tokens \cup {None}, used : BOOLEAN]]
FilesTyped ==
  /\ json \in [Slaves -> Tokens \cup {None}] /\ broken \in BOOLEAN
  /\ addFile \in [Slaves -> Contents] /\ removeFile \in [Slaves -> Contents]
  /\ status \in [Slaves -> {"none", "added", "used"}]
RecipeTyped ==
  /\ made \in [Slaves -> Tokens \cup {None}]
  /\ dict \in [Slaves -> Tokens \cup {None}]
  /\ rpc \in {"idle", "files", "write_add", "write_remove", "unlink_add", "open_json",
              "write_json"}
  /\ toAdd \subseteq Slaves /\ toRemove \subseteq Slaves /\ ref \in Slaves
RegistryTyped ==
  /\ registered \subseteq Slaves \X Tokens
  /\ used \subseteq Slaves \X Tokens /\ nodes \subseteq used
HistoryTyped ==
  /\ overlapped \in BOOLEAN /\ crashed \in BOOLEAN
  /\ failures \in 0..MaxFailures

\* The types.
TypeOK ==
  /\ MasterTyped /\ FilesTyped /\ RecipeTyped /\ RegistryTyped /\ HistoryTyped
  /\ mgr \in [Managers -> ManagerState]

\* "Token not available, it has been used to generate re6stnet certificate": a
\* token that is published as used was used by a node, however many managers
\* overlap and are killed; but the recipe must not have been killed.
UsedMeansUsed ==
  ~crashed =>
    \A r \in Slaves : published[r].used => <<r, published[r].token>> \in used

\* Once a slave is gone and the requests about it have been carried out, the
\* registry has no token and no node left for it.
Forgotten(r) == \A t \in registered \cup nodes : t[1] # r
Orphans ==
  {r \in Slaves : /\ r \notin wanted /\ json[r] = None /\ rpc = "idle" /\ ~broken
                  /\ addFile[r] = None /\ removeFile[r] = None
                  /\ ~Forgotten(r)}

\* "remove request add token if exists": no token is added after its removal.
NoOrphan == ~crashed => Orphans = {}

\* It holds if managers run one after the other and none starts during a run of
\* the recipe.
NoOrphanIfAlone == ~overlapped => NoOrphan

Alone == ~crashed /\ ~overlapped

\* Whatever fails in the registry on the way, a slave that stays ends with a published
\* token that a node can use or has used, and one that goes for good without a token or
\* a node in the registry.
Served ==
  []Alone =>
    \A r \in Slaves :
      /\ <>[](r \in wanted) => <>[](<<r, published[r].token>> \in registered \cup used)
      /\ <>[](r \notin wanted) => <>[]Forgotten(r)
=============================================================================
