------------------------- MODULE TokenManager_proofs -------------------------
(***************************************************************************)
(* What holds of TokenManager for any slaves, and any number of managers   *)
(* that overlap each other and the recipe, fail and are killed: a token    *)
(* that is published as used was used.                                     *)
(***************************************************************************)
EXTENDS TokenManager, TLAPS

LEMMA ContentsAre ==
  /\ None \in Contents /\ Empty \in Contents /\ Tokens \subseteq Contents
  /\ None \notin Tokens /\ Empty \notin Tokens /\ None # Empty
  BY TokenManagerAssumption DEF Contents, Tokens, None, Empty

LEMMA IdleTyped ==
  /\ Someone \in Slaves
  /\ NoTokens \in [Slaves -> Tokens \cup {None}]
  /\ IdleManager \in ManagerState
<1>1. Someone \in Slaves
  BY TokenManagerAssumption DEF Someone
<1>2. NoTokens \in [Slaves -> Tokens \cup {None}]
  BY DEF NoTokens
<1> QED BY <1>1, <1>2, ContentsAre DEF IdleManager, ManagerState

LEMMA TypeInit == Init => TypeOK
<1> SUFFICES ASSUME Init PROVE TypeOK
  OBVIOUS
<1>1. MasterTyped
  BY DEF Init, MasterTyped, NotPublished
<1>2. FilesTyped
  BY ContentsAre DEF Init, FilesTyped, NoTokens
<1>3. RecipeTyped
  BY IdleTyped DEF Init, RecipeTyped
<1>4. RegistryTyped
  BY DEF Init, RegistryTyped
<1>6. HistoryTyped
  <2>1. failures \in 0..MaxFailures
    BY TokenManagerAssumption DEF Init
  <2> QED BY <2>1 DEF Init, HistoryTyped
<1>5. mgr \in [Managers -> ManagerState]
  BY IdleTyped DEF Init
<1> QED BY <1>1, <1>2, <1>3, <1>4, <1>5, <1>6 DEF TypeOK

-----------------------------------------------------------------------------
\* The steps of the recipe keep the types.
LEMMA InstallTyped == TypeOK /\ (Install \/ Crash) => TypeOK'
<1> SUFFICES ASSUME TypeOK, Install \/ Crash PROVE TypeOK'
  OBVIOUS
<1>1. CASE InstallStart
  <2>1. \A r \in wanted \ {q \in Slaves : json[q] # None} : made[r] + 1 \in Tokens
    BY <1>1, TokenManagerAssumption
    DEF InstallStart, TypeOK, MasterTyped, RecipeTyped, Tokens, None
  <2>2. RecipeTyped'
    BY <1>1, <2>1 DEF InstallStart, TypeOK, MasterTyped, FilesTyped, RecipeTyped
  <2> QED
    BY <1>1, <2>2
    DEF InstallStart, TypeOK, MasterTyped, FilesTyped, RegistryTyped, HistoryTyped,
        master, files, registry
<1>2. ASSUME NEW r \in Slaves, AddOpen(r) \/ RemoveOpen(r) PROVE TypeOK'
  BY <1>2, ContentsAre
  DEF AddOpen, RemoveOpen, TypeOK, MasterTyped, FilesTyped, RecipeTyped, RegistryTyped,
      HistoryTyped, master, files, registry
<1>3. CASE AddWrite \/ RemoveWrite \/ UnlinkAdd
  <2>1. FilesTyped'
    <3>1. dict[ref] \in Contents /\ json[ref] \in Contents
      BY ContentsAre DEF TypeOK, FilesTyped, RecipeTyped
    <3> QED
      BY <1>3, <3>1, ContentsAre
      DEF AddWrite, RemoveWrite, UnlinkAdd, TypeOK, FilesTyped
  <2>2. RecipeTyped'
    BY <1>3 DEF AddWrite, RemoveWrite, UnlinkAdd, TypeOK, RecipeTyped
  <2> QED
    BY <1>3, <2>1, <2>2
    DEF AddWrite, RemoveWrite, UnlinkAdd, TypeOK, MasterTyped, RegistryTyped,
        HistoryTyped, master, registry
<1>4. CASE JsonUnlink \/ JsonOpen \/ JsonWrite
  BY <1>4, IdleTyped
  DEF JsonUnlink, JsonOpen, JsonWrite, TypeOK, MasterTyped, FilesTyped, RecipeTyped,
      RegistryTyped, HistoryTyped, master, files, registry
<1>5. CASE Crash
  <2>1. failures' \in 0..MaxFailures
    BY <1>5, TokenManagerAssumption DEF Crash, TypeOK, HistoryTyped
  <2> QED
    BY <1>5, <2>1, IdleTyped
    DEF Crash, TypeOK, MasterTyped, FilesTyped, RecipeTyped, RegistryTyped, HistoryTyped,
        master, files, registry
<1> QED BY <1>1, <1>2, <1>3, <1>4, <1>5 DEF Install

\* So do the steps of a manager.  Its local variables are replaced by values of
\* their types, and it has read a token when it works on a request.
HasToken ==
  \A m \in Managers :
    mgr[m].pc \in {"add", "added", "unlink", "remove", "revoke", "clean"}
    => mgr[m].token \in Tokens

Local == mgr \in [Managers -> ManagerState] /\ HasToken

LEMMA GotoTyped ==
  ASSUME NEW m \in Managers, Local,
         NEW label \in {"adding", "added", "unlink", "removing", "revoke", "clean",
                        "checking"},
         label \in {"adding", "removing", "checking"} \/ mgr[m].token \in Tokens,
         Goto(m, label)
  PROVE  Local'
  BY DEF ManagerState, Goto, Local, HasToken

LEMMA StopTyped ==
  ASSUME NEW m \in Managers, Local, Stop(m)
  PROVE  Local'
  BY IdleTyped DEF ManagerState, Stop, Local, HasToken, IdleManager

LEMMA ListTyped ==
  ASSUME NEW m \in Managers, Local,
         NEW file, NEW label \in {"adding", "removing"}, ListFiles(m, file, label)
  PROVE  Local'
  BY ContentsAre DEF ManagerState, ListFiles, Local, HasToken

LEMMA ReadTyped ==
  ASSUME NEW m \in Managers, Local, NEW r \in Slaves,
         NEW file \in [Slaves -> Contents], NEW label \in {"add", "remove"},
         mgr[m].pc \in {"adding", "removing"}, ReadFile(m, r, file, label)
  PROVE  Local'
<1> DEFINE next == IF file[r] \in Tokens THEN label ELSE mgr[m].pc
           new == [mgr[m] EXCEPT !.list = mgr[m].list \ {r}, !.reference = r, !.token = file[r],
                                 !.pc = IF file[r] \in Tokens THEN label ELSE mgr[m].pc]
<1>1. new \in ManagerState
  BY DEF ManagerState, Local
<1>2. mgr' = [mgr EXCEPT ![m] = new]
  BY DEF ReadFile
<1>3. /\ next \in {"add", "remove", "adding", "removing"}
      /\ next \in {"add", "remove"} => file[r] \in Tokens
  OBVIOUS
<1>4. new.pc = next /\ new.token = file[r]
  BY DEF ManagerState, Local
<1> HIDE DEF next, new
<1> QED BY <1>1, <1>2, <1>3, <1>4 DEF Local, HasToken

Typed == TypeOK /\ HasToken

LEMMA ManageTyped ==
  ASSUME Typed, NEW m \in Managers, Manage(m) \/ RegistryFails(m) \/ Killed(m)
  PROVE  Typed'
<1>0. TypeOK /\ Local /\ mgr[m] \in ManagerState
  BY DEF Typed, TypeOK, Local
<1> USE DEF Elsewhere, master, files, recipe, registry
<1>1. ASSUME NEW r \in Slaves, ReadAdd(m, r) \/ ReadRemove(m, r) PROVE Typed'
  <2>1. Local'
    BY <1>0, <1>1, ReadTyped DEF ReadAdd, ReadRemove, At, TypeOK, FilesTyped
  <2> QED
    BY <1>0, <1>1, <2>1
    DEF ReadAdd, ReadRemove, TypeOK, MasterTyped, FilesTyped, RecipeTyped, RegistryTyped,
        HistoryTyped, Typed, Local
<1>2. CASE BeginAdd(m) \/ BeginRemove(m)
  <2>1. Local'
    BY <1>0, <1>2, ListTyped DEF BeginAdd, BeginRemove
  <2>2. HistoryTyped'
    BY <1>0, <1>2 DEF BeginAdd, BeginRemove, TypeOK, HistoryTyped
  <2> QED
    BY <1>0, <1>2, <2>1, <2>2
    DEF BeginAdd, BeginRemove, TypeOK, MasterTyped, FilesTyped, RecipeTyped,
        RegistryTyped, Typed, Local
<1>3. CASE AddToken(m) \/ DeleteToken(m)
  <2>1. mgr[m].token \in Tokens
    BY <1>0, <1>3 DEF AddToken, DeleteToken, At, Local, HasToken
  <2>2. Local'
    BY <1>0, <1>3, <2>1, GotoTyped DEF AddToken, DeleteToken
  <2>3. Token(m) \in Slaves \X Tokens
    BY <1>0, <2>1 DEF Token, Reference, ManagerState
  <2>4. RegistryTyped'
    BY <1>0, <1>3, <2>3 DEF AddToken, DeleteToken, TypeOK, RegistryTyped
  <2> QED
    BY <1>0, <1>3, <2>2, <2>4
    DEF AddToken, DeleteToken, TypeOK, MasterTyped, FilesTyped, RecipeTyped, HistoryTyped,
        Typed, Local
<1>4. CASE Added(m) \/ UnlinkRequest(m) \/ CleanUp(m)
  <2>1. mgr[m].token \in Tokens
    BY <1>0, <1>4 DEF Added, UnlinkRequest, CleanUp, At, Local, HasToken
  <2>2. Local'
    BY <1>0, <1>4, <2>1, GotoTyped, StopTyped DEF Added, UnlinkRequest, CleanUp
  <2>3. FilesTyped'
    <3>1. CASE Added(m)
      BY <1>0, <3>1 DEF Added, TypeOK, FilesTyped
    <3>2. CASE UnlinkRequest(m)
      BY <1>0, <3>2, ContentsAre DEF UnlinkRequest, TypeOK, FilesTyped
    <3>3. CASE CleanUp(m)
      BY <1>0, <3>3, ContentsAre DEF CleanUp, TypeOK, FilesTyped
    <3> QED BY <1>4, <3>1, <3>2, <3>3
  <2> QED
    BY <1>0, <1>4, <2>2, <2>3
    DEF Added, UnlinkRequest, CleanUp, TypeOK, MasterTyped, RecipeTyped, RegistryTyped,
        HistoryTyped, Typed, Local
<1>5. CASE Revoke(m)
  <2>1. Local'
    BY <1>0, <1>5, GotoTyped DEF Revoke, At, Local, HasToken
  <2>2. nodes' \subseteq nodes
    BY <1>5 DEF Revoke
  <2> QED
    BY <1>0, <1>5, <2>1, <2>2
    DEF Revoke, TypeOK, MasterTyped, FilesTyped, RecipeTyped, RegistryTyped, HistoryTyped,
        Typed, Local
<1>6. CASE BeginCheck(m)
  <2> DEFINE new == [mgr[m] EXCEPT !.pc = "checking", !.token = None, !.dict = json,
                                   !.list = {r \in Slaves : json[r] # None}]
  <2>3. new \in ManagerState
    BY <1>0, ContentsAre DEF TypeOK, FilesTyped, ManagerState
  <2>4. new.pc = "checking"
    BY <1>0 DEF ManagerState
  <2>1. Stop(m) \/ mgr' = [mgr EXCEPT ![m] = new]
    BY <1>6 DEF BeginCheck
  <2> HIDE DEF new
  <2>2. Local'
    BY <1>0, <2>1, <2>3, <2>4, StopTyped DEF Local, HasToken
  <2> QED
    BY <1>0, <1>6, <2>2
    DEF BeginCheck, TypeOK, MasterTyped, FilesTyped, RecipeTyped, RegistryTyped,
        HistoryTyped, Typed, Local
<1>7. ASSUME NEW r \in Slaves, CheckToken(m, r) PROVE Typed'
  <2> DEFINE passed == [mgr[m] EXCEPT !.list = mgr[m].list \ {r}]
             new == [mgr[m] EXCEPT !.pc = "publish", !.reference = r, !.list = mgr[m].list \ {r}]
  <2>3. passed \in ManagerState /\ passed.pc = mgr[m].pc
    BY <1>0 DEF ManagerState
  <2>4. new \in ManagerState /\ new.pc = "publish"
    BY <1>0 DEF ManagerState
  <2>5. \/ mgr' = [mgr EXCEPT ![m] = passed]
        \/ mgr' = [mgr EXCEPT ![m] = new]
    BY <1>7 DEF CheckToken
  <2>6. mgr[m].pc = "checking"
    BY <1>7 DEF CheckToken, At
  <2> HIDE DEF passed, new
  <2>1. Local'
    BY <1>0, <2>3, <2>4, <2>5, <2>6 DEF Local, HasToken
  <2>2. FilesTyped'
    BY <1>0, <1>7 DEF CheckToken, TypeOK, FilesTyped
  <2> QED
    BY <1>0, <1>7, <2>1, <2>2
    DEF CheckToken, TypeOK, MasterTyped, RecipeTyped, RegistryTyped, HistoryTyped,
        Typed, Local
<1>8. CASE Publish(m)
  <2>1. Local'
    BY <1>0, <1>8, GotoTyped DEF Publish
  <2>2. MasterTyped'
    BY <1>0, <1>8 DEF Publish, Reference, TypeOK, MasterTyped, ManagerState
  <2> QED
    BY <1>0, <1>8, <2>1, <2>2
    DEF Publish, TypeOK, FilesTyped, RecipeTyped, RegistryTyped, HistoryTyped, Typed, Local
<1>9. CASE End(m) \/ RegistryFails(m) \/ Killed(m)
  <2>1. Local'
    BY <1>0, <1>9, GotoTyped, StopTyped DEF End, RegistryFails, Killed
  <2>2. failures' \in 0..MaxFailures
    BY <1>0, <1>9, TokenManagerAssumption
    DEF End, RegistryFails, Killed, TypeOK, HistoryTyped
  <2> QED
    BY <1>0, <1>9, <2>1, <2>2
    DEF End, RegistryFails, Killed, TypeOK, MasterTyped, FilesTyped, RecipeTyped,
        RegistryTyped, HistoryTyped, Typed, Local
<1> QED
  BY <1>1, <1>2, <1>3, <1>4, <1>5, <1>6, <1>7, <1>8, <1>9 DEF Manage

LEMMA NextTyped == Typed /\ [Next]_vars => Typed'
<1> SUFFICES ASSUME Typed, [Next]_vars PROVE Typed'
  OBVIOUS
<1>1. CASE Install \/ Crash
  <2>1. mgr' = mgr
    BY <1>1
    DEF Install, InstallStart, AddOpen, AddWrite, RemoveOpen, RemoveWrite, UnlinkAdd,
        JsonUnlink, JsonOpen, JsonWrite, Crash
  <2> QED BY <1>1, <2>1, InstallTyped DEF Typed, HasToken
<1>2. ASSUME NEW m \in Managers, Manage(m) \/ RegistryFails(m) \/ Killed(m) PROVE Typed'
  BY <1>2, ManageTyped
<1>3. ASSUME NEW r \in Slaves, Request(r) \/ Destroy(r) PROVE Typed'
  <2>1. MasterTyped'
    <3>1. NotPublished \in [token : Tokens \cup {None}, used : BOOLEAN]
      BY DEF NotPublished
    <3>2. published' \in [Slaves -> [token : Tokens \cup {None}, used : BOOLEAN]]
      BY <1>3, <3>1 DEF Request, Destroy, Typed, TypeOK, MasterTyped
    <3> QED BY <1>3, <3>2 DEF Request, Destroy, Typed, TypeOK, MasterTyped
  <2> QED
    BY <1>3, <2>1
    DEF Request, Destroy, files, recipe, registry, Typed, TypeOK, HasToken, FilesTyped,
        RecipeTyped, RegistryTyped, HistoryTyped
<1>4. ASSUME NEW r \in Slaves, Use(r) PROVE Typed'
  <2>1. RegistryTyped'
    BY <1>4 DEF Use, Typed, TypeOK, RegistryTyped
  <2> QED
    BY <1>4, <2>1
    DEF Use, master, files, recipe, Typed, TypeOK, HasToken, MasterTyped, FilesTyped,
        RecipeTyped, HistoryTyped
<1>5. CASE UNCHANGED vars
  BY <1>5
  DEF vars, master, files, recipe, registry, Typed, TypeOK, HasToken, MasterTyped,
      FilesTyped, RecipeTyped, RegistryTyped, HistoryTyped
<1> QED BY <1>1, <1>2, <1>3, <1>4, <1>5 DEF Next

LEMMA AlwaysTyped == Spec => []Typed
<1>1. Init => Typed
  BY TypeInit DEF Typed, HasToken, Init, IdleManager
<1> QED BY <1>1, NextTyped, PTL DEF Spec

\* The variables keep their types.
THEOREM TypeCorrect == Spec => []TypeOK
<1>1. Typed => TypeOK
  BY DEF Typed
<1> QED BY <1>1, AlwaysTyped, PTL

-----------------------------------------------------------------------------
(***************************************************************************)
(* The invariant behind UsedMeansUsed, as long as the recipe is not killed *)
(***************************************************************************)

\* A slave that had a token and was destroyed: it stays so.
Gone(r) == r \notin wanted /\ made[r] # None

\* There has been one token at most for each slave, number 1.
OneToken ==
  \A r \in Slaves : /\ made[r] \in {None, 1} /\ json[r] \in {None, 1}
                    /\ dict[r] \in {None, 1} /\ addFile[r] \in {None, Empty, 1}

\* A slave that is still wanted and has been given a token has it in token.json,
\* or in what the recipe is about to write there; and the converse.
RecipeKnows ==
  \A r \in Slaves :
    /\ json[r] # None \/ dict[r] # None => made[r] # None
    /\ made[r] # None /\ rpc = "idle" /\ json[r] = None => Gone(r)
    /\ made[r] # None /\ rpc # "idle" /\ dict[r] = None => Gone(r)

\* Nobody asks to remove the token of a slave that may come to be published.
OnlyGoneRemoved ==
  /\ \A r \in Slaves : r \in toRemove \/ removeFile[r] # None => Gone(r)
  /\ rpc = "write_remove" => Gone(ref)

\* A token that has a status is in the registry or was used.
Known(r) == Gone(r) \/ <<r, 1>> \in registered \cup used
Accounted ==
  \A r \in Slaves : /\ status[r] # "none" => Known(r)
                    /\ status[r] = "used" => Gone(r) \/ <<r, 1>> \in used

\* A manager adds the token of a slave, removes one only for a slave that is gone,
\* gives a status only to one it has added, and publishes those of token.json.
SoundManager(m) ==
  /\ mgr[m].pc \in {"add", "added"} => mgr[m].token = 1
  /\ mgr[m].pc \in {"remove", "revoke", "clean"} => Gone(mgr[m].reference)
  /\ mgr[m].pc = "added" => Known(mgr[m].reference)
  /\ \A r \in Slaves : mgr[m].dict[r] \in {None, 1}
  /\ mgr[m].pc = "publish" => mgr[m].dict[mgr[m].reference] # None
  /\ mgr[m].pc \in {"checking", "publish"} => \A r \in mgr[m].list : mgr[m].dict[r] # None

PublishedUsed ==
  \A r \in Slaves : published[r].used => <<r, published[r].token>> \in used

UsedInv ==
  /\ OneToken /\ RecipeKnows /\ OnlyGoneRemoved /\ Accounted /\ PublishedUsed
  /\ \A m \in Managers : SoundManager(m)

-----------------------------------------------------------------------------
LEMMA UsedInit == Init => UsedInv
<1> SUFFICES ASSUME Init PROVE UsedInv
  OBVIOUS
<1> USE DEF Init, NoTokens, IdleManager, NotPublished
<1>1. OneToken
  BY DEF OneToken
<1>2. RecipeKnows /\ OnlyGoneRemoved
  BY DEF RecipeKnows, OnlyGoneRemoved
<1>3. Accounted /\ PublishedUsed
  BY DEF Accounted, PublishedUsed
<1>4. \A m \in Managers : SoundManager(m)
  BY DEF SoundManager
<1> QED BY <1>1, <1>2, <1>3, <1>4 DEF UsedInv

\* Nobody requests a slave again once it has been given a token.
LEMMA GoneForGood ==
  ASSUME Typed, [Next]_vars, NEW r \in Slaves, Gone(r)
  PROVE  Gone(r)'
<1> USE DEF Gone, None
<1>1. CASE Install \/ Crash
  <2>1. CASE InstallStart
    <3>1. made[r] + 1 # 0 /\ made' = [q \in Slaves |->
                 IF q \in wanted \ {s \in Slaves : json[s] # 0} THEN made[q] + 1 ELSE made[q]]
      BY <2>1, TokenManagerAssumption
      DEF InstallStart, Typed, TypeOK, RecipeTyped, Tokens
    <3> QED BY <2>1, <3>1 DEF InstallStart, master
  <2> QED
    BY <1>1, <2>1
    DEF Install, AddOpen, AddWrite, RemoveOpen, RemoveWrite, UnlinkAdd,
        JsonUnlink, JsonOpen, JsonWrite, Crash, master
<1>2. ASSUME NEW m \in Managers, Manage(m) \/ RegistryFails(m) \/ Killed(m) PROVE Gone(r)'
  BY <1>2
  DEF Manage, BeginAdd, ReadAdd, AddToken, Added, UnlinkRequest, BeginRemove, ReadRemove,
      DeleteToken, Revoke, CleanUp, BeginCheck, CheckToken, Publish, End, RegistryFails,
      Killed, Elsewhere, recipe
<1>3. ASSUME NEW q \in Slaves, Request(q) \/ Destroy(q) \/ Use(q) PROVE Gone(r)'
  BY <1>3 DEF Request, Destroy, Use, master, recipe
<1> QED BY <1>1, <1>2, <1>3 DEF Next, vars, master, recipe

\* The steps of the recipe keep the invariant.
LEMMA InstallUsed ==
  ASSUME Typed, UsedInv, Install, \A r \in Slaves : Gone(r) => Gone(r)'
  PROVE  UsedInv'
<1> USE DEF UsedInv
<1>0. /\ mgr' = mgr /\ status' = status /\ registered' = registered /\ used' = used
      /\ published' = published
  BY DEF Install, InstallStart, AddOpen, AddWrite, RemoveOpen, RemoveWrite, UnlinkAdd,
         JsonUnlink, JsonOpen, JsonWrite, master, files, registry
<1>1. PublishedUsed'
  BY <1>0 DEF PublishedUsed
<1>2. Accounted' /\ \A m \in Managers : SoundManager(m)'
  <2>1. \A m \in Managers : mgr[m].reference \in Slaves
    BY DEF Typed, TypeOK, ManagerState
  <2>2. \A r \in Slaves : Known(r) => Known(r)'
    BY <1>0 DEF Known
  <2>3. Accounted'
    BY <1>0, <2>2 DEF Accounted
  <2> QED BY <1>0, <2>1, <2>2, <2>3 DEF SoundManager
<1>3. OneToken'
  <2>1. CASE InstallStart
    <3>1. \A r \in wanted \ {q \in Slaves : json[q] # None} : r \in Slaves /\ made[r] = None
      BY <2>1 DEF InstallStart, RecipeKnows, Gone, Typed, TypeOK, MasterTyped
    <3>2. \A r \in Slaves : made'[r] \in {None, 1} /\ dict'[r] \in {None, 1}
      BY <2>1, <3>1 DEF InstallStart, OneToken, None
    <3> QED BY <1>0, <2>1, <3>2 DEF InstallStart, OneToken, files
  <2>2. CASE \E r \in Slaves : AddOpen(r)
    BY <1>0, <2>2 DEF AddOpen, OneToken, Typed, TypeOK, FilesTyped
  <2>3. CASE AddWrite
    BY <1>0, <2>3 DEF AddWrite, OneToken, Typed, TypeOK, FilesTyped
  <2>4. CASE UnlinkAdd
    BY <1>0, <2>4 DEF UnlinkAdd, OneToken, Typed, TypeOK, FilesTyped
  <2>5. CASE JsonUnlink \/ JsonOpen \/ JsonWrite
    BY <1>0, <2>5 DEF JsonUnlink, JsonOpen, JsonWrite, OneToken, NoTokens
  <2>6. CASE RemoveWrite \/ \E r \in Slaves : RemoveOpen(r)
    BY <1>0, <2>6 DEF RemoveWrite, RemoveOpen, OneToken
  <2> QED BY <2>1, <2>2, <2>3, <2>4, <2>5, <2>6 DEF Install
<1>4. RecipeKnows'
  <2>1. CASE InstallStart
    <3>1. \A r \in Slaves : json'[r] = json[r]
      BY <2>1 DEF InstallStart, files
    <3>2. \A r \in Slaves : r \in wanted => dict'[r] # None
      BY <2>1, TokenManagerAssumption
      DEF InstallStart, Typed, TypeOK, RecipeTyped, MasterTyped, Tokens, None
    <3>3. \A r \in Slaves : json[r] # None \/ dict'[r] # None => made'[r] # None
      BY <2>1, TokenManagerAssumption
      DEF InstallStart, RecipeKnows, Typed, TypeOK, RecipeTyped, Tokens, None
    <3>4. wanted' = wanted /\ rpc' = "files"
      BY <2>1 DEF InstallStart, master
    <3> QED BY <3>1, <3>2, <3>3, <3>4 DEF RecipeKnows, Gone
  <2>2. CASE JsonWrite
    <3>1. rpc # "idle" /\ rpc' = "idle" /\ wanted' = wanted /\ made' = made
      BY <2>2 DEF JsonWrite, master
    <3>2. \A r \in Slaves : json'[r] = dict[r] /\ dict'[r] = None
      BY <2>2 DEF JsonWrite, NoTokens
    <3> QED BY <3>1, <3>2 DEF RecipeKnows, Gone
  <2>3. CASE ~InstallStart /\ ~JsonWrite
    <3>1. rpc # "idle" /\ rpc' # "idle" /\ wanted' = wanted /\ made' = made /\ dict' = dict
      BY <2>3
      DEF Install, AddOpen, AddWrite, RemoveOpen, RemoveWrite, UnlinkAdd, JsonUnlink,
          JsonOpen, master
    <3>2. \A r \in Slaves : json'[r] \in {json[r], None}
      BY <2>3
      DEF Install, AddOpen, AddWrite, RemoveOpen, RemoveWrite, UnlinkAdd, JsonUnlink,
          JsonOpen, NoTokens
    <3> QED BY <3>1, <3>2 DEF RecipeKnows, Gone
  <2> QED BY <2>1, <2>2, <2>3
<1>5. OnlyGoneRemoved'
  <2>1. \A m \in Managers : mgr[m].reference \in Slaves
    BY DEF Typed, TypeOK, ManagerState
  <2>2. CASE InstallStart
    <3>1. \A r \in toRemove' : Gone(r)
      BY <2>2 DEF InstallStart, RecipeKnows, Gone
    <3> QED BY <1>0, <2>1, <2>2, <3>1 DEF InstallStart, OnlyGoneRemoved, files
  <2>3. ASSUME NEW r \in Slaves, RemoveOpen(r) PROVE OnlyGoneRemoved'
    BY <1>0, <2>1, <2>3 DEF RemoveOpen, OnlyGoneRemoved, Typed, TypeOK, FilesTyped
  <2>4. CASE RemoveWrite
    BY <1>0, <2>1, <2>4
    DEF RemoveWrite, OnlyGoneRemoved, Typed, TypeOK, FilesTyped, RecipeTyped
  <2>5. CASE AddWrite \/ UnlinkAdd \/ JsonUnlink \/ JsonOpen \/ JsonWrite
             \/ \E r \in Slaves : AddOpen(r)
    BY <1>0, <2>1, <2>5
    DEF AddOpen, AddWrite, UnlinkAdd, JsonUnlink, JsonOpen, JsonWrite, OnlyGoneRemoved
  <2> QED BY <2>2, <2>3, <2>4, <2>5 DEF Install
<1> QED BY <1>1, <1>2, <1>3, <1>4, <1>5

\* What a manager that goes on keeps of the others.
LEMMA OnlyItself ==
  ASSUME Typed, NEW m \in Managers, Manage(m) \/ RegistryFails(m) \/ Killed(m)
  PROVE  \A n \in Managers \ {m} : mgr'[n] = mgr[n]
  BY DEF Manage, BeginAdd, ReadAdd, AddToken, Added, UnlinkRequest, BeginRemove, ReadRemove,
         DeleteToken, Revoke, CleanUp, BeginCheck, CheckToken, Publish, End, RegistryFails,
         Killed, Goto, Stop, ListFiles, ReadFile, Typed, TypeOK

\* What it has read of a request, once it works on it.
LEMMA ReadGives ==
  ASSUME Typed, NEW m \in Managers, NEW r \in Slaves,
         NEW file \in [Slaves -> Contents], NEW label \in {"add", "remove"},
         mgr[m].pc \in {"adding", "removing"}, ReadFile(m, r, file, label)
  PROVE  /\ mgr'[m].pc \in {"adding", "removing", label}
         /\ mgr'[m].pc = label => file[r] \in Tokens
         /\ mgr'[m].reference = r /\ mgr'[m].token = file[r]
         /\ mgr'[m].dict = mgr[m].dict
<1>1. mgr'[m] = [mgr[m] EXCEPT !.list = mgr[m].list \ {r}, !.reference = r,
                               !.token = file[r],
                               !.pc = IF file[r] \in Tokens THEN label ELSE mgr[m].pc]
  BY DEF ReadFile, Typed, TypeOK
<1>2. mgr[m] \in ManagerState
  BY DEF Typed, TypeOK
<1> QED BY <1>1, <1>2 DEF ManagerState

LEMMA GotoGives ==
  ASSUME Typed, NEW m \in Managers, NEW label, Goto(m, label)
  PROVE  /\ mgr'[m].pc = label /\ mgr'[m].list = mgr[m].list
         /\ mgr'[m].reference = mgr[m].reference /\ mgr'[m].token = mgr[m].token
         /\ mgr'[m].dict = mgr[m].dict
<1>1. mgr'[m] = [mgr[m] EXCEPT !.pc = label] /\ mgr[m] \in ManagerState
  BY DEF Goto, Typed, TypeOK
<1> QED BY <1>1 DEF ManagerState

LEMMA StopGives ==
  ASSUME Typed, NEW m \in Managers, Stop(m)
  PROVE  /\ mgr'[m].pc = "idle"
         /\ \A r \in Slaves : mgr'[m].dict[r] = None
  BY DEF Stop, IdleManager, NoTokens, Typed, TypeOK

LEMMA ListGives ==
  ASSUME Typed, NEW m \in Managers, NEW file, NEW label, ListFiles(m, file, label)
  PROVE  mgr'[m].pc = label /\ mgr'[m].dict = mgr[m].dict
<1>1. /\ mgr'[m] = [mgr[m] EXCEPT !.pc = label, !.token = None,
                                  !.list = {r \in Slaves : file[r] # None}]
      /\ mgr[m] \in ManagerState
  BY DEF ListFiles, Typed, TypeOK
<1> QED BY <1>1 DEF ManagerState

\* A step of a manager keeps the invariant if the manager stays sound, withdraws no
\* token of a known slave, and is right in the states it gives and publishes.
LEMMA StepSound ==
  ASSUME Typed, UsedInv, NEW m \in Managers, Manage(m) \/ RegistryFails(m) \/ Killed(m),
         \A r \in Slaves : /\ addFile'[r] \in {None, addFile[r]}
                           /\ removeFile'[r] \in {None, removeFile[r]}
                           /\ Known(r) => Known(r)',
         \/ Accounted'
         \/ UNCHANGED used /\ \A r \in Slaves : status'[r] \in {"none", status[r]},
         PublishedUsed' \/ UNCHANGED <<published, used>>,
         SoundManager(m)'
  PROVE  UsedInv'
<1> USE DEF UsedInv
<1>1. UNCHANGED <<wanted, json, broken, recipe, crashed>>
  BY DEF Manage, BeginAdd, ReadAdd, AddToken, Added, UnlinkRequest, BeginRemove, ReadRemove,
         DeleteToken, Revoke, CleanUp, BeginCheck, CheckToken, Publish, End, RegistryFails,
         Killed, Elsewhere
<1>2. /\ made' = made /\ json' = json /\ dict' = dict /\ rpc' = rpc /\ wanted' = wanted
      /\ toRemove' = toRemove /\ ref' = ref
      /\ \A r \in Slaves : Gone(r)' <=> Gone(r)
  BY <1>1 DEF recipe, Gone
<1>3. OneToken' /\ RecipeKnows' /\ PublishedUsed'
  BY <1>2 DEF OneToken, RecipeKnows, PublishedUsed
<1>4. OnlyGoneRemoved'
  <2>1. ref \in Slaves
    BY DEF Typed, TypeOK, RecipeTyped
  <2>2. \A r \in Slaves : r \in toRemove' \/ removeFile'[r] # None => Gone(r)'
    BY <1>2 DEF OnlyGoneRemoved
  <2>3. rpc' = "write_remove" => Gone(ref)'
    BY <1>2, <2>1 DEF OnlyGoneRemoved, Gone
  <2> QED BY <2>2, <2>3 DEF OnlyGoneRemoved
<1>5. Accounted'
  BY <1>2 DEF Accounted
<1>6. ASSUME NEW n \in Managers \ {m} PROVE SoundManager(n)'
  <2>1. mgr'[n] = mgr[n] /\ mgr[n].reference \in Slaves
    BY OnlyItself DEF Typed, TypeOK, ManagerState
  <2> QED BY <1>2, <2>1 DEF SoundManager
<1> QED BY <1>3, <1>4, <1>5, <1>6

\* The steps of a manager keep the invariant.
LEMMA ManageUsed ==
  ASSUME Typed, UsedInv, NEW m \in Managers, Manage(m) \/ RegistryFails(m) \/ Killed(m)
  PROVE  UsedInv'
<1>1. /\ UNCHANGED <<wanted, made, json>>
      /\ \A r \in Slaves : Gone(r)' <=> Gone(r)
  BY DEF Manage, BeginAdd, ReadAdd, AddToken, Added, UnlinkRequest, BeginRemove, ReadRemove,
         DeleteToken, Revoke, CleanUp, BeginCheck, CheckToken, Publish, End, RegistryFails,
         Killed, Elsewhere, recipe, Gone
<1>2. mgr[m] \in ManagerState /\ SoundManager(m)
  BY DEF Typed, TypeOK, UsedInv
<1>3. /\ addFile \in [Slaves -> Contents] /\ removeFile \in [Slaves -> Contents]
      /\ status \in [Slaves -> {"none", "added", "used"}]
  BY DEF Typed, TypeOK, FilesTyped
<1>4. mgr[m].reference \in Slaves
  BY <1>2 DEF ManagerState
<1>5. CASE BeginAdd(m) \/ BeginRemove(m)
  <2>1. mgr'[m].pc \in {"adding", "removing"} /\ mgr'[m].dict = mgr[m].dict
    BY <1>5, ListGives DEF BeginAdd, BeginRemove
  <2>2. UNCHANGED <<published, addFile, removeFile, status, registered, used>>
    BY <1>5 DEF BeginAdd, BeginRemove, registry
  <2>3. SoundManager(m)'
    BY <1>2, <2>1 DEF SoundManager
  <2> QED BY <1>1, <2>2, <2>3, StepSound DEF Known
<1>6. ASSUME NEW r \in Slaves, ReadAdd(m, r) PROVE UsedInv'
  <2>1. /\ mgr'[m].pc \in {"adding", "removing", "add"}
        /\ mgr'[m].pc = "add" => addFile[r] \in Tokens
        /\ mgr'[m].token = addFile[r] /\ mgr'[m].dict = mgr[m].dict
    BY <1>3, <1>6, ReadGives DEF ReadAdd, At
  <2>2. mgr'[m].pc = "add" => mgr'[m].token = 1
    BY <2>1, ContentsAre DEF OneToken, UsedInv
  <2>3. UNCHANGED <<published, addFile, removeFile, status, registered, used>>
    BY <1>6 DEF ReadAdd, registry
  <2>4. SoundManager(m)'
    BY <1>2, <2>1, <2>2 DEF SoundManager
  <2> QED BY <1>1, <1>6, <2>3, <2>4, StepSound DEF Known
<1>7. ASSUME NEW r \in Slaves, ReadRemove(m, r) PROVE UsedInv'
  <2>1. /\ mgr'[m].pc \in {"adding", "removing", "remove"}
        /\ mgr'[m].pc = "remove" => removeFile[r] \in Tokens
        /\ mgr'[m].reference = r /\ mgr'[m].dict = mgr[m].dict
    BY <1>3, <1>7, ReadGives DEF ReadRemove, At
  <2>2. mgr'[m].pc = "remove" => Gone(r)
    BY <2>1, ContentsAre DEF OnlyGoneRemoved, UsedInv
  <2>3. UNCHANGED <<published, addFile, removeFile, status, registered, used>>
    BY <1>7 DEF ReadRemove, registry
  <2>4. SoundManager(m)'
    BY <1>1, <1>2, <2>1, <2>2 DEF SoundManager
  <2> QED BY <1>1, <1>7, <2>3, <2>4, StepSound DEF Known
<1>8. CASE AddToken(m)
  <2>1. /\ mgr[m].pc = "add" /\ mgr'[m].pc = "added" /\ mgr'[m].token = mgr[m].token
        /\ mgr'[m].reference = mgr[m].reference /\ mgr'[m].dict = mgr[m].dict
    BY <1>8, GotoGives DEF AddToken, At
  <2>2. registered' = registered \cup {<<mgr[m].reference, 1>>}
    BY <1>2, <1>8, <2>1 DEF AddToken, Token, Reference, SoundManager
  <2>3. UNCHANGED <<published, addFile, removeFile, status, used>>
    BY <1>8 DEF AddToken
  <2>4. SoundManager(m)'
    BY <1>2, <2>1, <2>2 DEF SoundManager, Known
  <2> QED BY <1>1, <2>2, <2>3, <2>4, StepSound DEF Known
<1>9. CASE UnlinkRequest(m) \/ CleanUp(m) \/ End(m) \/ RegistryFails(m) \/ Killed(m)
  <2>1. /\ mgr'[m].pc \in {"idle", "adding", "removing"}
        /\ \A r \in Slaves : mgr'[m].dict[r] \in {None, mgr[m].dict[r]}
    BY <1>9, GotoGives, StopGives DEF UnlinkRequest, CleanUp, End, RegistryFails, Killed
  <2>2. /\ UNCHANGED <<published, registered, used>>
        /\ \A r \in Slaves : /\ addFile'[r] \in {None, addFile[r]}
                             /\ removeFile'[r] \in {None, removeFile[r]}
                             /\ status'[r] \in {"none", status[r]}
    BY <1>3, <1>9 DEF UnlinkRequest, CleanUp, End, RegistryFails, Killed, registry
  <2>3. SoundManager(m)'
    BY <1>2, <2>1 DEF SoundManager
  <2> QED BY <1>1, <2>2, <2>3, StepSound DEF Known
<1>10. CASE DeleteToken(m)
  <2>1. /\ mgr[m].pc = "remove" /\ mgr'[m].pc = "revoke"
        /\ mgr'[m].reference = mgr[m].reference /\ mgr'[m].dict = mgr[m].dict
    BY <1>10, GotoGives DEF DeleteToken, At
  <2>2. Gone(mgr[m].reference)
    BY <1>2, <2>1 DEF SoundManager
  <2>3. UNCHANGED <<published, addFile, removeFile, status, used>>
    BY <1>10 DEF DeleteToken
  <2>4. \A r \in Slaves : Known(r) => Known(r)'
    BY <1>1, <1>10, <2>2, <2>3 DEF DeleteToken, Token, Reference, Known
  <2>5. SoundManager(m)'
    BY <1>1, <1>2, <1>4, <2>1, <2>2 DEF SoundManager
  <2> QED BY <2>3, <2>4, <2>5, StepSound
<1>11. CASE Revoke(m)
  <2>1. /\ mgr[m].pc = "revoke" /\ mgr'[m].pc = "clean"
        /\ mgr'[m].reference = mgr[m].reference /\ mgr'[m].dict = mgr[m].dict
    BY <1>11, GotoGives DEF Revoke, At
  <2>2. UNCHANGED <<published, addFile, removeFile, status, registered, used>>
    BY <1>11 DEF Revoke
  <2>3. SoundManager(m)'
    BY <1>1, <1>2, <1>4, <2>1 DEF SoundManager
  <2> QED BY <1>1, <2>2, <2>3, StepSound DEF Known
<1>12. CASE BeginCheck(m)
  <2>1. ASSUME Stop(m) PROVE SoundManager(m)'
    BY <2>1, StopGives DEF SoundManager
  <2>2. ASSUME ~Stop(m) PROVE SoundManager(m)'
    <3>1. mgr'[m] = [mgr[m] EXCEPT !.pc = "checking", !.token = None, !.dict = json,
                                   !.list = {r \in Slaves : json[r] # None}]
      BY <1>12, <2>2 DEF BeginCheck, Typed, TypeOK
    <3>2. /\ mgr'[m].pc = "checking" /\ mgr'[m].dict = json
          /\ mgr'[m].list = {r \in Slaves : json[r] # None}
      BY <1>2, <3>1 DEF ManagerState
    <3>3. \A r \in Slaves : json[r] \in {None, 1}
      BY DEF UsedInv, OneToken
    <3> QED BY <3>2, <3>3 DEF SoundManager
  <2>3. SoundManager(m)'
    BY <2>1, <2>2
  <2>4. UNCHANGED <<published, addFile, removeFile, status, registered, used>>
    BY <1>12 DEF BeginCheck, registry
  <2> QED BY <1>1, <2>3, <2>4, StepSound DEF Known
<1>13. CASE Added(m)
  <2>1. /\ mgr[m].pc = "added" /\ mgr'[m].pc = "unlink" /\ mgr'[m].dict = mgr[m].dict
    BY <1>13, GotoGives DEF Added, At
  <2>2. UNCHANGED <<published, addFile, removeFile, registered, used>>
    BY <1>13 DEF Added, registry
  <2>3. Known(mgr[m].reference)
    BY <1>2, <2>1 DEF SoundManager
  <2>4. Accounted'
    BY <1>1, <1>3, <1>13, <2>2, <2>3 DEF Added, Reference, Accounted, Known, UsedInv
  <2>5. SoundManager(m)'
    BY <1>2, <2>1 DEF SoundManager
  <2>6. \A r \in Slaves : Known(r) => Known(r)'
    BY <1>1, <2>2 DEF Known
  <2> QED BY <2>2, <2>4, <2>5, <2>6, StepSound
<1>14. ASSUME NEW r \in Slaves, CheckToken(m, r) PROVE UsedInv'
  <2>1. UNCHANGED <<published, addFile, removeFile, registered, used>>
    BY <1>14 DEF CheckToken, registry
  <2>2. mgr[m].pc = "checking" /\ mgr[m].dict[r] = 1
    BY <1>2, <1>14 DEF CheckToken, At, SoundManager
  <2>3. Accounted'
    BY <1>1, <1>3, <1>14, <2>1, <2>2 DEF CheckToken, Accounted, Known, UsedInv
  <2>4. SoundManager(m)'
    <3>1. /\ mgr'[m].pc \in {"checking", "publish"} /\ mgr'[m].dict = mgr[m].dict
          /\ mgr'[m].list \subseteq mgr[m].list
          /\ mgr'[m].pc = "publish" => mgr'[m].reference = r
      <4>1. \/ mgr'[m] = [mgr[m] EXCEPT !.list = mgr[m].list \ {r}]
            \/ mgr'[m] = [mgr[m] EXCEPT !.pc = "publish", !.reference = r,
                                        !.list = mgr[m].list \ {r}]
        BY <1>14 DEF CheckToken, Typed, TypeOK
      <4> QED BY <1>2, <2>2, <4>1 DEF ManagerState
    <3>2. mgr[m].dict[r] # None
      BY <2>2 DEF None
    <3>3. \A q \in mgr[m].list : mgr[m].dict[q] # None
      BY <1>2, <2>2 DEF SoundManager
    <3>4. mgr'[m].pc = "publish" => mgr'[m].dict[mgr'[m].reference] # None
      BY <3>1, <3>2
    <3> QED BY <1>2, <3>1, <3>3, <3>4 DEF SoundManager
  <2> QED BY <1>1, <1>14, <2>1, <2>3, <2>4, StepSound DEF Known
<1>15. CASE Publish(m)
  <2>1. /\ mgr[m].pc = "publish" /\ mgr'[m].pc = "checking" /\ mgr'[m].dict = mgr[m].dict
        /\ mgr'[m].list = mgr[m].list
    BY <1>15, GotoGives DEF Publish, At
  <2>2. UNCHANGED <<addFile, removeFile, status, registered, used>>
    BY <1>15 DEF Publish, registry
  <2>3. mgr[m].dict[mgr[m].reference] = 1
    BY <1>2, <1>4, <2>1 DEF SoundManager
  <2>4. PublishedUsed'
    BY <1>4, <1>15, <2>2, <2>3
    DEF Publish, Reference, PublishedUsed, Accounted, Gone, UsedInv, Typed, TypeOK,
        MasterTyped
  <2>5. SoundManager(m)'
    BY <1>2, <2>1 DEF SoundManager
  <2> QED BY <1>1, <2>2, <2>4, <2>5, StepSound DEF Known
<1> QED
  BY <1>5, <1>6, <1>7, <1>8, <1>9, <1>10, <1>11, <1>12, <1>13, <1>14, <1>15 DEF Manage

\* So do the users and the nodes.
LEMMA OthersUsed ==
  ASSUME Typed, UsedInv, NEW s \in Slaves, Request(s) \/ Destroy(s) \/ Use(s),
         \A r \in Slaves : Gone(r) => Gone(r)'
  PROVE  UsedInv'
<1> USE DEF UsedInv
<1>1. /\ UNCHANGED <<files, recipe, mgr>>
      /\ used \subseteq used' /\ registered \cup used \subseteq registered' \cup used'
  BY DEF Request, Destroy, Use, registry
<1>2. ref \in Slaves /\ \A m \in Managers : mgr[m].reference \in Slaves
  BY DEF Typed, TypeOK, RecipeTyped, ManagerState
<1>3. \A r \in Slaves : Known(r) => Known(r)'
  BY <1>1 DEF Known
<1>4. OneToken' /\ RecipeKnows' /\ OnlyGoneRemoved' /\ Accounted'
  BY <1>1, <1>2, <1>3
  DEF OneToken, RecipeKnows, OnlyGoneRemoved, Accounted, files, recipe
<1>5. \A m \in Managers : SoundManager(m)'
  BY <1>1, <1>2, <1>3 DEF SoundManager
<1>6. PublishedUsed'
  <2>1. \A r \in Slaves : published'[r] \in {published[r], NotPublished}
    BY DEF Request, Destroy, Use, master, Typed, TypeOK, MasterTyped
  <2> QED BY <1>1, <2>1 DEF PublishedUsed, NotPublished
<1> QED BY <1>4, <1>5, <1>6

\* What holds unless the recipe was killed.
UnlessCrashed == Typed /\ (~crashed => UsedInv)

LEMMA UnlessCrashedStep == UnlessCrashed /\ [Next]_vars => UnlessCrashed'
<1> SUFFICES ASSUME Typed, ~crashed => UsedInv, [Next]_vars, ~crashed'
             PROVE  UsedInv'
  BY NextTyped DEF UnlessCrashed
<1>1. ~crashed /\ ~Crash
  <2>1. Crash => crashed'
    BY DEF Crash
  <2>2. Install => crashed' = crashed
    BY DEF Install, InstallStart, AddOpen, AddWrite, RemoveOpen, RemoveWrite, UnlinkAdd,
           JsonUnlink, JsonOpen, JsonWrite
  <2>3. ASSUME NEW m \in Managers, Manage(m) \/ RegistryFails(m) \/ Killed(m)
        PROVE  crashed' = crashed
    BY <2>3
    DEF Manage, BeginAdd, ReadAdd, AddToken, Added, UnlinkRequest, BeginRemove,
        ReadRemove, DeleteToken, Revoke, CleanUp, BeginCheck, CheckToken, Publish, End,
        RegistryFails, Killed, Elsewhere
  <2>4. ASSUME NEW r \in Slaves, Request(r) \/ Destroy(r) \/ Use(r)
        PROVE  crashed' = crashed
    BY <2>4 DEF Request, Destroy, Use
  <2> QED BY <2>1, <2>2, <2>3, <2>4 DEF Next, vars
<1>2. \A r \in Slaves : Gone(r) => Gone(r)'
  BY GoneForGood
<1>3. CASE UNCHANGED vars
  <2> USE DEF vars, master, files, recipe, registry
  <2>1. OneToken' /\ RecipeKnows' /\ OnlyGoneRemoved'
    BY <1>1, <1>3 DEF UsedInv, OneToken, RecipeKnows, OnlyGoneRemoved, Gone
  <2>2. Accounted' /\ PublishedUsed'
    BY <1>1, <1>3 DEF UsedInv, Accounted, PublishedUsed, Known, Gone
  <2>3. \A m \in Managers : SoundManager(m)'
    BY <1>1, <1>3 DEF UsedInv, SoundManager, Known, Gone
  <2> QED BY <2>1, <2>2, <2>3 DEF UsedInv
<1> QED BY <1>1, <1>2, <1>3, InstallUsed, ManageUsed, OthersUsed DEF Next

LEMMA AlwaysUnlessCrashed == Spec => []UnlessCrashed
<1>1. Init => UnlessCrashed
  BY UsedInit, TypeInit DEF UnlessCrashed, Typed, HasToken, Init, IdleManager
<1> QED BY <1>1, UnlessCrashedStep, PTL DEF Spec

\* A token that is published as used was used, whatever managers overlap, fail or
\* are killed, unless the recipe was killed.
THEOREM UsedIsTrue == Spec => []UsedMeansUsed
<1>1. UnlessCrashed => UsedMeansUsed
  BY DEF UnlessCrashed, UsedInv, PublishedUsed, UsedMeansUsed
<1> QED BY <1>1, AlwaysUnlessCrashed, PTL

-----------------------------------------------------------------------------
(***************************************************************************)
(* NoOrphanIfAlone: while managers run one after the other and the recipe  *)
(* is not killed, a request to remove the token of a slave that is gone    *)
(* stays until the registry has nothing of it, and nothing is added then.  *)
(***************************************************************************)

\* The recipe has done with a slave that is gone.
Removed(r) ==
  /\ made[r] # None
  /\ IF rpc = "idle" THEN json[r] = None ELSE dict[r] = None /\ r \notin toRemove

Unlinking(r) == rpc = "unlink_add" /\ ref = r

AddingSteps == {"adding", "add", "added", "unlink"}

\* The registry has nothing of a slave, and no manager will put anything there.
Settled(r) ==
  /\ Forgotten(r)
  /\ \A m \in Managers : /\ mgr[m].pc = "add" => mgr[m].reference # r
                         /\ mgr[m].pc \in AddingSteps => addFile[r] = None

\* A request to remove follows the removal; a request to add does not.
RequestsFollow(r) ==
  /\ made[r] = None \/ Removed(r) => addFile[r] = None
  /\ made[r] = None \/ Removed(r) \/ Unlinking(r) =>
       removeFile[r] = 1 \/ (removeFile[r] = None /\ Settled(r))
  /\ removeFile[r] # None => Removed(r) \/ Unlinking(r)
                             \/ (rpc = "write_remove" /\ ref = r /\ removeFile[r] = Empty)

RecipeFollows ==
  /\ rpc \in {"open_json", "write_json"} => toRemove = {}
  /\ rpc \in {"write_remove", "unlink_add"} => ref \in toRemove
  /\ rpc = "write_add" => ref \in toAdd
  /\ rpc # "idle" =>
       /\ \A r \in toAdd : dict[r] # None
       /\ \A r \in toRemove : dict[r] = None /\ json[r] # None

OneManager ==
  \A m, n \in Managers : mgr[m].pc # "idle" /\ mgr[n].pc # "idle" => m = n

\* A manager forgets a slave in two steps, and no other adds its token between them.
ManagerFollows(m) ==
  /\ mgr[m].pc \in {"remove", "revoke", "clean"} =>
       mgr[m].token = 1 /\ (Removed(mgr[m].reference) \/ Unlinking(mgr[m].reference))
  /\ mgr[m].pc = "revoke" => <<mgr[m].reference, 1>> \notin registered
  /\ mgr[m].pc = "clean" => Forgotten(mgr[m].reference)

FirstTokens == registered \cup nodes \subseteq {<<r, 1>> : r \in Slaves}

AloneInv ==
  /\ OneManager /\ RecipeFollows /\ FirstTokens
  /\ \A r \in Slaves : RequestsFollow(r)
  /\ \A m \in Managers : ManagerFollows(m)

LEMMA AloneInit == Init => AloneInv
<1> SUFFICES ASSUME Init PROVE AloneInv
  OBVIOUS
<1>1. \A m \in Managers : mgr[m].pc = "idle"
  BY DEF Init, IdleManager
<1>2. \A r \in Slaves : /\ made[r] = None /\ addFile[r] = None /\ removeFile[r] = None
                        /\ Forgotten(r)
  BY DEF Init, NoTokens, Forgotten
<1>3. rpc = "idle" /\ registered = {} /\ nodes = {}
  BY DEF Init
<1>4. OneManager /\ RecipeFollows /\ FirstTokens
  BY <1>1, <1>3 DEF OneManager, RecipeFollows, FirstTokens
<1>5. ASSUME NEW r \in Slaves PROVE RequestsFollow(r)
  BY <1>1, <1>2 DEF RequestsFollow, Settled
<1>6. ASSUME NEW m \in Managers PROVE ManagerFollows(m)
  BY <1>1 DEF ManagerFollows
<1> QED
  BY <1>4, <1>5, <1>6 DEF AloneInv

\* Installing does not bring a slave back.
LEMMA RemovedStays ==
  ASSUME Typed, UsedInv, RecipeFollows, Install, NEW r \in Slaves
  PROVE  /\ Removed(r) => Removed(r)'
         /\ Unlinking(r) => Unlinking(r)' \/ Removed(r)'
<1>1. /\ Removed(r) => r \notin wanted
      /\ json[r] # None => made[r] # None
  BY DEF Removed, UsedInv, RecipeKnows, Gone
<1>2. CASE InstallStart
  <2>1. /\ rpc = "idle" /\ rpc' = "files"
        /\ r \notin wanted => made'[r] = made[r] /\ dict'[r] = None
        /\ r \in toRemove' => json[r] # None
    BY <1>2 DEF InstallStart
  <2> QED
    BY <1>1, <2>1 DEF Removed, Unlinking
<1>3. CASE JsonWrite
  BY <1>3 DEF JsonWrite, Removed, Unlinking, RecipeFollows
<1>4. CASE UnlinkAdd
  BY <1>1, <1>4 DEF UnlinkAdd, Removed, Unlinking, RecipeFollows
<1>5. CASE \/ AddWrite \/ RemoveWrite \/ JsonUnlink \/ JsonOpen
           \/ \E q \in Slaves : AddOpen(q) \/ RemoveOpen(q)
  BY <1>5
  DEF AddWrite, RemoveWrite, JsonUnlink, JsonOpen, AddOpen, RemoveOpen, Removed, Unlinking
<1> QED
  BY <1>2, <1>3, <1>4, <1>5 DEF Install

\* What a slave needs of a step of the recipe, which leaves the registry and the managers alone.
LEMMA InstallFollows ==
  ASSUME Typed, UsedInv, AloneInv, Install, NEW r \in Slaves
  PROVE  RequestsFollow(r)'
<1>0. UNCHANGED <<mgr, registered, nodes>> /\ RecipeFollows /\ RequestsFollow(r)
  BY DEF Install, InstallStart, AddOpen, AddWrite, RemoveOpen, RemoveWrite, UnlinkAdd,
         JsonUnlink, JsonOpen, JsonWrite, registry, AloneInv
<1>1. Settled(r) /\ addFile'[r] \in {None, addFile[r]} => Settled(r)'
  BY <1>0 DEF Settled, Forgotten
<1>2. /\ addFile \in [Slaves -> Contents] /\ removeFile \in [Slaves -> Contents]
      /\ json[r] \in {None, 1} /\ ref \in Slaves /\ None # 1
      /\ json[r] # None => made[r] # None
      /\ dict[r] # None => made[r] # None
  BY DEF Typed, TypeOK, FilesTyped, RecipeTyped, UsedInv, OneToken, RecipeKnows, None
<1>3. CASE InstallStart
  \* A slave that gets its first token, or whose removal begins, has been out of it.
  <2>1. /\ rpc = "idle" /\ rpc' = "files" /\ UNCHANGED <<addFile, removeFile>>
        /\ made'[r] = IF r \in wanted /\ json[r] = None THEN made[r] + 1 ELSE made[r]
        /\ dict'[r] = IF r \notin wanted THEN None
                      ELSE IF json[r] = None THEN made[r] + 1 ELSE json[r]
        /\ r \in toRemove' <=> json[r] # None /\ r \notin wanted
    BY <1>3 DEF InstallStart, files
  <2>2. made[r] \in {None, 1} /\ made[r] + 1 # None
    BY DEF UsedInv, OneToken, None
  <2>3. Removed(r)' \/ made'[r] = None => Removed(r) \/ made[r] = None
    BY <1>2, <2>1, <2>2 DEF Removed
  <2>4. Removed(r) => Removed(r)'
    BY <1>0, RemovedStays
  <2>5. ~Unlinking(r) /\ ~Unlinking(r)'
    BY <2>1 DEF Unlinking
  <2> QED
    BY <1>0, <1>1, <2>1, <2>3, <2>4, <2>5 DEF RequestsFollow
<1>4. ASSUME NEW q \in Slaves, AddOpen(q) PROVE RequestsFollow(r)'
  <2>1. /\ rpc = "files" /\ rpc' \in {"files", "write_add"} /\ q \in toAdd
        /\ UNCHANGED <<made, dict, removeFile, toRemove>>
        /\ \A s \in Slaves : s # q => addFile'[s] = addFile[s]
    BY <1>2, <1>4 DEF AddOpen
  <2>2. (Removed(r)' <=> Removed(r)) /\ ~Unlinking(r) /\ ~Unlinking(r)'
    BY <2>1 DEF Removed, Unlinking
  <2>3. made[r] = None \/ Removed(r) => r # q
    BY <1>0, <1>2, <2>1 DEF RecipeFollows, Removed
  <2>4. made[r] = None \/ Removed(r) => addFile'[r] = addFile[r]
    BY <2>1, <2>3
  <2> QED
    BY <1>0, <1>1, <2>1, <2>2, <2>4 DEF RequestsFollow
<1>5. CASE AddWrite
  <2>1. /\ rpc = "write_add" /\ rpc' = "files" /\ ref \in toAdd
        /\ UNCHANGED <<made, dict, removeFile, toRemove>>
        /\ \A s \in Slaves : s # ref => addFile'[s] = addFile[s]
    BY <1>0, <1>2, <1>5 DEF AddWrite, RecipeFollows
  <2>2. (Removed(r)' <=> Removed(r)) /\ ~Unlinking(r) /\ ~Unlinking(r)'
    BY <2>1 DEF Removed, Unlinking
  <2>3. made[r] = None \/ Removed(r) => r # ref
    BY <1>0, <1>2, <2>1 DEF RecipeFollows, Removed
  <2>4. made[r] = None \/ Removed(r) => addFile'[r] = addFile[r]
    BY <2>1, <2>3
  <2> QED
    BY <1>0, <1>1, <2>1, <2>2, <2>4 DEF RequestsFollow
<1>6. ASSUME NEW q \in Slaves, RemoveOpen(q) PROVE RequestsFollow(r)'
  <2>0. /\ rpc = "files" /\ q \in toRemove /\ UNCHANGED <<made, dict, json, addFile>>
        /\ ~Removed(q)
    BY <1>6 DEF RemoveOpen, Removed
  \* Nobody has asked for it yet.
  <2>1. removeFile[q] = None
    BY <2>0 DEF AloneInv, RequestsFollow, Unlinking
  <2>2. /\ rpc' = "write_remove" /\ ref' = q /\ UNCHANGED toRemove
        /\ removeFile'[q] = Empty
        /\ \A s \in Slaves : s # q => removeFile'[s] = removeFile[s]
    BY <1>2, <1>6, <2>1 DEF RemoveOpen
  <2>3. (Removed(r)' <=> Removed(r)) /\ ~Unlinking(r) /\ ~Unlinking(r)'
    BY <2>0, <2>2 DEF Removed, Unlinking
  <2>4. made[r] = None \/ Removed(r) => r # q
    BY <1>0, <1>2, <2>0 DEF RecipeFollows
  <2> QED
    BY <1>0, <1>1, <1>2, <2>0, <2>2, <2>3, <2>4 DEF RequestsFollow
<1>7. CASE RemoveWrite
  <2>1. /\ rpc = "write_remove" /\ rpc' = "unlink_add" /\ ref \in toRemove /\ ref' = ref
        /\ UNCHANGED <<made, dict, toRemove, json, addFile>>
        /\ \A s \in Slaves : removeFile'[s] = IF s = ref THEN json[ref] ELSE removeFile[s]
    BY <1>0, <1>2, <1>7 DEF RemoveWrite, RecipeFollows
  <2>2. (Removed(r)' <=> Removed(r)) /\ ~Unlinking(r) /\ (Unlinking(r)' <=> r = ref)
    BY <2>1 DEF Removed, Unlinking
  <2>3. r = ref => removeFile'[r] = 1 /\ ~Removed(r) /\ made[r] # None
    BY <1>0, <1>2, <2>1 DEF RecipeFollows, Removed
  <2>4. r # ref => removeFile'[r] = removeFile[r]
    BY <2>1
  <2> QED
    BY <1>0, <1>1, <1>2, <2>1, <2>2, <2>3, <2>4 DEF RequestsFollow
<1>8. CASE UnlinkAdd
  <2>1. /\ rpc = "unlink_add" /\ rpc' = "files" /\ ref \in toRemove
        /\ toRemove' = toRemove \ {ref} /\ UNCHANGED <<made, dict, json, removeFile>>
        /\ \A s \in Slaves : addFile'[s] = IF s = ref THEN None ELSE addFile[s]
    BY <1>0, <1>2, <1>8 DEF UnlinkAdd, RecipeFollows
  <2>2. /\ Unlinking(r) <=> r = ref
        /\ ~Unlinking(r)'
        /\ r # ref => (Removed(r)' <=> Removed(r))
        /\ r = ref => Removed(r)'
    BY <1>0, <1>2, <2>1 DEF Removed, Unlinking, RecipeFollows
  <2>3. r # ref => addFile'[r] = addFile[r]
    BY <2>1
  <2>4. r = ref => addFile'[r] = None
    BY <2>1
  <2> QED
    BY <1>0, <1>1, <2>1, <2>2, <2>3, <2>4 DEF RequestsFollow
<1>9. CASE JsonUnlink \/ JsonOpen
  <2>1. /\ rpc \in {"files", "open_json"} /\ rpc' \in {"open_json", "write_json"}
        /\ UNCHANGED <<made, dict, toRemove, addFile, removeFile>>
    BY <1>9 DEF JsonUnlink, JsonOpen
  <2>2. (Removed(r)' <=> Removed(r)) /\ ~Unlinking(r) /\ ~Unlinking(r)'
    BY <2>1 DEF Removed, Unlinking
  <2> QED
    BY <1>0, <1>1, <2>1, <2>2 DEF RequestsFollow
<1>10. CASE JsonWrite
  <2>1. /\ rpc = "write_json" /\ rpc' = "idle" /\ toRemove = {}
        /\ json' = dict /\ UNCHANGED <<made, addFile, removeFile>>
    BY <1>0, <1>10 DEF JsonWrite, RecipeFollows
  <2>2. (Removed(r)' <=> Removed(r)) /\ ~Unlinking(r) /\ ~Unlinking(r)'
    BY <2>1 DEF Removed, Unlinking
  <2> QED
    BY <1>0, <1>1, <2>1, <2>2 DEF RequestsFollow
<1> QED
  BY <1>3, <1>4, <1>5, <1>6, <1>7, <1>8, <1>9, <1>10 DEF Install

LEMMA RecipeFollowsStep == Typed /\ UsedInv /\ RecipeFollows /\ Install => RecipeFollows'
<1> SUFFICES ASSUME Typed, UsedInv, RecipeFollows, Install PROVE RecipeFollows'
  OBVIOUS
<1> USE DEF RecipeFollows
<1>1. CASE InstallStart
  <2>1. rpc' = "files" /\ UNCHANGED json
    BY <1>1 DEF InstallStart, files
  <2>2. \A r \in toAdd' : dict'[r] # None
    BY <1>1, TokenManagerAssumption
    DEF InstallStart, Typed, TypeOK, MasterTyped, RecipeTyped, Tokens, None
  <2>3. \A r \in toRemove' : dict'[r] = None /\ json[r] # None
    BY <1>1 DEF InstallStart
  <2> QED
    BY <2>1, <2>2, <2>3
<1>2. ASSUME NEW q \in Slaves, AddOpen(q) \/ RemoveOpen(q) PROVE RecipeFollows'
  BY <1>2 DEF AddOpen, RemoveOpen
<1>3. CASE AddWrite \/ RemoveWrite \/ UnlinkAdd
  BY <1>3 DEF AddWrite, RemoveWrite, UnlinkAdd
<1>4. CASE JsonUnlink \/ JsonOpen \/ JsonWrite
  BY <1>4 DEF JsonUnlink, JsonOpen, JsonWrite
<1> QED
  BY <1>1, <1>2, <1>3, <1>4 DEF Install

LEMMA InstallAlone ==
  ASSUME Typed, UsedInv, AloneInv, Install
  PROVE  AloneInv'
<1>0. UNCHANGED <<mgr, registered, nodes>>
  BY DEF Install, InstallStart, AddOpen, AddWrite, RemoveOpen, RemoveWrite, UnlinkAdd,
         JsonUnlink, JsonOpen, JsonWrite, registry
<1>1. \A r \in Slaves : RequestsFollow(r)'
  BY InstallFollows
<1>2. OneManager' /\ FirstTokens' /\ RecipeFollows'
  BY <1>0, RecipeFollowsStep DEF AloneInv, OneManager, FirstTokens
<1>3. ASSUME NEW m \in Managers PROVE ManagerFollows(m)'
  <2>1. ManagerFollows(m) /\ mgr[m].reference \in Slaves /\ RecipeFollows
    BY DEF AloneInv, Typed, TypeOK, ManagerState
  <2>2. Removed(mgr[m].reference) \/ Unlinking(mgr[m].reference)
        => Removed(mgr[m].reference)' \/ Unlinking(mgr[m].reference)'
    BY <1>0, <2>1, RemovedStays DEF Removed, Unlinking
  <2> QED
    BY <1>0, <2>1, <2>2 DEF ManagerFollows, Forgotten
<1> QED
  BY <1>1, <1>2, <1>3 DEF AloneInv

-----------------------------------------------------------------------------
\* Those whose removal has been requested, and those that have had no token.
Waiting(r) == made[r] = None \/ Removed(r) \/ Unlinking(r)

\* The others are idle while a manager runs.
LEMMA OthersIdle ==
  ASSUME Typed, OneManager, NEW m \in Managers, Manage(m) \/ RegistryFails(m) \/ Killed(m),
         ~overlapped'
  PROVE  \A n \in Managers \ {m} : mgr[n].pc = "idle" /\ mgr'[n] = mgr[n]
<1>1. BeginAdd(m) => \A n \in Managers : mgr[n].pc = "idle"
  BY DEF BeginAdd, At
<1>2. BeginAdd(m) \/ mgr[m].pc # "idle"
  BY DEF Manage, ReadAdd, AddToken, Added, UnlinkRequest, BeginRemove, ReadRemove,
         DeleteToken, Revoke, CleanUp, BeginCheck, CheckToken, Publish, End, RegistryFails,
         Killed, At
<1> QED
  BY <1>1, <1>2, OnlyItself DEF OneManager

\* A step of a manager keeps the invariant if it forgets no request before it is carried out.
LEMMA StepAlone ==
  ASSUME Typed, AloneInv, NEW m \in Managers, Manage(m) \/ RegistryFails(m) \/ Killed(m),
         ~overlapped',
         \A r \in Slaves :
           /\ addFile'[r] \in {None, addFile[r]} /\ removeFile'[r] \in {None, removeFile[r]}
           /\ Waiting(r) => removeFile'[r] = 1 \/ (removeFile'[r] = None /\ Settled(r)'),
         FirstTokens', ManagerFollows(m)'
  PROVE  AloneInv'
<1>1. UNCHANGED <<wanted, json, recipe>>
  BY DEF Manage, BeginAdd, ReadAdd, AddToken, Added, UnlinkRequest, BeginRemove, ReadRemove,
         DeleteToken, Revoke, CleanUp, BeginCheck, CheckToken, Publish, End, RegistryFails,
         Killed, Elsewhere
<1>2. /\ UNCHANGED <<made, rpc, dict, toAdd, toRemove, ref>>
      /\ \A r : (Removed(r)' <=> Removed(r)) /\ (Unlinking(r)' <=> Unlinking(r))
  BY <1>1 DEF recipe, Removed, Unlinking
<1>3. RecipeFollows'
  BY <1>1, <1>2 DEF AloneInv, RecipeFollows
<1>4. ASSUME NEW r \in Slaves PROVE RequestsFollow(r)'
  <2>1. RequestsFollow(r)
    BY DEF AloneInv
  <2> QED
    BY <1>2, <2>1, ContentsAre DEF RequestsFollow, Waiting
<1>5. OneManager' /\ \A n \in Managers : ManagerFollows(n)'
  BY OthersIdle DEF AloneInv, OneManager, ManagerFollows
<1> QED
  BY <1>3, <1>4, <1>5 DEF AloneInv

\* A step that asks nothing of the registry, and starts no additions, settles nothing again.
LEMMA SettledStays ==
  ASSUME Typed, AloneInv, NEW m \in Managers, Manage(m) \/ RegistryFails(m) \/ Killed(m),
         ~overlapped', NEW r \in Slaves, Settled(r),
         registered' \cup nodes' \subseteq registered \cup nodes,
         addFile'[r] \in {None, addFile[r]},
         mgr'[m].pc # "add",
         mgr'[m].pc \in AddingSteps => mgr[m].pc \in AddingSteps
  PROVE  Settled(r)'
<1>1. Forgotten(r)'
  BY DEF Settled, Forgotten
<1>2. \A n \in Managers \ {m} : mgr'[n] = mgr[n]
  BY OthersIdle DEF AloneInv
<1> QED
  BY <1>1, <1>2 DEF Settled

LEMMA ManageAlone ==
  ASSUME Typed, UsedInv, AloneInv, NEW m \in Managers,
         Manage(m) \/ RegistryFails(m) \/ Killed(m), ~overlapped'
  PROVE  AloneInv'
<1>0. /\ UNCHANGED <<wanted, json, recipe>>
      /\ \A r : (Removed(r)' <=> Removed(r)) /\ (Unlinking(r)' <=> Unlinking(r))
  BY DEF Manage, BeginAdd, ReadAdd, AddToken, Added, UnlinkRequest, BeginRemove, ReadRemove,
         DeleteToken, Revoke, CleanUp, BeginCheck, CheckToken, Publish, End, RegistryFails,
         Killed, Elsewhere, recipe, Removed, Unlinking
<1>1. /\ mgr[m] \in ManagerState /\ mgr[m].reference \in Slaves
      /\ ManagerFollows(m) /\ FirstTokens /\ OneManager
      /\ addFile \in [Slaves -> Contents] /\ removeFile \in [Slaves -> Contents]
  BY DEF Typed, TypeOK, ManagerState, FilesTyped, AloneInv
<1>2. \A r \in Slaves : RequestsFollow(r)
  BY DEF AloneInv
<1>3. \A r \in Slaves : Waiting(r) => removeFile[r] = 1 \/ (removeFile[r] = None /\ Settled(r))
  BY <1>2 DEF RequestsFollow, Waiting
<1>4. ASSUME UNCHANGED <<removeFile, registered, nodes>>,
             \A r \in Slaves : addFile'[r] \in {None, addFile[r]},
             mgr'[m].pc \notin {"add", "remove", "revoke", "clean"},
             mgr'[m].pc \in AddingSteps => mgr[m].pc \in AddingSteps
      PROVE  AloneInv'
  \* Most steps change nothing that the invariant is about.
  <2>1. \A r \in Slaves : Settled(r) => Settled(r)'
    BY <1>4, SettledStays
  <2>2. ManagerFollows(m)' /\ FirstTokens'
    BY <1>1, <1>4 DEF ManagerFollows, FirstTokens
  <2> QED
    BY <1>3, <1>4, <2>1, <2>2, StepAlone
<1>5. CASE BeginAdd(m)
  <2>1. /\ rpc = "idle" /\ mgr'[m].pc = "adding"
        /\ UNCHANGED <<addFile, removeFile, registered, nodes>>
    BY <1>5, ListGives DEF BeginAdd, registry
  <2>2. ASSUME NEW r \in Slaves, Waiting(r), Settled(r) PROVE Settled(r)'
    <3>1. addFile[r] = None
      BY <1>2, <2>1, <2>2 DEF RequestsFollow, Waiting, Unlinking
    <3>2. \A n \in Managers \ {m} : mgr'[n].pc = "idle"
      BY <1>1, OthersIdle
    <3> QED
      BY <2>1, <2>2, <3>1, <3>2 DEF Settled, Forgotten, AddingSteps
  <2>3. ManagerFollows(m)' /\ FirstTokens'
    BY <1>1, <2>1 DEF ManagerFollows, FirstTokens
  <2> QED
    BY <1>3, <2>1, <2>2, <2>3, StepAlone
<1>6. ASSUME NEW q \in Slaves, ReadAdd(m, q) PROVE AloneInv'
  <2>1. /\ mgr[m].pc = "adding" /\ UNCHANGED <<addFile, removeFile, registered, nodes>>
        /\ mgr'[m].pc \in {"adding", "removing", "add"} /\ mgr'[m].reference = q
        /\ mgr'[m].pc = "add" => addFile[q] # None
    BY <1>1, <1>6, ReadGives, ContentsAre DEF ReadAdd, At, registry
  <2>2. ASSUME NEW r \in Slaves, Settled(r) PROVE Settled(r)'
    <3>1. addFile[r] = None
      BY <2>1, <2>2 DEF Settled, AddingSteps
    <3>2. \A n \in Managers \ {m} : mgr'[n].pc = "idle"
      BY <1>1, <1>6, OthersIdle DEF Manage
    <3>3. Forgotten(r)'
      BY <2>1, <2>2 DEF Settled, Forgotten
    <3> QED
      BY <2>1, <3>1, <3>2, <3>3 DEF Settled, AddingSteps
  <2>3. ManagerFollows(m)' /\ FirstTokens'
    BY <1>1, <2>1 DEF ManagerFollows, FirstTokens
  <2> QED
    BY <1>3, <2>1, <2>2, <2>3, StepAlone
<1>7. CASE AddToken(m)
  <2>1. /\ mgr[m].pc = "add" /\ mgr'[m].pc = "added" /\ mgr[m].token = 1
        /\ registered' = registered \cup {<<mgr[m].reference, 1>>}
        /\ UNCHANGED <<addFile, removeFile, nodes>>
    BY <1>7, GotoGives DEF AddToken, At, Token, Reference, UsedInv, SoundManager
  <2>2. ASSUME NEW r \in Slaves, Settled(r) PROVE Settled(r)'
    <3>1. r # mgr[m].reference
      BY <2>1, <2>2 DEF Settled
    <3>2. Forgotten(r)'
      BY <2>1, <2>2, <3>1 DEF Settled, Forgotten
    <3>3. \A n \in Managers \ {m} : mgr'[n].pc = "idle"
      BY <1>1, OthersIdle
    <3> QED
      BY <2>1, <2>2, <3>2, <3>3 DEF Settled, AddingSteps
  <2>3. ManagerFollows(m)' /\ FirstTokens'
    BY <1>1, <2>1 DEF ManagerFollows, FirstTokens
  <2> QED
    BY <1>3, <2>1, <2>2, <2>3, StepAlone
<1>8. ASSUME NEW q \in Slaves, ReadRemove(m, q) PROVE AloneInv'
  <2>1. /\ mgr[m].pc = "removing" /\ UNCHANGED <<addFile, removeFile, registered, nodes>>
        /\ mgr'[m].pc \in {"removing", "remove"}
        /\ mgr'[m].reference = q /\ mgr'[m].token = removeFile[q]
        /\ mgr'[m].pc = "remove" => removeFile[q] \in Tokens
    <3>1. /\ mgr[m].pc = "removing" /\ ReadFile(m, q, removeFile, "remove")
          /\ UNCHANGED <<addFile, removeFile, registered, nodes>>
      BY <1>8 DEF ReadRemove, At, registry
    <3>2. mgr'[m].pc = IF removeFile[q] \in Tokens THEN "remove" ELSE "removing"
      BY <1>1, <3>1 DEF ReadFile, Typed, TypeOK, ManagerState
    <3> QED
      BY <1>1, <3>1, <3>2, ReadGives
  <2>2. mgr'[m].pc = "remove" => removeFile[q] = 1 /\ (Removed(q) \/ Unlinking(q))
    BY <1>2, <1>3, <2>1, ContentsAre DEF RequestsFollow, Waiting
  <2>3. \A r \in Slaves : Settled(r) => Settled(r)'
    BY <1>8, <2>1, SettledStays DEF AddingSteps, Manage
  <2>4. ManagerFollows(m)' /\ FirstTokens'
    BY <1>0, <1>1, <2>1, <2>2 DEF ManagerFollows, FirstTokens
  <2> QED
    BY <1>3, <1>8, <2>1, <2>3, <2>4, StepAlone DEF Manage
<1>9. CASE DeleteToken(m)
  <2>1. /\ mgr[m].pc = "remove" /\ mgr'[m].pc = "revoke" /\ mgr[m].token = 1
        /\ mgr'[m].reference = mgr[m].reference /\ mgr'[m].token = mgr[m].token
        /\ registered' = registered \ {<<mgr[m].reference, 1>>}
        /\ UNCHANGED <<addFile, removeFile, nodes>>
    BY <1>1, <1>9, GotoGives DEF DeleteToken, At, Token, Reference, ManagerFollows
  <2>2. \A r \in Slaves : Settled(r) => Settled(r)'
    BY <2>1, SettledStays DEF AddingSteps
  <2>3. ManagerFollows(m)' /\ FirstTokens'
    BY <1>0, <1>1, <2>1 DEF ManagerFollows, FirstTokens
  <2> QED
    BY <1>3, <2>1, <2>2, <2>3, StepAlone
<1>10. CASE Revoke(m)
  <2>1. /\ mgr[m].pc = "revoke" /\ mgr'[m].pc = "clean" /\ mgr[m].token = 1
        /\ mgr'[m].reference = mgr[m].reference /\ mgr'[m].token = mgr[m].token
        /\ <<mgr[m].reference, 1>> \notin registered
        /\ UNCHANGED <<addFile, removeFile, registered>>
    BY <1>1, <1>10, GotoGives DEF Revoke, At, ManagerFollows
  \* There is one node at most, and it is the one that is revoked.
  <2>2. nodes' \subseteq nodes /\ \A n \in nodes' : n[1] # mgr[m].reference
    <3>1. \A n \in nodes : n[1] = mgr[m].reference => n = <<mgr[m].reference, 1>>
      BY <1>1 DEF FirstTokens
    <3>2. Token(m) \notin registered
      BY <2>1 DEF Token, Reference
    <3> QED
      BY <1>10, <3>1, <3>2 DEF Revoke, Reference
  <2>3. \A n \in registered : n[1] # mgr[m].reference
    BY <1>1, <2>1 DEF FirstTokens
  <2>4. \A r \in Slaves : Settled(r) => Settled(r)'
    BY <2>1, <2>2, SettledStays DEF AddingSteps
  <2>5. FirstTokens'
    BY <1>1, <2>1, <2>2 DEF FirstTokens
  <2>6. ManagerFollows(m)'
    BY <1>0, <1>1, <2>1, <2>2, <2>3 DEF ManagerFollows, Forgotten
  <2> QED
    BY <1>3, <2>1, <2>4, <2>5, <2>6, StepAlone
<1>11. CASE CleanUp(m)
  <2>1. /\ mgr[m].pc = "clean" /\ mgr'[m].pc \in {"idle", "removing"}
        /\ UNCHANGED <<addFile, registered, nodes>>
    BY <1>11, GotoGives, StopGives DEF CleanUp, At, registry
  <2>2. \A r \in Slaves : removeFile'[r] = IF r = mgr[m].reference THEN None ELSE removeFile[r]
    BY <1>1, <1>11 DEF CleanUp, Reference
  <2>3. \A r \in Slaves : Settled(r) => Settled(r)'
    BY <2>1, SettledStays DEF AddingSteps
  <2>4. PICK q \in Slaves : q = mgr[m].reference
    BY <1>1
  <2>6. Settled(q)'
    <3>1. Forgotten(q)
      BY <1>1, <2>1, <2>4 DEF ManagerFollows
    <3>2. \A n \in Managers : mgr'[n].pc \in {"idle", "removing"}
      BY <1>1, <2>1, OthersIdle
    <3> QED
      BY <2>1, <3>1, <3>2 DEF Forgotten, Settled, AddingSteps
  <2>5. ManagerFollows(m)' /\ FirstTokens'
    BY <1>1, <2>1 DEF ManagerFollows, FirstTokens
  <2> QED
    BY <1>3, <2>1, <2>2, <2>3, <2>4, <2>5, <2>6, StepAlone
<1>12. CASE UnlinkRequest(m) \/ Added(m)
  <2>1. /\ mgr[m].pc \in {"unlink", "added"} /\ mgr'[m].pc \in {"idle", "adding", "unlink"}
        /\ UNCHANGED <<removeFile, registered, nodes>>
        /\ \A r \in Slaves : addFile'[r] \in {None, addFile[r]}
    BY <1>1, <1>12, GotoGives, StopGives DEF UnlinkRequest, Added, At, registry
  <2> QED
    BY <1>4, <2>1 DEF AddingSteps
<1>13. CASE RegistryFails(m)
  <2>1. /\ UNCHANGED <<addFile, removeFile, registered, nodes>>
        /\ \/ mgr[m].pc = "add" /\ mgr'[m].pc = "adding"
           \/ mgr'[m].pc = "removing"
    BY <1>13, GotoGives DEF RegistryFails, At, registry
  <2> QED
    BY <1>4, <2>1 DEF AddingSteps
<1>14. CASE \/ BeginRemove(m) \/ BeginCheck(m) \/ Publish(m) \/ End(m) \/ Killed(m)
            \/ \E q \in Slaves : CheckToken(m, q)
  <2>1. UNCHANGED <<addFile, removeFile, registered, nodes>>
    BY <1>14 DEF BeginRemove, BeginCheck, Publish, End, Killed, CheckToken, registry
  <2>2. mgr'[m].pc \in {"idle", "removing", "checking", "publish"}
    <3>1. CASE BeginRemove(m) \/ Publish(m) \/ End(m) \/ Killed(m)
      BY <3>1, ListGives, GotoGives, StopGives DEF BeginRemove, Publish, End, Killed
    <3>2. CASE BeginCheck(m)
      <4>1. \/ Stop(m)
            \/ mgr'[m] = [mgr[m] EXCEPT !.pc = "checking", !.token = None, !.dict = json,
                                        !.list = {r \in Slaves : json[r] # None}]
        BY <3>2 DEF BeginCheck, Typed, TypeOK
      <4> QED
        BY <1>1, <4>1, StopGives DEF ManagerState
    <3>3. ASSUME NEW q \in Slaves, CheckToken(m, q) PROVE mgr'[m].pc \in {"checking", "publish"}
      <4>1. /\ mgr[m].pc = "checking"
            /\ \/ mgr'[m] = [mgr[m] EXCEPT !.list = mgr[m].list \ {q}]
               \/ mgr'[m] = [mgr[m] EXCEPT !.pc = "publish", !.reference = q,
                                           !.list = mgr[m].list \ {q}]
        BY <3>3 DEF CheckToken, At, Typed, TypeOK
      <4> QED
        BY <1>1, <4>1 DEF ManagerState
    <3> QED
      BY <1>14, <3>1, <3>2, <3>3
  <2> QED
    BY <1>4, <2>1, <2>2 DEF AddingSteps
<1> QED
  BY <1>5, <1>6, <1>7, <1>8, <1>9, <1>10, <1>11, <1>12, <1>13, <1>14 DEF Manage

\* The users and the nodes add no token.
LEMMA OthersAlone ==
  ASSUME Typed, UsedInv, AloneInv, NEW s \in Slaves, Request(s) \/ Destroy(s) \/ Use(s)
  PROVE  AloneInv'
<1>0. UNCHANGED <<made, json, addFile, removeFile, rpc, dict, toAdd, toRemove, ref, mgr>>
  BY DEF Request, Destroy, Use, files, recipe
<1>1. /\ registered' \subseteq registered
      /\ registered' \cup nodes' \subseteq registered \cup nodes
  BY DEF Request, Destroy, Use, registry
<1>2. /\ \A r : (Removed(r)' <=> Removed(r)) /\ (Unlinking(r)' <=> Unlinking(r))
      /\ \A r \in Slaves : Forgotten(r) => Forgotten(r)'
  BY <1>0, <1>1 DEF Removed, Unlinking, Forgotten
<1>3. OneManager' /\ RecipeFollows' /\ FirstTokens'
  BY <1>0, <1>1 DEF AloneInv, OneManager, RecipeFollows, FirstTokens
<1>4. \A r \in Slaves : Settled(r) => Settled(r)'
  BY <1>0, <1>2 DEF Settled
<1>5. ASSUME NEW r \in Slaves PROVE RequestsFollow(r)'
  BY <1>0, <1>2, <1>4 DEF AloneInv, RequestsFollow
<1>6. ASSUME NEW m \in Managers PROVE ManagerFollows(m)'
  <2>1. ManagerFollows(m) /\ mgr[m].reference \in Slaves
    BY DEF AloneInv, Typed, TypeOK, ManagerState
  <2> QED
    BY <1>0, <1>1, <1>2, <2>1 DEF ManagerFollows
<1> QED
  BY <1>3, <1>5, <1>6 DEF AloneInv

LEMMA AloneGivesNoOrphan == UsedInv /\ AloneInv => Orphans = {}
<1> SUFFICES ASSUME UsedInv, AloneInv, NEW r \in Orphans PROVE FALSE
  OBVIOUS
<1>1. /\ r \in Slaves /\ json[r] = None /\ rpc = "idle" /\ removeFile[r] = None
      /\ ~Forgotten(r) /\ None # 1
  BY DEF Orphans, None
<1>2. made[r] = None \/ Removed(r)
  BY <1>1 DEF Removed
<1> QED
  BY <1>1, <1>2 DEF AloneInv, RequestsFollow, Settled

\* A kill or an overlap is not forgotten.
LEMMA AloneBefore == [Next]_vars /\ Alone' => Alone /\ ~Crash
<1> SUFFICES ASSUME [Next]_vars, Alone' PROVE Alone /\ ~Crash
  OBVIOUS
<1>1. ~Crash
  BY DEF Alone, Crash
<1>2. Install => UNCHANGED <<crashed, overlapped>>
  BY DEF Install, InstallStart, AddOpen, AddWrite, RemoveOpen, RemoveWrite, UnlinkAdd,
         JsonUnlink, JsonOpen, JsonWrite
<1>3. ASSUME NEW m \in Managers, Manage(m) \/ RegistryFails(m) \/ Killed(m)
      PROVE  crashed' = crashed /\ (overlapped => overlapped')
  <2>1. CASE BeginAdd(m)
    BY <2>1 DEF BeginAdd
  <2>2. CASE ~BeginAdd(m)
    <3>1. Elsewhere
      BY <1>3, <2>2
      DEF Manage, ReadAdd, AddToken, Added, UnlinkRequest, BeginRemove, ReadRemove,
          DeleteToken, Revoke, CleanUp, BeginCheck, CheckToken, Publish, End,
          RegistryFails, Killed
    <3> QED
      BY <3>1 DEF Elsewhere
  <2> QED
    BY <2>1, <2>2
<1>4. ASSUME NEW r \in Slaves, Request(r) \/ Destroy(r) \/ Use(r)
      PROVE  UNCHANGED <<crashed, overlapped>>
  BY <1>4 DEF Request, Destroy, Use
<1> QED
  BY <1>1, <1>2, <1>3, <1>4 DEF Next, vars, Alone

LEMMA AloneStep ==
  UnlessCrashed /\ (Alone => AloneInv) /\ [Next]_vars => (Alone => AloneInv)'
<1> SUFFICES ASSUME UnlessCrashed, Alone => AloneInv, [Next]_vars, Alone'
             PROVE  AloneInv'
  OBVIOUS
<1>1. /\ Typed /\ UsedInv /\ AloneInv /\ ~Crash /\ ~overlapped'
  BY AloneBefore DEF UnlessCrashed, Alone
<1>2. CASE UNCHANGED vars
  <2> USE <1>2 DEF vars, master, files, recipe, registry
  <2>1. \A r : /\ (Removed(r)' <=> Removed(r)) /\ (Unlinking(r)' <=> Unlinking(r))
               /\ (Settled(r)' <=> Settled(r)) /\ (Forgotten(r)' <=> Forgotten(r))
    BY DEF Removed, Unlinking, Settled, Forgotten
  <2>2. OneManager' /\ RecipeFollows' /\ FirstTokens'
    BY <1>1 DEF AloneInv, OneManager, RecipeFollows, FirstTokens
  <2>3. \A r \in Slaves : RequestsFollow(r)'
    BY <1>1, <2>1 DEF AloneInv, RequestsFollow
  <2>4. \A m \in Managers : ManagerFollows(m)'
    BY <1>1, <2>1 DEF AloneInv, ManagerFollows
  <2> QED
    BY <2>2, <2>3, <2>4 DEF AloneInv
<1> QED
  BY <1>1, <1>2, InstallAlone, ManageAlone, OthersAlone DEF Next

\* For any slaves: as long as managers run one after the other, none starts during a run of
\* the recipe and the recipe is not killed, a slave that is gone and of which no request is
\* left has neither token nor node in the registry, whatever fails there and however often
\* a manager is killed.
THEOREM NoOrphanForAny == Spec => []NoOrphanIfAlone
<1>1. Init => (Alone => AloneInv)
  BY AloneInit
<1>2. UnlessCrashed /\ (Alone => AloneInv) => NoOrphanIfAlone
  BY AloneGivesNoOrphan DEF UnlessCrashed, Alone, NoOrphanIfAlone, NoOrphan
<1> QED BY <1>1, <1>2, AlwaysUnlessCrashed, AloneStep, PTL DEF Spec
=============================================================================
