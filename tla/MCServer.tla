------------------------------ MODULE MCServer ------------------------------
(* Small instances, for TLC, of the parts of the server whose properties    *)
(* are about single steps: one part runs in a behaviour, the others stay in *)
(* their initial state.                                                     *)
EXTENDS RestoreJournal, Dispatch, ModelStream, PromptAssembly, Worldbook,
        Personality, ModelConfig, SessionFiles, FileTools, FileFind, TLC

CONSTANTS e1, e2, e3, b1

VARIABLE part    \* the part that runs

(* RestoreJournal: a database, its write-ahead log and two resource         *)
(* directories, which the older archives do not all cover.                  *)
Logs == {2}
Archives == {{1, 2}, {1, 2, 3}, {1, 2, 3, 4}}

(* Dispatch: every pattern alone, and those that compete for a message.     *)
MessageTexts ==
    {{}, {"approval"}, {"approval", "status"}, {"status"}, {"codex"}, {"codex", "codex_empty"},
     {"codex", "hermes"}, {"codex", "code"}, {"hermes"}, {"local", "gui"}, {"code", "gui"}, {"gui"}, {"long"}}

(* Worldbook: an entry that rests, waits or sticks, one of a group that is  *)
(* found deeper or through the first, and one that is found by recursion.   *)
Plain == [book |-> b1, constant |-> FALSE, depth |-> 1, recursion |-> 0, hears |-> TRUE,
          contagious |-> TRUE, mentions |-> {}, doubtful |-> FALSE, rank |-> 1, order |-> 1,
          group |-> "none", override |-> FALSE, cost |-> 1, free |-> FALSE,
          sticky |-> 0, cooldown |-> 0, delay |-> 0]
Resting == {[Plain EXCEPT !.cooldown = c, !.sticky = k, !.mentions = {e2}] :
               c \in {0, 2}, k \in {0, 3}}
           \cup {[Plain EXCEPT !.delay = 2, !.mentions = {e2}]}
Grouped == {[Plain EXCEPT !.rank = 2, !.order = 0, !.group = "g", !.cooldown = 3,
                          !.doubtful = TRUE, !.mentions = {e3}, !.cost = 2]}
Recursive == {[Plain EXCEPT !.rank = 3, !.order = 2, !.group = g, !.recursion = 1, !.free = f,
                            !.constant = TRUE, !.override = f] :
                 g \in {"none", "g"}, f \in BOOLEAN}
EntrySettings == {(e1 :> x) @@ (e2 :> y) @@ (e3 :> z) :
                     x \in Resting, y \in Grouped, z \in Recursive}
BookSettings == {b1 :> [budget |-> 2, minimum |-> n, recursive |-> r, steps |-> 2] :
                    n \in {0, 2}, r \in BOOLEAN}
KeyPlaces == {(e1 :> x) @@ (e2 :> y) @@ (e3 :> 0) : x \in {0, 1}, y \in {0, 2}}
-----------------------------------------------------------------------------
Parts == {"restore", "dispatch", "stream", "prompt", "world", "person", "config", "session",
          "files", "find"}

(* What a part that does not run is left with, where its Init has a choice. *)
IdleParts ==
    /\ part = "restore" \/ live = NoFiles
    /\ part = "dispatch" \/ /\ text = [m \in ChatMessage |-> {}]
                            /\ image = {}
                            /\ files = {}
                            /\ hermes = FALSE
                            /\ overrides = "unset"
                            /\ installed = "text"
    /\ part = "stream" \/ (adapter = "openai" /\ broken = {})
    /\ part = "prompt" \/ (history = <<1>> /\ depth = [b \in Blocks |-> 0] /\ post = FALSE
                           /\ ruled = TRUE /\ limit = 0)
    /\ part = "world" \/ /\ lore = CHOOSE l \in EntrySettings : TRUE
                         /\ shelf = CHOOSE s \in BookSettings : TRUE
    /\ part = "session" \/ /\ owner = [x \in Upload \cup Turn |-> "x"]
                           /\ carries = [t \in Turn |-> {}]
    /\ part = "files" \/ /\ job = [t \in Tool |-> CHOOSE j \in Jobs : j.what = "delete"]
                         /\ disk = [p \in ToolFile |-> 0]
    /\ part = "find" \/ /\ tree = CHOOSE t \in Trees : TRUE
                        /\ asked = CHOOSE q \in Questions : TRUE

(* Sessions, and messages, that differ in their names only are taken once.  *)
OneOfEachKind ==
    /\ owner["u1"] = "x"
    /\ Cardinality(carries["t1"]) <= Cardinality(carries["t2"])

ServerInit ==
    /\ part \in Parts
    /\ IdleParts
    /\ Init
    /\ DispatchInit
    /\ StreamInit
    /\ PromptInit
    /\ WorldInit
    /\ PersonalityInit
    /\ ModelConfigInit
    /\ SessionFilesInit
    /\ FilesInit
    /\ FindInit
    /\ part = "session" => OneOfEachKind

Runs(p) ==
    /\ part = p
    /\ part' = p
    /\ p # "restore" => UNCHANGED vars
    /\ p # "dispatch" => UNCHANGED dispatchVars
    /\ p # "stream" => UNCHANGED streamVars
    /\ p # "prompt" => UNCHANGED promptVars
    /\ p # "world" => UNCHANGED worldVars
    /\ p # "person" => UNCHANGED personVars
    /\ p # "config" => UNCHANGED configVars
    /\ p # "session" => UNCHANGED sessionVars
    /\ p # "files" => UNCHANGED fileVars
    /\ p # "find" => UNCHANGED findVars

ServerNext ==
    \/ Runs("restore") /\ Next
    \/ Runs("dispatch") /\ DispatchNext
    \/ Runs("stream") /\ StreamNext
    \/ Runs("prompt") /\ PromptNext
    \/ Runs("world") /\ WorldNext
    \/ Runs("person") /\ PersonalityNext
    \/ Runs("config") /\ ModelConfigNext
    \/ Runs("session") /\ SessionFilesNext
    \/ Runs("files") /\ FilesNext
    \/ Runs("find") /\ FindNext

serverVars == <<part, vars, dispatchVars, streamVars, promptVars, worldVars,
                personVars, configVars, sessionVars, fileVars, findVars>>

ServerSpec == ServerInit /\ [][ServerNext]_serverVars

(* The types of the part that runs.                                         *)
ServerTypeOK ==
    CASE part = "restore" -> TypeOK
      [] part = "dispatch" -> DispatchTypeOK
      [] part = "stream" -> StreamTypeOK
      [] part = "prompt" -> PromptTypeOK
      [] part = "world" -> WorldTypeOK
      [] part = "person" -> PersonalityTypeOK
      [] part = "config" -> ModelConfigTypeOK
      [] part = "session" -> SessionFilesTypeOK
      [] part = "files" -> FilesTypeOK
      [] part = "find" -> FindTypeOK

(* What the model is given keeps its bounds and its shape: the lore that    *)
(* was found, and the prompt it is put into (worldbook.py, compiler.py).    *)
PromptIsInShape == LoreIsBounded /\ PromptKeepsItsShape

(* The file tools do what was asked and say what they did not look at       *)
(* (tools/files.py): what is moved or deleted is what was approved, and a   *)
(* search that reports nothing missing has seen everything.                 *)
FileToolsAreHonest == OnlyApprovedContent /\ SilentMeansComplete
=============================================================================
