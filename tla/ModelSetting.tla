---------------------------- MODULE ModelSetting ----------------------------
(***************************************************************************)
(* The model that Claude is started with: the line `model:' of agent.yaml, *)
(* and the cell of the bot that turns and cron runs load it from.  Two     *)
(* writers change the cell, a click on a button of /model                  *)
(* (telegram/model_command.rs), which writes the file first, and the       *)
(* watcher of agent.yaml (config_watcher.rs), which compares what it reads *)
(* with what it read before.  Others edit the file only.                   *)
(***************************************************************************)
CONSTANTS
  Models,
  Clickers,   \* chats with a menu: callbacks of one chat run one at a time
  NoModel

ModelAssumption == NoModel \notin Models

VARIABLES
  yaml,     \* the model in agent.yaml
  cell,     \* model_swap
  last,     \* the watcher: last_yaml,
  dirty,    \* an event is debounced (2 s),
  found,    \* what it has read and not yet handled
  click,    \* what a callback has written and not yet stored
  fresh,    \* ghost: a click has written the file since the watcher read it
  raced     \* ghost: the file was changed under a click, or under the start

modelVars == <<yaml, cell, last, dirty, found, click, fresh, raced>>

Unclicked == [c \in Clickers |-> NoModel]

Init ==
  /\ yaml \in Models /\ cell = NoModel /\ last = NoModel
  /\ dirty = FALSE /\ found = NoModel /\ click = Unclicked
  /\ fresh = FALSE /\ raced = FALSE

Watching == last # NoModel

(* The bot is gone.                                                        *)
Gone ==
  /\ cell' = NoModel /\ last' = NoModel /\ dirty' = FALSE /\ found' = NoModel
  /\ click' = Unclicked /\ fresh' = FALSE /\ raced' = FALSE
  /\ UNCHANGED yaml

(* run_async reads its configuration, long before it starts the watcher.   *)
Parse ==
  /\ cell = NoModel
  /\ cell' = yaml
  /\ UNCHANGED <<yaml, last, dirty, found, click, fresh, raced>>

StartWatcher ==
  /\ cell # NoModel /\ ~Watching
  /\ last' = yaml /\ raced' = (cell # yaml)
  /\ UNCHANGED <<yaml, cell, dirty, found, click, fresh>>

-----------------------------------------------------------------------------
(* write_agent_yaml_model: other lines are kept, another click of the same *)
(* moment changes this line only.                                          *)
Click(c, m) ==
  /\ Watching /\ click[c] = NoModel
  /\ yaml' = m /\ click' = [click EXCEPT ![c] = m]
  /\ dirty' = TRUE /\ fresh' = TRUE
  /\ raced' = (raced \/ \E d \in Clickers : click[d] # NoModel)
  /\ UNCHANGED <<cell, last, found>>

Store(c) ==
  /\ click[c] # NoModel
  /\ cell' = click[c] /\ click' = [click EXCEPT ![c] = NoModel]
  /\ UNCHANGED <<yaml, last, dirty, found, fresh, raced>>

(* An editor, or right agent config.                                       *)
Edit(m) ==
  /\ yaml' = m /\ dirty' = Watching
  /\ raced' = (raced \/ fresh \/ click # Unclicked)
  /\ UNCHANGED <<cell, last, found, click, fresh>>

WatcherReads ==
  /\ dirty /\ found = NoModel
  /\ found' = yaml /\ dirty' = FALSE /\ fresh' = FALSE
  /\ UNCHANGED <<yaml, cell, last, click, raced>>

(* Mutant: the watcher goes on comparing with what it read at the start.   *)
WatcherStoresOnly ==
  /\ found # NoModel
  /\ cell' = IF found = last THEN cell ELSE found
  /\ found' = NoModel
  /\ UNCHANGED <<yaml, last, dirty, click, fresh, raced>>

(* diff_classify: an unchanged file is passed over, a new model stored.    *)
WatcherStores ==
  /\ found # NoModel
  /\ cell' = IF found = last THEN cell ELSE found
  /\ last' = found /\ found' = NoModel
  /\ UNCHANGED <<yaml, dirty, click, fresh, raced>>

Next ==
  \/ Parse \/ StartWatcher \/ Gone \/ WatcherReads \/ WatcherStores
  \/ \E m \in Models : Edit(m) \/ \E c \in Clickers : Click(c, m)
  \/ \E c \in Clickers : Store(c)

Spec == Init /\ [][Next]_modelVars

-----------------------------------------------------------------------------
Quiet == Watching /\ ~dirty /\ found = NoModel /\ click = Unclicked

(* With nothing under way the bot uses the model of the file, as the       *)
(* comments at both writers promise (`last-write-wins converges            *)
(* race-free'), but for three races: two clicks at once store in the other *)
(* order than they wrote; an edit undoes a click before the watcher has    *)
(* read it, and the watcher sees no change; an edit falls between the      *)
(* parse at the start and the watcher's first read.                        *)
CellIsTheFiles == Quiet /\ ~raced => cell = yaml
=============================================================================
