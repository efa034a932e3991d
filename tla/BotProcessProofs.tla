--------------------------- MODULE BotProcessProofs ---------------------------
(***************************************************************************)
(* What ModelSetting and Allowlist promise, for any models, chats, users   *)
(* and processes of the command line; and that the bot, with its starts,   *)
(* shutdowns and deaths, uses them and PlatformStore as these modules say: *)
(* its turns get the model of agent.yaml, it trusts nobody who was not     *)
(* written down first, and what a sync cycle has linked in the sandbox is  *)
(* there and whole, wherever a cycle was cut off.                          *)
(***************************************************************************)
EXTENDS BotProcess, TLAPS

-----------------------------------------------------------------------------
(* What the watcher compares with next, and what the cell will be, once    *)
(* what was read has been handled.                                         *)
NextLast == IF found = NoModel THEN last ELSE found
NextCell == IF found = NoModel \/ found = last THEN cell ELSE found

SettingTypeInv ==
  /\ yaml \in Models
  /\ cell \in Models \cup {NoModel} /\ last \in Models \cup {NoModel}
  /\ found \in Models \cup {NoModel} /\ click \in [Clickers -> Models \cup {NoModel}]
  /\ dirty \in BOOLEAN /\ fresh \in BOOLEAN /\ raced \in BOOLEAN

(* Before the watcher nothing is under way.                                *)
SettingStartInv ==
  ~M!Watching => ~dirty /\ found = NoModel /\ click = M!Unclicked /\ ~fresh

(* The watcher is behind only while an event is pending.                   *)
WatcherInv ==
  /\ ~dirty => (M!Watching => NextLast = yaml)
  /\ fresh => dirty

(* A click that is not stored yet is what the file has; with the file read   *)
(* since, nothing else has happened to it.                                 *)
ClickInv ==
  /\ \A c \in Clickers : click[c] # NoModel => click[c] = yaml
  /\ click # M!Unclicked /\ ~fresh => ~dirty

(* The watcher is going to put the cell right, or there is nothing to put  *)
(* right: with no click unread, cell and last_yaml go together.            *)
CellInv ==
  click = M!Unclicked =>
    /\ yaml = NextLast => NextCell = yaml
    /\ ~fresh => NextCell = NextLast

SettingInv ==
  /\ M!ModelAssumption /\ SettingTypeInv /\ SettingStartInv
  /\ M!Watching /\ ~raced => WatcherInv /\ ClickInv /\ CellInv

-----------------------------------------------------------------------------
LEMMA SettingInitially == M!ModelAssumption /\ M!Init => SettingInv
BY DEF M!ModelAssumption, M!Init, SettingInv, SettingTypeInv, SettingStartInv, M!Watching,
       M!Unclicked

(* The bot's start, its end, and the watcher.                              *)
LEMMA ProcessStep ==
  SettingInv /\ (M!Parse \/ M!StartWatcher \/ M!Gone) => SettingInv'
<1> SUFFICES ASSUME SettingInv, M!Parse \/ M!StartWatcher \/ M!Gone PROVE SettingInv'
  OBVIOUS
<1> USE DEF M!ModelAssumption, SettingTypeInv, SettingStartInv, M!Watching, M!Unclicked
<1>1. CASE M!Parse
  BY <1>1 DEF M!Parse, SettingInv, WatcherInv, ClickInv, CellInv, NextLast, NextCell
<1>2. CASE M!StartWatcher
  BY <1>2 DEF M!StartWatcher, SettingInv, WatcherInv, ClickInv, CellInv, NextLast, NextCell
<1>3. CASE M!Gone
  BY <1>3 DEF M!Gone, SettingInv
<1> QED
  BY <1>1, <1>2, <1>3

LEMMA ReadStep == SettingInv /\ M!WatcherReads => SettingInv'
<1> SUFFICES ASSUME SettingInv, M!WatcherReads PROVE SettingInv'
  OBVIOUS
<1> USE DEF M!ModelAssumption, M!WatcherReads, SettingInv
<1>1. SettingTypeInv' /\ SettingStartInv'
  BY DEF SettingTypeInv, SettingStartInv, M!Watching, M!Unclicked
<1>2. ASSUME (M!Watching /\ ~raced)' PROVE (WatcherInv /\ ClickInv /\ CellInv)'
  <2>1. M!Watching /\ WatcherInv /\ ClickInv /\ CellInv
    BY <1>2 DEF M!Watching
  <2>2. WatcherInv'
    BY DEF WatcherInv, NextLast, SettingTypeInv
  <2>3. ClickInv'
    BY <2>1 DEF ClickInv, M!Unclicked
  <2>4. CellInv'
    BY <2>1 DEF CellInv, NextLast, NextCell, SettingTypeInv, M!Unclicked
  <2> QED
    BY <2>2, <2>3, <2>4
<1> QED
  BY <1>1, <1>2

LEMMA StoreFoundStep == SettingInv /\ M!WatcherStores => SettingInv'
<1> SUFFICES ASSUME SettingInv, M!WatcherStores PROVE SettingInv'
  OBVIOUS
<1> USE DEF M!ModelAssumption, M!WatcherStores, SettingInv
<1>1. SettingTypeInv' /\ SettingStartInv'
  BY DEF SettingTypeInv, SettingStartInv, M!Watching, M!Unclicked
<1>2. ASSUME (M!Watching /\ ~raced)' PROVE (WatcherInv /\ ClickInv /\ CellInv)'
  <2>1. M!Watching
    BY DEF SettingStartInv
  <2>2. WatcherInv /\ ClickInv /\ CellInv
    BY <1>2, <2>1
  <2>3. NextLast' = NextLast /\ NextCell' = NextCell
    BY DEF NextLast, NextCell
  <2>4. WatcherInv' /\ ClickInv' /\ CellInv'
    BY <2>1, <2>2, <2>3 DEF WatcherInv, ClickInv, CellInv, M!Unclicked
  <2> QED
    BY <2>4
<1> QED
  BY <1>1, <1>2

(* The file is changed by others.                                          *)
LEMMA EditStep == ASSUME NEW m \in Models, SettingInv, M!Edit(m) PROVE SettingInv'
<1> USE DEF M!ModelAssumption, M!Edit, SettingInv
<1>1. SettingTypeInv' /\ SettingStartInv'
  BY DEF SettingTypeInv, SettingStartInv, M!Watching, M!Unclicked
<1>2. ASSUME (M!Watching /\ ~raced)' PROVE (WatcherInv /\ ClickInv /\ CellInv)'
  <2>1. M!Watching /\ ~raced /\ ~fresh /\ click = M!Unclicked
    BY <1>2 DEF M!Watching, SettingTypeInv
  <2>2. CellInv /\ NextCell = NextLast
    BY <2>1 DEF CellInv
  <2>3. NextLast' = NextLast /\ NextCell' = NextCell
    BY DEF NextLast, NextCell
  <2>4. WatcherInv'
    BY <2>1 DEF WatcherInv
  <2>5. ClickInv'
    BY <2>1 DEF ClickInv, M!Unclicked
  <2>6. CellInv'
    BY <2>2, <2>3 DEF CellInv
  <2> QED
    BY <2>4, <2>5, <2>6
<1> QED
  BY <1>1, <1>2

(* A click of a menu: what it writes first, and what it stores then.       *)
LEMMA ClickStep == ASSUME NEW c \in Clickers, NEW m \in Models, SettingInv, M!Click(c,
    m) PROVE SettingInv'
<1> USE DEF M!ModelAssumption, M!Click, SettingInv
<1>1. SettingTypeInv' /\ SettingStartInv'
  BY DEF SettingTypeInv, SettingStartInv, M!Watching, M!Unclicked
<1>2. ASSUME (M!Watching /\ ~raced)' PROVE (WatcherInv /\ ClickInv /\ CellInv)'
  <2>1. \A d \in Clickers : click[d] = NoModel
    BY <1>2 DEF SettingTypeInv
  <2>2. click'[c] = m /\ click' # M!Unclicked'
    BY DEF SettingTypeInv, M!Unclicked
  <2>3. WatcherInv' /\ ClickInv' /\ CellInv'
    BY <2>1, <2>2 DEF WatcherInv, ClickInv, CellInv, SettingTypeInv
  <2> QED
    BY <2>3
<1> QED
  BY <1>1, <1>2

LEMMA StoreStep == ASSUME NEW c \in Clickers, SettingInv, M!Store(c) PROVE SettingInv'
<1> USE DEF M!ModelAssumption, M!Store, SettingInv
<1>1. M!Watching
  BY DEF SettingStartInv, M!Unclicked
<1>2. SettingTypeInv' /\ SettingStartInv'
  BY <1>1 DEF SettingTypeInv, SettingStartInv, M!Watching
<1>3. ASSUME (M!Watching /\ ~raced)' PROVE (WatcherInv /\ ClickInv /\ CellInv)'
  <2>1. WatcherInv /\ ClickInv
    BY <1>1, <1>3
  <2>2. cell' = yaml
    BY <2>1 DEF ClickInv
  <2>3. click # M!Unclicked
    BY DEF M!Unclicked
  <2>4. WatcherInv'
    BY <1>1, <2>1 DEF WatcherInv, NextLast, M!Watching
  <2>5. ClickInv'
    BY <2>1, <2>3 DEF ClickInv, SettingTypeInv
  <2>6. CellInv'
    BY <1>1, <2>1, <2>2, <2>3 DEF CellInv, ClickInv, WatcherInv, NextLast, NextCell
  <2> QED
    BY <2>4, <2>5, <2>6
<1> QED
  BY <1>2, <1>3

(* SettingInv is inductive.                                                       *)
LEMMA SettingStep == SettingInv /\ [M!Next]_setting => SettingInv'
<1> SUFFICES ASSUME SettingInv, [M!Next]_setting PROVE SettingInv'
  OBVIOUS
<1>1. CASE UNCHANGED setting
  BY <1>1 DEF setting, M!ModelAssumption, SettingInv, SettingTypeInv, SettingStartInv,
              WatcherInv, ClickInv, CellInv, NextLast, NextCell, M!Watching, M!Unclicked
<1>2. CASE M!Parse \/ M!StartWatcher \/ M!Gone
  BY <1>2, ProcessStep
<1>3. CASE M!WatcherReads
  BY <1>3, ReadStep
<1>4. CASE M!WatcherStores
  BY <1>4, StoreFoundStep
<1>5. CASE \E m \in Models : M!Edit(m) \/ \E c \in Clickers : M!Click(c, m)
  BY <1>5, EditStep, ClickStep
<1>6. CASE \E c \in Clickers : M!Store(c)
  BY <1>6, StoreStep
<1> QED
  BY <1>1, <1>2, <1>3, <1>4, <1>5, <1>6 DEF M!Next

(* CellIsTheFiles: once the clicks are stored and the watcher has caught   *)
(* up, the cell of the bot has the model of agent.yaml, but for the races. *)
THEOREM ModelFollowsFile == M!ModelAssumption /\ M!Spec => []M!CellIsTheFiles
<1>1. SettingInv => M!CellIsTheFiles
  BY DEF SettingInv, M!CellIsTheFiles, M!Quiet, WatcherInv, CellInv, NextLast, NextCell
<1> QED
  BY <1>1, SettingInitially, SettingStep, PTL DEF M!Spec, M!modelVars, setting

-----------------------------------------------------------------------------

(* The life of the process: a start parses the configuration, the watcher  *)
(* begins, and whatever ends the life takes the cell with it.              *)
LEMMA LifeStep ==
  ASSUME Start \/ LoadAllowlist \/ Bind \/ Register \/ FirstCycle \/ SyncStep \/ Serve
         \/ EndServing \/ Drained \/ Exit \/ TelegramFails \/ TaskEnds \/ Die \/ RightUp
         \/ SyncFails
  PROVE  [M!Next]_setting
<1>1. CASE Start
  BY <1>1 DEF Start, M!Next
<1>2. CASE Bind
  BY <1>2 DEF Bind, M!Next
<1>3. CASE Exit \/ Die \/ SyncFails
  BY <1>3 DEF Exit, Die, SyncFails, Ends, M!Next
<1>4. CASE LoadAllowlist \/ Register \/ FirstCycle \/ SyncStep \/ Serve
  BY <1>4 DEF LoadAllowlist, Register, FirstCycle, SyncStep, Serve
<1>5. CASE EndServing \/ Drained \/ TelegramFails \/ TaskEnds \/ RightUp
  BY <1>5 DEF EndServing, Drained, TelegramFails, TaskEnds, RightUp
<1>6. QED
  BY <1>1, <1>2, <1>3, <1>4, <1>5

(* What is asked of the bot, and what the rest of the world does.          *)
LEMMA OutsideStep ==
  ASSUME NextCycle \/ CycleFails \/ Deliver \/ Dispatch \/ CommandStep \/ PersistFails
         \/ Reload \/ ClickModel \/ StoreModel \/ WatchModel \/ EditModel \/ Signal
         \/ ConfigChanges \/ Truncate \/ Write \/ Spoil \/ CliStart \/ CliStep
  PROVE  [M!Next]_setting
<1>1. CASE ClickModel \/ StoreModel \/ WatchModel \/ EditModel
  BY <1>1 DEF ClickModel, StoreModel, WatchModel, EditModel, M!Next
<1>2. CASE NextCycle \/ CycleFails \/ Deliver \/ Dispatch \/ CommandStep \/ PersistFails
  BY <1>2 DEF NextCycle, CycleFails, Deliver, Dispatch, CommandStep, PersistFails
<1>3. CASE Reload \/ Signal \/ ConfigChanges
  BY <1>3 DEF Reload, Signal, ConfigChanges
<1>4. CASE Truncate \/ Write \/ Spoil \/ CliStart \/ CliStep
  BY <1>4 DEF Truncate, Write, Spoil, CliStart, CliStep
<1>5. QED
  BY <1>1, <1>2, <1>3, <1>4

-----------------------------------------------------------------------------
(* Whatever the process goes through, callbacks, watcher and editors use   *)
(* the cell as ModelSetting prescribes.                                    *)
THEOREM UsesModelSetting == SafetySpec => M!Spec
<1>1. Init => M!Init
  BY DEF Init
<1>2. [Next]_vars => [M!Next]_setting
  BY LifeStep, OutsideStep DEF Next, Progress, vars, setting
<1>3. QED
  BY <1>1, <1>2, PTL DEF SafetySpec, M!Spec, M!modelVars, setting

(* CellIsTheFiles, of the bot with all its parts: through restarts too,    *)
(* once nothing is under way it starts Claude with the model of agent.yaml *)
(* (model_command.rs, config_watcher.rs), but for the races.               *)
THEOREM BotFollowsFile == SafetySpec => []CellIsTheFiles
<1>1. M!ModelAssumption
  BY PartsAssumption DEF M!ModelAssumption, M!ModelAssumption
<1>2. M!CellIsTheFiles => CellIsTheFiles
  BY DEF M!CellIsTheFiles, CellIsTheFiles, M!CellIsTheFiles, M!Quiet, M!Quiet,
         M!Watching, M!Watching, M!Unclicked, M!Unclicked
<1>3. QED
  BY <1>1, <1>2, UsesModelSetting, ModelFollowsFile, PTL

-----------------------------------------------------------------------------
(* The allowlist.                                                          *)
Content == IF disk = NoFile THEN {} ELSE disk

(* What is on its way to memory, in the watcher or a command, was in the   *)
(* file; an event comes from a file that is there.                         *)
WrittenInv ==
  /\ memory \subseteq written
  /\ disk # NoFile => disk \subseteq written
  /\ changed => disk # NoFile
  /\ watcher.at = "swap" => watcher.list \subseteq written
  /\ \A c \in A!Chats : command[c].at = "swap" => command[c].list \subseteq written

(* All lists are of users and groups, and so no list is taken for no file. *)
ListsInv ==
  /\ written \subseteq A!Ids
  /\ \A c \in A!Chats :
       /\ command[c].at = "derive" => command[c].req.id \in A!Ids
       /\ command[c].at \in {"lock", "write", "swap"} => command[c].list \subseteq A!Ids
  /\ \A k \in Clis :
       /\ cli[k].at = "lock" => cli[k].id \in A!Ids
       /\ cli[k].at = "write" => cli[k].list \subseteq A!Ids

(* Who writes holds the lock, and what the command line writes is the file *)
(* as it is, but for one entry.                                            *)
LockedInv ==
  /\ \A c \in A!Chats : command[c].at = "write" => lock = c
  /\ \A k \in Clis : cli[k].at = "write" =>
       lock = k /\ cli[k].list \ {cli[k].id} = Content \ {cli[k].id}

AllowInv == /\ A!AllowlistAssumption
       /\ DOMAIN command = A!Chats /\ DOMAIN cli = Clis
       /\ WrittenInv /\ ListsInv /\ LockedInv

LEMMA NoListIsNoFile ==
  ASSUME A!AllowlistAssumption, NEW list, list \subseteq A!Ids PROVE list # NoFile
BY DEF A!AllowlistAssumption, A!Ids

LEMMA AllowInitially == A!AllowlistAssumption /\ A!Init => AllowInv
BY DEF A!Init, AllowInv, WrittenInv, ListsInv, LockedInv, A!Idle, A!Ids,
       A!AllowlistAssumption

(* The start and the end of the bot.                                      *)
LEMMA LoadStartStep ==
  ASSUME AllowInv, A!LoadStart PROVE AllowInv'
<1>a. A!AllowlistAssumption' /\ DOMAIN command' = A!Chats /\ DOMAIN cli' = Clis
  BY DEF A!LoadStart, AllowInv, A!AllowlistAssumption
<1>b. WrittenInv'
  BY DEF A!LoadStart, AllowInv, WrittenInv, A!AllowlistAssumption
<1>c. ListsInv'
  BY DEF A!LoadStart, AllowInv, WrittenInv, ListsInv, A!AllowlistAssumption
<1>d. LockedInv'
  BY DEF A!LoadStart, A!Free, A!Chats, A!Ids, Content, AllowInv, WrittenInv, LockedInv,
         A!AllowlistAssumption
<1> QED
  BY <1>a, <1>b, <1>c, <1>d DEF AllowInv

LEMMA MigrateStep ==
  ASSUME AllowInv, A!Migrate PROVE AllowInv'
<1>z. Legacy \subseteq A!Ids /\ Legacy # NoFile
  BY NoListIsNoFile DEF AllowInv, A!Ids, A!AllowlistAssumption
<1>a. A!AllowlistAssumption' /\ DOMAIN command' = A!Chats /\ DOMAIN cli' = Clis
  BY DEF A!Migrate, A!Replace, AllowInv, A!AllowlistAssumption
<1>b. WrittenInv'
  BY <1>z DEF A!Migrate, A!Replace, AllowInv, WrittenInv, A!AllowlistAssumption
<1>c. ListsInv'
  BY <1>z DEF A!Migrate, A!Replace, AllowInv, WrittenInv, ListsInv, A!AllowlistAssumption
<1>d. LockedInv'
  BY DEF A!Migrate, A!Replace, A!Free, A!Chats, A!Ids, Content, AllowInv, WrittenInv,
         LockedInv, A!AllowlistAssumption
<1> QED
  BY <1>a, <1>b, <1>c, <1>d DEF AllowInv

LEMMA LoadStep ==
  ASSUME AllowInv, A!Load PROVE AllowInv'
<1>a. A!AllowlistAssumption' /\ DOMAIN command' = A!Chats /\ DOMAIN cli' = Clis
  BY DEF A!Load, AllowInv, A!AllowlistAssumption
<1>b. WrittenInv'
  BY DEF A!Load, AllowInv, WrittenInv, A!AllowlistAssumption
<1>c. ListsInv'
  BY DEF A!Load, AllowInv, WrittenInv, ListsInv, A!AllowlistAssumption
<1>d. LockedInv'
  BY DEF A!Load, A!Free, A!Chats, A!Ids, Content, AllowInv, WrittenInv, LockedInv,
         A!AllowlistAssumption
<1> QED
  BY <1>a, <1>b, <1>c, <1>d DEF AllowInv

LEMMA WatchStep ==
  ASSUME AllowInv, A!Watch PROVE AllowInv'
<1>a. A!AllowlistAssumption' /\ DOMAIN command' = A!Chats /\ DOMAIN cli' = Clis
  BY DEF A!Watch, A!Idle, AllowInv, A!AllowlistAssumption
<1>b. WrittenInv'
  BY DEF A!Watch, A!Idle, AllowInv, WrittenInv, A!AllowlistAssumption
<1>c. ListsInv'
  BY DEF A!Watch, A!Idle, AllowInv, WrittenInv, ListsInv, A!AllowlistAssumption
<1>d. LockedInv'
  BY DEF A!Watch, A!Idle, A!Free, A!Chats, A!Ids, Content, AllowInv, WrittenInv, LockedInv,
         A!AllowlistAssumption
<1> QED
  BY <1>a, <1>b, <1>c, <1>d DEF AllowInv

LEMMA GoneStep ==
  ASSUME AllowInv, A!Gone PROVE AllowInv'
<1>a. A!AllowlistAssumption' /\ DOMAIN command' = A!Chats /\ DOMAIN cli' = Clis
  BY DEF A!Gone, A!Idle, AllowInv, A!AllowlistAssumption
<1>b. WrittenInv'
  BY DEF A!Gone, A!Idle, AllowInv, WrittenInv, A!AllowlistAssumption
<1>c. ListsInv'
  BY DEF A!Gone, A!Idle, AllowInv, WrittenInv, ListsInv, A!AllowlistAssumption
<1>d. LockedInv'
  BY DEF A!Gone, A!Idle, A!Free, A!Chats, A!Ids, Content, AllowInv, WrittenInv, LockedInv,
         A!AllowlistAssumption
<1> QED
  BY <1>a, <1>b, <1>c, <1>d DEF AllowInv

(* The commands in a chat.                                                *)
LEMMA RequestStep ==
  ASSUME AllowInv, NEW r \in A!Requests, A!Request(r) PROVE AllowInv'
<1>a. A!AllowlistAssumption' /\ DOMAIN command' = A!Chats /\ DOMAIN cli' = Clis
  BY DEF A!Request, A!Idle, AllowInv, A!AllowlistAssumption
<1>b. WrittenInv'
  BY DEF A!Request, A!Idle, AllowInv, WrittenInv, A!AllowlistAssumption
<1>c. ListsInv'
  BY DEF A!Request, A!Requests, A!Idle, AllowInv, WrittenInv, ListsInv,
         A!AllowlistAssumption
<1>d. LockedInv'
  BY DEF A!Request, A!Idle, A!Free, A!Chats, A!Ids, Content, AllowInv, WrittenInv, LockedInv,
         A!AllowlistAssumption
<1> QED
  BY <1>a, <1>b, <1>c, <1>d DEF AllowInv

LEMMA DeriveStep ==
  ASSUME AllowInv, NEW c \in A!Chats, A!Derive(c) PROVE AllowInv'
<1>a. A!AllowlistAssumption' /\ DOMAIN command' = A!Chats /\ DOMAIN cli' = Clis
  BY DEF A!Derive, A!Idle, AllowInv, A!AllowlistAssumption
<1>b. WrittenInv'
  BY DEF A!Derive, A!Idle, AllowInv, WrittenInv, A!AllowlistAssumption
<1>c. ListsInv'
  BY DEF A!Derive, A!Edited, A!Idle, AllowInv, WrittenInv, ListsInv, A!AllowlistAssumption
<1>d. LockedInv'
  BY DEF A!Derive, A!Idle, A!Free, A!Chats, A!Ids, Content, AllowInv, WrittenInv, LockedInv,
         A!AllowlistAssumption
<1> QED
  BY <1>a, <1>b, <1>c, <1>d DEF AllowInv

LEMMA LockStep ==
  ASSUME AllowInv, NEW c \in A!Chats, A!LockFile(c) PROVE AllowInv'
<1>a. A!AllowlistAssumption' /\ DOMAIN command' = A!Chats /\ DOMAIN cli' = Clis
  BY DEF A!LockFile, AllowInv, A!AllowlistAssumption
<1>b. WrittenInv'
  BY DEF A!LockFile, AllowInv, WrittenInv, A!AllowlistAssumption
<1>c. ListsInv'
  BY DEF A!LockFile, AllowInv, WrittenInv, ListsInv, A!AllowlistAssumption
<1>d. LockedInv'
  BY DEF A!LockFile, A!Free, A!Chats, A!Ids, Content, AllowInv, WrittenInv, LockedInv,
         A!AllowlistAssumption
<1> QED
  BY <1>a, <1>b, <1>c, <1>d DEF AllowInv

LEMMA WrittenStep ==
  ASSUME AllowInv, NEW c \in A!Chats, A!Persist(c, TRUE) PROVE AllowInv'
<1>z. lock = c /\ command[c].list \subseteq A!Ids /\ command[c].list # NoFile
  BY NoListIsNoFile DEF A!Persist, AllowInv, ListsInv, LockedInv
<1>p. /\ disk' = command[c].list /\ written' = written \cup command[c].list
      /\ changed' = A!Watched /\ lock' = A!Free
      /\ command' = [command EXCEPT ![c].at = "swap"]
      /\ UNCHANGED <<memory, loading, watcher, cli>>
  BY <1>z DEF A!Persist, A!Replace
<1>a. A!AllowlistAssumption' /\ DOMAIN command' = A!Chats /\ DOMAIN cli' = Clis
  BY <1>p DEF AllowInv, A!AllowlistAssumption
<1>b. WrittenInv'
  BY <1>z, <1>p DEF AllowInv, WrittenInv
<1>c. ListsInv'
  BY <1>z, <1>p DEF AllowInv, ListsInv
<1>d. LockedInv'
  BY <1>z, <1>p DEF A!Chats, A!Ids, AllowInv, LockedInv, A!AllowlistAssumption
<1> QED
  BY <1>a, <1>b, <1>c, <1>d DEF AllowInv

LEMMA NotWrittenStep ==
  ASSUME AllowInv, NEW c \in A!Chats, A!Persist(c, FALSE) PROVE AllowInv'
<1>p. /\ lock' = A!Free /\ command' = [command EXCEPT ![c] = A!Idle]
      /\ UNCHANGED <<disk, changed, written, memory, loading, watcher, cli>>
      /\ lock = c
  BY DEF A!Persist, AllowInv, LockedInv
<1>a. A!AllowlistAssumption' /\ DOMAIN command' = A!Chats /\ DOMAIN cli' = Clis
  BY <1>p DEF AllowInv, A!AllowlistAssumption
<1>b. WrittenInv'
  BY <1>p DEF A!Idle, AllowInv, WrittenInv
<1>c. ListsInv'
  BY <1>p DEF A!Idle, AllowInv, ListsInv
<1>d. LockedInv'
  BY <1>p DEF A!Idle, A!Chats, A!Ids, Content, AllowInv, LockedInv, A!AllowlistAssumption
<1> QED
  BY <1>a, <1>b, <1>c, <1>d DEF AllowInv

LEMMA SwapStep ==
  ASSUME AllowInv, NEW c \in A!Chats, A!Swap(c) PROVE AllowInv'
<1>a. A!AllowlistAssumption' /\ DOMAIN command' = A!Chats /\ DOMAIN cli' = Clis
  BY DEF A!Swap, A!Idle, AllowInv, A!AllowlistAssumption
<1>b. WrittenInv'
  BY DEF A!Swap, A!Idle, AllowInv, WrittenInv, A!AllowlistAssumption
<1>c. ListsInv'
  BY DEF A!Swap, A!Idle, AllowInv, WrittenInv, ListsInv, A!AllowlistAssumption
<1>d. LockedInv'
  BY DEF A!Swap, A!Idle, A!Free, A!Chats, A!Ids, Content, AllowInv, WrittenInv, LockedInv,
         A!AllowlistAssumption
<1> QED
  BY <1>a, <1>b, <1>c, <1>d DEF AllowInv

(* The watcher.                                                           *)
LEMMA ReloadStep ==
  ASSUME AllowInv, A!Reload PROVE AllowInv'
<1>a. A!AllowlistAssumption' /\ DOMAIN command' = A!Chats /\ DOMAIN cli' = Clis
  BY DEF A!Reload, A!ReloadRead, A!ReloadSwap, A!Idle, AllowInv, A!AllowlistAssumption
<1>b. WrittenInv'
  BY DEF A!Reload, A!ReloadRead, A!ReloadSwap, A!Idle, AllowInv, WrittenInv,
         A!AllowlistAssumption
<1>c. ListsInv'
  BY DEF A!Reload, A!ReloadRead, A!ReloadSwap, A!Idle, AllowInv, WrittenInv, ListsInv,
         A!AllowlistAssumption
<1>d. LockedInv'
  BY DEF A!Reload, A!ReloadRead, A!ReloadSwap, A!Idle, A!Free, A!Chats, A!Ids, Content,
         AllowInv, WrittenInv, LockedInv, A!AllowlistAssumption
<1> QED
  BY <1>a, <1>b, <1>c, <1>d DEF AllowInv

(* The command line.                                                      *)
LEMMA CliStartStep ==
  ASSUME AllowInv, NEW k \in Clis, NEW r \in [op : {"add", "remove"}, id : A!Ids],
         A!CliStart(k, r) PROVE AllowInv'
<1>a. A!AllowlistAssumption' /\ DOMAIN command' = A!Chats /\ DOMAIN cli' = Clis
  BY DEF A!CliStart, AllowInv, A!AllowlistAssumption
<1>b. WrittenInv'
  BY DEF A!CliStart, AllowInv, WrittenInv, A!AllowlistAssumption
<1>c. ListsInv'
  BY DEF A!CliStart, AllowInv, WrittenInv, ListsInv, A!AllowlistAssumption
<1>d. LockedInv'
  BY DEF A!CliStart, A!Free, A!Chats, A!Ids, Content, AllowInv, WrittenInv, LockedInv,
         A!AllowlistAssumption
<1> QED
  BY <1>a, <1>b, <1>c, <1>d DEF AllowInv

LEMMA CliReadStep ==
  ASSUME AllowInv, NEW k \in Clis, A!CliRead(k) PROVE AllowInv'
<1>a. A!AllowlistAssumption' /\ DOMAIN command' = A!Chats /\ DOMAIN cli' = Clis
  BY DEF A!CliRead, A!Edited, AllowInv, A!AllowlistAssumption
<1>b. WrittenInv'
  BY DEF A!CliRead, A!Edited, AllowInv, WrittenInv, A!AllowlistAssumption
<1>c. ListsInv'
  BY DEF A!CliRead, A!Edited, AllowInv, WrittenInv, ListsInv, A!AllowlistAssumption
<1>d. LockedInv'
  BY DEF A!CliRead, A!Edited, A!Free, A!Chats, A!Ids, Content, AllowInv, WrittenInv,
         LockedInv, A!AllowlistAssumption
<1> QED
  BY <1>a, <1>b, <1>c, <1>d DEF AllowInv

(* The one step in which the file is the command line's to change.         *)
LEMMA CliWriteEffect ==
  ASSUME AllowInv, NEW k \in Clis, A!CliWrite(k)
  PROVE  /\ lock = k
         /\ Content \ {cli[k].id} = disk' \ {cli[k].id}
BY DEF A!CliWrite, A!Replace, AllowInv, LockedInv, Content

LEMMA CliWriteStep ==
  ASSUME AllowInv, NEW k \in Clis, A!CliWrite(k) PROVE AllowInv'
<1>z. lock = k /\ cli[k].list \subseteq A!Ids /\ cli[k].list # NoFile
  BY NoListIsNoFile DEF A!CliWrite, AllowInv, ListsInv, LockedInv
<1>a. A!AllowlistAssumption' /\ DOMAIN command' = A!Chats /\ DOMAIN cli' = Clis
  BY DEF A!CliWrite, A!Replace, A!Idle, AllowInv, A!AllowlistAssumption
<1>b. WrittenInv'
  BY <1>z DEF A!CliWrite, A!Replace, A!Idle, AllowInv, WrittenInv, A!AllowlistAssumption
<1>c. ListsInv'
  BY DEF A!CliWrite, A!Replace, A!Idle, AllowInv, WrittenInv, ListsInv,
         A!AllowlistAssumption
<1>d. LockedInv'
  BY <1>z DEF A!CliWrite, A!Replace, A!Idle, A!Free, A!Chats, A!Ids, Content, AllowInv,
              WrittenInv, LockedInv, A!AllowlistAssumption
<1> QED
  BY <1>a, <1>b, <1>c, <1>d DEF AllowInv

LEMMA AllowStuttering ==
  ASSUME AllowInv, UNCHANGED allowlist PROVE AllowInv'
BY DEF allowlist, AllowInv, WrittenInv, ListsInv, LockedInv, Content, A!AllowlistAssumption

LEMMA AllowStep ==
  ASSUME AllowInv, [A!Next]_allowlist PROVE AllowInv'
<1>1. CASE UNCHANGED allowlist
  BY <1>1, AllowStuttering
<1>2. CASE A!LoadStart \/ A!Migrate \/ A!Load \/ A!Watch \/ A!Reload \/ A!Gone
  BY <1>2, LoadStartStep, MigrateStep, LoadStep, WatchStep, ReloadStep, GoneStep
<1>3. CASE \E r \in A!Requests : A!Request(r)
  BY <1>3, RequestStep
<1>4. CASE \E c \in A!Chats : A!CommandStep(c) \/ A!Persist(c, FALSE)
  BY <1>4, DeriveStep, LockStep, WrittenStep, NotWrittenStep, SwapStep DEF A!CommandStep
<1>5. CASE \E k \in Clis : \/ A!CliStep(k)
                         \/ \E r \in [op : {"add", "remove"}, id : A!Ids] : A!CliStart(k, r)
  BY <1>5, CliReadStep, CliWriteStep, CliStartStep DEF A!CliStep
<1> QED
  BY <1>1, <1>2, <1>3, <1>4, <1>5 DEF A!Next

(* No step but CliWrite ends a command of the command line.                *)
LEMMA ChangesOneEntry ==
  ASSUME AllowInv, [A!Next]_allowlist, NEW k \in Clis, cli[k].at = "write", cli'[k] = A!Idle
  PROVE  Content \ {cli[k].id} = disk' \ {cli[k].id}
<1>1. CASE A!CliWrite(k)
  BY <1>1, CliWriteEffect
<1>2. CASE UNCHANGED cli
  BY <1>2 DEF A!Idle
<1>3. ASSUME NEW j \in Clis, j # k,
             A!CliStep(j) \/ \E r \in [op : {"add", "remove"}, id : A!Ids] : A!CliStart(j, r)
      PROVE  FALSE
  BY <1>3 DEF A!CliStep, A!CliRead, A!CliWrite, A!CliStart, A!Idle, AllowInv
<1>4. ~A!CliRead(k) /\ \A r : ~A!CliStart(k, r)
  BY DEF A!CliRead, A!CliStart, A!Idle
<1>5. CASE A!LoadStart \/ A!Migrate \/ A!Load \/ A!Watch \/ A!Reload \/ A!Gone
  BY <1>2, <1>5 DEF A!LoadStart, A!Migrate, A!Load, A!Watch, A!Reload, A!ReloadRead,
                    A!ReloadSwap, A!Gone
<1>6. CASE \E r \in A!Requests : A!Request(r)
  BY <1>2, <1>6 DEF A!Request
<1>7. CASE \E c \in A!Chats : A!CommandStep(c) \/ A!Persist(c, FALSE)
  BY <1>2, <1>7 DEF A!CommandStep, A!Derive, A!LockFile, A!Persist, A!Swap
<1> QED
  BY <1>1, <1>2, <1>3, <1>4, <1>5, <1>6, <1>7 DEF A!Next, A!CliStep, allowlist

LEMMA AllowInvariance == A!AllowlistAssumption /\ A!Spec => []AllowInv
<1>1. A!AllowlistAssumption /\ A!Init => AllowInv
  BY AllowInitially
<1>2. AllowInv /\ [A!Next]_allowlist => AllowInv'
  BY AllowStep
<1> QED
  BY <1>1, <1>2, PTL DEF A!Spec, A!vars, allowlist

(* Nobody is trusted who was not in the file before, however the writes of *)
(* commands and the watcher's reloads mix, and whatever writes fail.       *)
THEOREM FileFirst == A!AllowlistAssumption /\ A!Spec => []A!PersistedFirst
<1>1. AllowInv => A!PersistedFirst
  BY DEF AllowInv, WrittenInv, A!PersistedFirst
<1> QED
  BY <1>1, AllowInvariance, PTL

(* The watcher is behind the file only while an event is pending or a list *)
(* is in its hands, which is the file's if no event is pending.            *)
BehindInv ==
  /\ watcher.at \in {"off", "idle", "swap"}
  /\ watcher.at = "swap" /\ ~changed => watcher.list = disk
  /\ watcher.at = "idle" => watcher = A!Idle
  /\ loading # A!Idle => ~A!Watched
  /\ A!Watched => changed \/ watcher.at = "swap" \/ memory = disk \/ stale

LEMMA BehindInitially == A!Init => BehindInv
BY DEF A!Init, A!Idle, A!Watched, BehindInv

LEMMA BehindStep ==
  ASSUME BehindInv, [A!Next]_allowlist PROVE BehindInv'
<1> USE DEF BehindInv, A!Watched, A!Idle
<1>1. CASE UNCHANGED allowlist
  BY <1>1 DEF allowlist
<1>2. CASE A!LoadStart \/ A!Migrate \/ A!Load
  <2>1. ~A!Watched /\ watcher' = watcher
    BY <1>2 DEF A!LoadStart, A!Migrate, A!Replace, A!Load
  <2> QED
    BY <2>1
<1>11. CASE A!Watch
  BY <1>11 DEF A!Watch
<1>3. CASE A!ReloadRead
  BY <1>3 DEF A!ReloadRead
<1>4. CASE A!ReloadSwap
  BY <1>4 DEF A!ReloadSwap
<1>5. CASE A!Gone
  BY <1>5 DEF A!Gone
<1>6. CASE \E r \in A!Requests : A!Request(r)
  BY <1>6 DEF A!Request
<1>7. ASSUME NEW c \in A!Chats, A!Derive(c) \/ A!LockFile(c) \/ A!Persist(c, FALSE)
      PROVE  BehindInv'
  BY <1>7 DEF A!Derive, A!LockFile, A!Persist
<1>8. ASSUME NEW c \in A!Chats, A!Persist(c, TRUE) PROVE BehindInv'
  BY <1>8 DEF A!Persist, A!Replace
<1>9. ASSUME NEW c \in A!Chats, A!Swap(c) PROVE BehindInv'
  BY <1>9 DEF A!Swap
<1>10. ASSUME NEW k \in Clis,
              \/ A!CliStep(k)
              \/ \E r \in [op : {"add", "remove"}, id : A!Ids] : A!CliStart(k, r)
       PROVE  BehindInv'
  BY <1>10 DEF A!CliStep, A!CliRead, A!CliWrite, A!CliStart, A!Replace
<1> QED
  BY <1>1, <1>2, <1>3, <1>4, <1>5, <1>6, <1>7, <1>8, <1>9, <1>10, <1>11
     DEF A!Next, A!Reload, A!CommandStep

(* With the watcher idle and no event pending the list in memory is the    *)
(* file's, whoever wrote it and whoever swapped last (allowlist.rs:        *)
(* spawn_watcher), but for the two orders that leave memory stale.         *)
THEOREM MemoryFollowsList == A!Spec => []A!MemoryFollowsFile
<1>1. BehindInv => A!MemoryFollowsFile
  BY DEF BehindInv, A!MemoryFollowsFile, A!Watched, A!Idle
<1> QED
  BY <1>1, BehindInitially, BehindStep, PTL DEF A!Spec, A!vars, allowlist

(* A process of the command line changes its own entry and keeps what      *)
(* others wrote to the file before it got the lock.                        *)
THEOREM CliKeepsOthers == A!AllowlistAssumption /\ A!Spec => A!CliChangesOneEntry
<1>1. ASSUME AllowInv, [A!Next]_allowlist
      PROVE  [\A k \in Clis : cli[k].at = "write" /\ cli'[k] = A!Idle =>
                (IF disk = NoFile THEN {} ELSE disk) \ {cli[k].id} =
                disk' \ {cli[k].id}]_allowlist
  BY <1>1, ChangesOneEntry DEF Content
<1> QED
  BY <1>1, AllowInvariance, PTL DEF A!Spec, A!vars, allowlist, A!CliChangesOneEntry

(* The webhook takes requests only, and the dispatcher passes them on.     *)
QueueInv == queue \in Seq(ChatRequests)

LEMMA QueueKeeps ==
  ASSUME QueueInv, [Next]_vars PROVE QueueInv'
<1>1. CASE Deliver
  BY <1>1 DEF Deliver, QueueInv
<1>2. CASE Dispatch
  <2>1. PICK i \in 1 .. Len(queue) :
          queue' = SubSeq(queue, 1, i - 1) \o SubSeq(queue, i + 1, Len(queue))
    BY <1>2 DEF Dispatch
  <2> QED
    BY <2>1 DEF QueueInv
<1>3. CASE Drained \/ TelegramFails \/ Exit \/ Die \/ SyncFails
  <2>1. queue' = <<>>
    BY <1>3 DEF Drained, TelegramFails, Exit, Die, SyncFails, Ends
  <2> QED
    BY <2>1 DEF QueueInv
<1>4. CASE Start \/ LoadAllowlist \/ Bind \/ Register \/ FirstCycle \/ SyncStep \/ Serve
           \/ EndServing \/ TaskEnds \/ RightUp \/ Signal \/ ConfigChanges
  BY <1>4 DEF Start, LoadAllowlist, Bind, Register, FirstCycle, SyncStep, Serve, EndServing,
              TaskEnds, RightUp, Signal, ConfigChanges, QueueInv
<1>5. CASE NextCycle \/ CycleFails \/ CommandStep \/ PersistFails \/ Reload \/ ClickModel
           \/ StoreModel \/ WatchModel \/ EditModel \/ Truncate \/ Write \/ Spoil
           \/ CliStart \/ CliStep \/ UNCHANGED vars
  BY <1>5 DEF NextCycle, CycleFails, CommandStep, PersistFails, Reload, ClickModel,
              StoreModel, WatchModel, EditModel, Truncate, Write, Spoil, CliStart, CliStep,
              process, vars, QueueInv
<1> QED
  BY <1>1, <1>2, <1>3, <1>4, <1>5 DEF Next, Progress

(* A step of the bot is one of its allowlist, or leaves that alone.        *)
LEMMA AllowlistStep ==
  ASSUME QueueInv, [Next]_vars PROVE [A!Next]_allowlist
<1>1. CASE LoadAllowlist
  BY <1>1 DEF LoadAllowlist, A!Next
<1>2. CASE Exit \/ Die \/ SyncFails
  BY <1>2 DEF Exit, Die, SyncFails, Ends, A!Next
<1>3. CASE Dispatch
  <2>1. PICK i \in 1 .. Len(queue) : A!Request(queue[i])
    BY <1>3 DEF Dispatch
  <2>2. queue[i] \in A!Requests
    BY <2>1, PartsAssumption DEF QueueInv
  <2> QED
    BY <2>1, <2>2 DEF A!Next
<1>4. CASE CommandStep \/ PersistFails \/ Reload \/ CliStep
  BY <1>4 DEF CommandStep, PersistFails, Reload, CliStep, A!Next
<1>5. CASE CliStart
  <2>1. PICK k \in Clis, r \in CliRequests : A!CliStart(k, r)
    BY <1>5 DEF CliStart
  <2>2. r \in [op : {"add", "remove"}, id : A!Ids]
    BY PartsAssumption
  <2> QED
    BY <2>1, <2>2 DEF A!Next
<1>6. CASE Start \/ Bind \/ Register \/ FirstCycle \/ SyncStep \/ Serve \/ EndServing
           \/ Drained \/ TelegramFails \/ TaskEnds \/ RightUp \/ Signal \/ ConfigChanges
           \/ Deliver
  BY <1>6 DEF Start, Bind, Register, FirstCycle, SyncStep, Serve, EndServing, Drained,
              TelegramFails, TaskEnds, RightUp, Signal, ConfigChanges, Deliver
<1>7. CASE NextCycle \/ CycleFails \/ ClickModel \/ StoreModel \/ WatchModel \/ EditModel
           \/ Truncate \/ Write \/ Spoil \/ UNCHANGED vars
  BY <1>7 DEF NextCycle, CycleFails, ClickModel, StoreModel, WatchModel, EditModel,
              Truncate, Write, Spoil, vars
<1> QED
  BY <1>1, <1>2, <1>3, <1>4, <1>5, <1>6, <1>7 DEF Next, Progress

(* Whatever the process goes through, start, commands, watcher and command *)
(* line use the allowlist as Allowlist prescribes.                         *)
THEOREM UsesAllowlist == SafetySpec => A!Spec
<1>1. Init => A!Init /\ QueueInv
  BY DEF Init, QueueInv
<1>2. QueueInv /\ [Next]_vars => QueueInv' /\ [A!Next]_allowlist
  BY QueueKeeps, AllowlistStep
<1>3. QED
  BY <1>1, <1>2, PTL DEF SafetySpec, A!Spec, A!vars, allowlist

(* PersistedFirst, of the bot with all its parts: through deaths, failed   *)
(* writes and restarts it lets in nobody whom allowlist.yaml has never     *)
(* named (allowlist_commands.rs: persist_new).                            *)
THEOREM BotTrustsTheWritten == SafetySpec => []PersistedFirst
<1>1. A!AllowlistAssumption
  BY PartsAssumption
<1>2. A!PersistedFirst => PersistedFirst
  BY DEF A!PersistedFirst, PersistedFirst, A!PersistedFirst
<1>3. QED
  BY <1>1, <1>2, UsesAllowlist, FileFirst, PTL

(* MemoryFollowsFile, of the bot with all its parts: through starts and     *)
(* deaths, with commands of chats and of the command line at once          *)
(* (allowlist.rs: spawn_watcher).                                          *)
THEOREM BotFollowsList == SafetySpec => []MemoryFollowsFile
<1>1. A!MemoryFollowsFile => MemoryFollowsFile
  BY DEF A!MemoryFollowsFile, MemoryFollowsFile
<1>2. QED
  BY <1>1, UsesAllowlist, MemoryFollowsList, PTL

(* CliChangesOneEntry, of the bot with all its parts: while it starts,      *)
(* serves and dies, a process of the command line changes its own entry    *)
(* (allowlist.rs: with_lock).                                              *)
THEOREM BotKeepsOthers == SafetySpec => CliChangesOneEntry
<1>1. A!AllowlistAssumption
  BY PartsAssumption
<1>2. A!CliChangesOneEntry => CliChangesOneEntry
  BY DEF CliChangesOneEntry
<1>3. QED
  BY <1>1, <1>2, UsesAllowlist, CliKeepsOthers, PTL

-----------------------------------------------------------------------------
(* The platform store.                                                     *)

(* A step of the bot is one of its platform store, or leaves that alone.   *)
LEMMA PlatformStep ==
  ASSUME [Next]_vars PROVE [P!Next]_platform
<1>1. CASE FirstCycle \/ SyncStep \/ NextCycle \/ CycleFails \/ Truncate \/ Write \/ Spoil
  BY <1>1 DEF FirstCycle, SyncStep, NextCycle, CycleFails, Truncate, Write, Spoil, P!Next
<1>2. CASE Exit \/ Die \/ SyncFails
  BY <1>2 DEF Exit, Die, SyncFails, Ends, P!Next
<1>3. CASE Start \/ LoadAllowlist \/ Bind \/ Register \/ Serve \/ EndServing \/ Drained
           \/ TelegramFails \/ TaskEnds \/ RightUp \/ Signal \/ ConfigChanges \/ Deliver
           \/ Dispatch
  BY <1>3 DEF Start, LoadAllowlist, Bind, Register, Serve, EndServing, Drained,
              TelegramFails, TaskEnds, RightUp, Signal, ConfigChanges, Deliver, Dispatch
<1>4. CASE CommandStep \/ PersistFails \/ Reload \/ ClickModel \/ StoreModel \/ WatchModel
           \/ EditModel \/ CliStart \/ CliStep \/ UNCHANGED vars
  BY <1>4 DEF CommandStep, PersistFails, Reload, ClickModel, StoreModel, WatchModel,
              EditModel, CliStart, CliStep, vars
<1> QED
  BY <1>1, <1>2, <1>3, <1>4 DEF Next, Progress

(* Whatever the process goes through, its cycles are those of              *)
(* PlatformStore, each cut off at most at its end.                         *)
THEOREM UsesPlatformStore == SafetySpec => P!Spec
<1>1. Init => P!Init
  BY DEF Init
<1>2. QED
  BY <1>1, PlatformStep, PTL DEF SafetySpec, P!Spec, P!vars, platform

(* What a cycle has to know of the entry it is at, and of those it has     *)
(* linked.                                                                 *)
AtEntry == {"upload", "rename", "mkdir", "fill", "unlink", "link"}

StoreTyped ==
  /\ store = [e \in P!Entries |-> store[e]] /\ link = [e \in P!Entries |-> link[e]]
  /\ plain = [f \in Files |-> plain[f]]
  /\ \A e \in P!Entries : \A o \in store[e] : o = [hash |-> o.hash, holds |-> o.holds]

CycleInv ==
  /\ cycle = [at |-> cycle.at, manifest |-> cycle.manifest, todo |-> cycle.todo]
  /\ cycle.at \in AtEntry \cup {"look", "fetch", "repair"}
  /\ cycle.todo \subseteq P!Entries
  /\ \A e \in P!Entries \ cycle.todo : link[e] = cycle.manifest[e]
  /\ cycle.at \in AtEntry => cycle.todo # {}
  /\ cycle.at \in {"upload", "rename"} => P!Entry \in Files
  /\ cycle.at \in {"mkdir", "fill"} => P!Entry \notin Files
  /\ cycle.at = "rename" => plain[P!Entry] = P!Hash
  /\ cycle.at \in {"fill", "unlink", "link"} => P!Present(P!Entry, P!Hash)

PlatformInv ==
  /\ StoreTyped /\ P!LinksResolve /\ P!FilesWhole
  /\ P!Running => CycleInv

LEMMA EntryIsLeft ==
  ASSUME cycle.todo # {} PROVE P!Entry \in cycle.todo
<1>1. \E e \in cycle.todo : e \in Files \/ cycle.todo \cap Files = {}
  <2>1. CASE cycle.todo \cap Files = {}
    BY <2>1
  <2>2. CASE cycle.todo \cap Files # {}
    BY <2>2
  <2> QED
    BY <2>1, <2>2
<1> QED
  BY <1>1 DEF P!Entry

LEMMA InitPlatform == P!Init => PlatformInv
  BY DEF P!Init, PlatformInv, StoreTyped, P!LinksResolve, P!FilesWhole, P!Running, P!Entries

(* The next command of a cycle, on the same entry.                         *)
LEMMA SameEntry ==
  ASSUME CycleInv, NEW at, P!Goto(at)
  PROVE  /\ cycle' = [at |-> at, manifest |-> cycle.manifest, todo |-> cycle.todo]
         /\ P!Entry' = P!Entry /\ P!Hash' = P!Hash
  BY DEF CycleInv, P!Goto, P!Entry, P!Hash

LEMMA CycleIsOn ==
  ASSUME PlatformInv, cycle.at # "none"
  PROVE  P!Running /\ CycleInv
  BY DEF PlatformInv, P!Running, P!NoCycle

(* The commands of a cycle that do not touch the sandbox, or only a file   *)
(* that has no addressed name yet.                                         *)
LEMMA CommandKeeps ==
  ASSUME PlatformInv, P!Look \/ P!Upload \/ P!Filled
  PROVE  PlatformInv'
<1>1. P!Running /\ CycleInv /\ UNCHANGED <<store, link>>
  BY CycleIsOn DEF P!Look, P!Upload, P!Filled, P!At, P!sandbox
<1>2. CASE P!Look
  <2>1. PICK at \in {"unlink", "upload", "mkdir"} :
          /\ P!Goto(at) /\ plain' = plain
          /\ at = "unlink" => P!Present(P!Entry, P!Hash)
          /\ at = "upload" => P!Entry \in Files
          /\ at = "mkdir" => P!Entry \notin Files
    BY <1>2 DEF P!Look, P!sandbox
  <2>2. cycle.todo # {}
    BY <1>2 DEF P!Look
  <2>3. CycleInv'
    BY <1>1, <2>1, <2>2, SameEntry DEF CycleInv, AtEntry, P!Present
  <2> QED
    BY <1>1, <2>1, <2>3
       DEF PlatformInv, StoreTyped, P!LinksResolve, P!FilesWhole, P!Present
<1>3. CASE P!Upload
  <2>1. /\ cycle.at = "upload" /\ P!Entry \in Files
        /\ plain' = [plain EXCEPT ![P!Entry] = IF @ = Torn THEN P!Hash ELSE Torn]
        /\ \/ plain[P!Entry] = Torn /\ P!Goto("rename")
           \/ cycle' = cycle
    BY <1>1, <1>3 DEF P!Upload, P!At, CycleInv
  <2>2. StoreTyped'
    BY <1>1, <2>1 DEF PlatformInv, StoreTyped
  <2>3. CASE plain[P!Entry] = Torn /\ P!Goto("rename")
    <3>1. plain'[P!Entry] = P!Hash
      BY <2>1, <2>3 DEF PlatformInv, StoreTyped
    <3>2. CycleInv'
      BY <1>1, <2>1, <2>3, <3>1, SameEntry DEF CycleInv, AtEntry
    <3> QED
      BY <1>1, <2>2, <3>2 DEF PlatformInv, P!LinksResolve, P!FilesWhole, P!Present
  <2>4. CASE cycle' = cycle
    <3>1. P!Entry' = P!Entry /\ P!Hash' = P!Hash
      BY <2>4 DEF P!Entry, P!Hash
    <3>2. CycleInv'
      BY <1>1, <2>1, <2>4, <3>1 DEF CycleInv, AtEntry
    <3> QED
      BY <1>1, <2>2, <3>2 DEF PlatformInv, P!LinksResolve, P!FilesWhole, P!Present
  <2> QED
    BY <2>1, <2>3, <2>4
<1>4. CASE P!Filled
  <2>1. cycle.at = "fill" /\ P!Goto("unlink") /\ plain' = plain
    BY <1>4 DEF P!Filled, P!At, P!sandbox
  <2>2. CycleInv'
    BY <1>1, <2>1, SameEntry DEF CycleInv, AtEntry, P!Present
  <2> QED
    BY <1>1, <2>1, <2>2
       DEF PlatformInv, StoreTyped, P!LinksResolve, P!FilesWhole, P!Present
<1> QED
  BY <1>2, <1>3, <1>4

(* An object comes into the store: names that are there remain.            *)
LEMMA RenameKeeps ==
  ASSUME PlatformInv, P!Rename
  PROVE  PlatformInv'
<1>1. /\ CycleInv /\ cycle.at = "rename" /\ P!Goto("unlink") /\ link' = link
      /\ store' = [store EXCEPT ![P!Entry] = @ \cup {P!Object(P!Hash, plain[P!Entry])}]
      /\ plain' = [plain EXCEPT ![P!Entry] = Missing]
  BY CycleIsOn DEF P!Rename, P!At
<1>2. P!Entry \in Files /\ P!Entry \in P!Entries /\ plain[P!Entry] = P!Hash
  BY <1>1 DEF CycleInv, P!Entries
<1>3. /\ store'[P!Entry] = store[P!Entry] \cup {P!Object(P!Hash, P!Hash)}
      /\ \A e \in P!Entries \ {P!Entry} : store'[e] = store[e]
  BY <1>1, <1>2 DEF PlatformInv, StoreTyped
<1>4. StoreTyped'
  <2>1. P!Object(P!Hash, P!Hash) = [hash |-> P!Object(P!Hash, P!Hash).hash,
          holds |-> P!Object(P!Hash, P!Hash).holds]
    BY DEF P!Object
  <2>2. \A e \in P!Entries : \A o \in store'[e] : o = [hash |-> o.hash, holds |-> o.holds]
    BY <1>3, <2>1 DEF PlatformInv, StoreTyped
  <2>3. /\ store' = [e \in P!Entries |-> store'[e]] /\ link' = [e \in P!Entries |-> link'[e]]
        /\ plain' = [f \in Files |-> plain'[f]]
    BY <1>1 DEF PlatformInv, StoreTyped
  <2> QED
    BY <2>2, <2>3 DEF StoreTyped, P!Entries
<1>5. \A e \in P!Entries : \A h : P!Present(e, h) => P!Present(e, h)'
  BY <1>3 DEF P!Present
<1>6. P!LinksResolve' /\ P!FilesWhole'
  BY <1>1, <1>2, <1>3, <1>5
     DEF PlatformInv, P!LinksResolve, P!FilesWhole, P!Object, P!Entries
<1>7. P!Present(P!Entry, P!Hash)'
  <2>1. P!Entry' = P!Entry /\ P!Hash' = P!Hash
    BY <1>1, SameEntry
  <2>2. P!Object(P!Hash, P!Hash).hash = P!Hash
    BY DEF P!Object
  <2> QED
    BY <1>3, <2>1, <2>2 DEF P!Present
<1>8. CycleInv'
  BY <1>1, <1>7, SameEntry DEF CycleInv, AtEntry
<1> QED
  BY <1>4, <1>6, <1>8 DEF PlatformInv

LEMMA MakeDirKeeps ==
  ASSUME PlatformInv, P!MakeDir
  PROVE  PlatformInv'
<1>1. /\ CycleInv /\ cycle.at = "mkdir" /\ P!Goto("fill") /\ UNCHANGED <<link, plain>>
      /\ store' = [store EXCEPT ![P!Entry] = @ \cup {P!Object(P!Hash, P!Empty)}]
  BY CycleIsOn DEF P!MakeDir, P!At
<1>2. P!Entry \notin Files /\ P!Entry \in P!Entries
  BY <1>1, EntryIsLeft DEF CycleInv, AtEntry
<1>3. /\ store'[P!Entry] = store[P!Entry] \cup {P!Object(P!Hash, P!Empty)}
      /\ \A e \in P!Entries \ {P!Entry} : store'[e] = store[e]
  BY <1>1, <1>2 DEF PlatformInv, StoreTyped
<1>4. StoreTyped'
  <2>1. P!Object(P!Hash, P!Empty) = [hash |-> P!Object(P!Hash, P!Empty).hash,
          holds |-> P!Object(P!Hash, P!Empty).holds]
    BY DEF P!Object
  <2>2. \A e \in P!Entries : \A o \in store'[e] : o = [hash |-> o.hash, holds |-> o.holds]
    BY <1>3, <2>1 DEF PlatformInv, StoreTyped
  <2>3. /\ store' = [e \in P!Entries |-> store'[e]] /\ link' = [e \in P!Entries |-> link'[e]]
        /\ plain' = [f \in Files |-> plain'[f]]
    BY <1>1 DEF PlatformInv, StoreTyped
  <2> QED
    BY <2>2, <2>3 DEF StoreTyped, P!Entries
<1>5. \A e \in P!Entries : \A h : P!Present(e, h) => P!Present(e, h)'
  BY <1>3 DEF P!Present
<1>6. P!LinksResolve' /\ P!FilesWhole'
  BY <1>1, <1>2, <1>3, <1>5
     DEF PlatformInv, P!LinksResolve, P!FilesWhole, P!Entries
<1>7. P!Present(P!Entry, P!Hash)'
  <2>1. P!Entry' = P!Entry /\ P!Hash' = P!Hash
    BY <1>1, SameEntry
  <2>2. P!Object(P!Hash, P!Empty).hash = P!Hash
    BY DEF P!Object
  <2> QED
    BY <1>3, <2>1, <2>2 DEF P!Present
<1>8. CycleInv'
  BY <1>1, <1>2, <1>7, SameEntry DEF CycleInv, AtEntry
<1> QED
  BY <1>4, <1>6, <1>8 DEF PlatformInv

(* A part is uploaded into the directory, which keeps its name.            *)
LEMMA FillKeeps ==
  ASSUME PlatformInv, P!FillPart
  PROVE  PlatformInv'
<1>1. CycleInv /\ cycle.at = "fill" /\ UNCHANGED <<cycle, link, plain>>
  BY CycleIsOn DEF P!FillPart, P!At
<1>2. P!Entry \notin Files /\ P!Entry \in P!Entries
  BY <1>1, EntryIsLeft DEF CycleInv, AtEntry
<1>3. P!InStore \in store[P!Entry] /\ P!InStore.hash = P!Hash
  BY <1>1 DEF CycleInv, P!Present, P!InStore
<1>4. PICK filled : /\ filled = [hash |-> P!Hash, holds |-> filled.holds]
                    /\ store' = [store EXCEPT ![P!Entry] =
                                   (@ \ {P!InStore}) \cup {filled}]
  <2>1. PICK p \in Parts : store' = [store EXCEPT ![P!Entry] = (@ \ {P!InStore}) \cup
                             {[P!InStore EXCEPT !.holds[p] = host[P!Entry][p]]}]
    BY DEF P!FillPart
  <2>2. P!InStore = [hash |-> P!Hash, holds |-> P!InStore.holds]
    BY <1>2, <1>3 DEF PlatformInv, StoreTyped
  <2>3. [P!InStore EXCEPT !.holds[p] = host[P!Entry][p]] =
          [hash |-> P!Hash, holds |-> [P!InStore.holds EXCEPT ![p] = host[P!Entry][p]]]
    BY <2>2
  <2> QED
    BY <2>1, <2>3
<1>5. /\ store'[P!Entry] = (store[P!Entry] \ {P!InStore}) \cup {filled}
      /\ \A e \in P!Entries \ {P!Entry} : store'[e] = store[e]
  BY <1>2, <1>4 DEF PlatformInv, StoreTyped
<1>6. StoreTyped'
  BY <1>1, <1>2, <1>4, <1>5 DEF PlatformInv, StoreTyped
<1>7. \A e \in P!Entries : \A h : P!Present(e, h) => P!Present(e, h)'
  BY <1>3, <1>4, <1>5 DEF P!Present
<1>8. P!LinksResolve' /\ P!FilesWhole'
  BY <1>1, <1>2, <1>5, <1>7 DEF PlatformInv, P!LinksResolve, P!FilesWhole, P!Entries
<1>9. CycleInv'
  <2>1. P!Entry' = P!Entry /\ P!Hash' = P!Hash
    BY <1>1 DEF P!Entry, P!Hash
  <2> QED
    BY <1>1, <1>2, <1>7, <2>1 DEF CycleInv, AtEntry
<1> QED
  BY <1>6, <1>8, <1>9 DEF PlatformInv

(* A link is taken away, and made anew to what is there.                   *)
LEMMA LinkKeeps ==
  ASSUME PlatformInv, P!Unlink \/ P!Link
  PROVE  PlatformInv'
<1>1. CycleInv /\ UNCHANGED <<store, plain>> /\ cycle.at \in {"unlink", "link"}
  BY CycleIsOn DEF P!Unlink, P!Link, P!At
<1>2. P!Entry \in cycle.todo /\ P!Entry \in P!Entries /\ P!Present(P!Entry, P!Hash)
  BY <1>1, EntryIsLeft DEF CycleInv, AtEntry
<1>3. CASE P!Unlink
  <2>1. P!Goto("link") /\ link' = [link EXCEPT ![P!Entry] = Missing]
    BY <1>3 DEF P!Unlink
  <2>2. StoreTyped' /\ P!LinksResolve' /\ P!FilesWhole'
    BY <1>1, <1>2, <2>1
       DEF PlatformInv, StoreTyped, P!LinksResolve, P!FilesWhole, P!Present
  <2>3. \A e \in P!Entries \ cycle.todo : link'[e] = link[e]
    BY <1>2, <2>1 DEF PlatformInv, StoreTyped
  <2>4. CycleInv'
    BY <1>1, <1>2, <2>1, <2>3, SameEntry DEF CycleInv, AtEntry, P!Present
  <2> QED
    BY <2>2, <2>4 DEF PlatformInv
<1>4. CASE P!Link
  <2>1. /\ link' = [link EXCEPT ![P!Entry] = P!Hash]
        /\ cycle' = [cycle EXCEPT !.at = "look", !.todo = @ \ {P!Entry}]
    BY <1>4 DEF P!Link
  <2>2. cycle' = [at |-> "look", manifest |-> cycle.manifest,
                  todo |-> cycle.todo \ {P!Entry}]
    BY <1>1, <2>1 DEF CycleInv
  <2>3. StoreTyped' /\ P!LinksResolve' /\ P!FilesWhole'
    BY <1>1, <1>2, <2>1
       DEF PlatformInv, StoreTyped, P!LinksResolve, P!FilesWhole, P!Present
  <2>4. \A e \in P!Entries \ cycle'.todo : link'[e] = cycle'.manifest[e]
    BY <1>1, <1>2, <2>1, <2>2 DEF PlatformInv, StoreTyped, CycleInv, P!Hash
  <2>5. CycleInv'
    BY <1>1, <2>2, <2>4 DEF CycleInv, AtEntry
  <2> QED
    BY <2>3, <2>5 DEF PlatformInv
<1> QED
  BY <1>3, <1>4

(* The garbage collection comes when every entry has been linked, and      *)
(* keeps what the links name.                                              *)
LEMMA CollectKeeps ==
  ASSUME PlatformInv, P!Collect
  PROVE  PlatformInv'
<1>1. CycleInv /\ cycle.todo = {} /\ P!Goto("fetch") /\ UNCHANGED <<plain, link>>
  BY CycleIsOn DEF P!Collect, P!At
<1>2. \A e \in P!Entries : link[e] = cycle.manifest[e]
  BY <1>1 DEF CycleInv
<1>3. PICK removed \in SUBSET P!Entries :
        store' = [e \in P!Entries |-> IF e \in removed THEN store[e] \ P!Stale(e) ELSE store[e]]
  BY DEF P!Collect
<1>4. \A e \in P!Entries : /\ store'[e] \subseteq store[e]
                           /\ \A o \in store[e] : o.hash = link[e] => o \in store'[e]
  BY <1>2, <1>3 DEF P!Stale
<1>5. StoreTyped'
  BY <1>1, <1>3, <1>4 DEF PlatformInv, StoreTyped
<1>6. P!LinksResolve'
  BY <1>1, <1>4 DEF PlatformInv, P!LinksResolve, P!Present
<1>7. P!FilesWhole'
  BY <1>4 DEF PlatformInv, P!FilesWhole, P!Entries
<1>8. CycleInv'
  BY <1>1, <1>2, SameEntry DEF CycleInv, AtEntry
<1> QED
  BY <1>5, <1>6, <1>7, <1>8 DEF PlatformInv

LEMMA NextPlatform ==
  ASSUME PlatformInv, [P!Next]_platform
  PROVE  PlatformInv'
<1>1. CASE P!Scan
  <2>1. /\ cycle' = [at |-> "look", manifest |-> host, todo |-> P!Entries]
        /\ UNCHANGED <<plain, store, link>>
    BY <1>1 DEF P!Scan, P!sandbox
  <2> QED
    BY <2>1 DEF PlatformInv, StoreTyped, P!LinksResolve, P!FilesWhole, P!Present, CycleInv,
                AtEntry
<1>2. CASE P!FetchClaudeJson \/ P!RepairClaudeJson
  <2>1. CycleInv /\ UNCHANGED <<plain, store, link>>
        /\ (cycle' = P!NoCycle \/ P!Goto("repair") \/ UNCHANGED cycle)
    BY <1>2, CycleIsOn DEF P!FetchClaudeJson, P!RepairClaudeJson, P!At, P!sandbox
  <2>2. cycle' = cycle => P!Entry' = P!Entry /\ P!Hash' = P!Hash
    BY DEF P!Entry, P!Hash
  <2>3. cycle' = cycle => CycleInv'
    BY <2>1, <2>2 DEF CycleInv, P!Present
  <2>4. P!Goto("repair") => CycleInv'
    BY <2>1, SameEntry DEF CycleInv, AtEntry
  <2> QED
    BY <2>1, <2>3, <2>4
       DEF PlatformInv, StoreTyped, P!LinksResolve, P!FilesWhole, P!Present, P!Running
<1>3. CASE P!CutOff
  <2>1. cycle' = P!NoCycle /\ UNCHANGED <<plain, store, link>>
    BY <1>3 DEF P!CutOff, P!sandbox
  <2> QED
    BY <2>1 DEF PlatformInv, StoreTyped, P!LinksResolve, P!FilesWhole, P!Present, P!Running
<1>4. CASE P!Truncate \/ P!Write \/ P!Spoil \/ UNCHANGED platform
  <2>1. UNCHANGED <<plain, store, link, cycle>>
    BY <1>4 DEF P!Truncate, P!Write, P!Spoil, P!sandbox, platform
  <2>2. P!Entry' = P!Entry /\ P!Hash' = P!Hash
    BY <2>1 DEF P!Entry, P!Hash
  <2>3. CycleInv => CycleInv'
    BY <2>1, <2>2 DEF CycleInv, P!Present
  <2> QED
    BY <2>1, <2>3 DEF PlatformInv, StoreTyped, P!LinksResolve, P!FilesWhole, P!Present,
                      P!Running
<1> QED
  BY <1>1, <1>2, <1>3, <1>4, CommandKeeps, RenameKeeps, MakeDirKeeps, FillKeeps, LinkKeeps,
     CollectKeeps DEF P!Next, P!CycleStep

LEMMA PlatformInvariant == SafetySpec => []PlatformInv
<1>1. P!Init => PlatformInv
  BY InitPlatform
<1>2. PlatformInv /\ [P!Next]_platform => PlatformInv'
  BY NextPlatform
<1>3. QED
  BY <1>1, <1>2, UsesPlatformStore, PTL DEF P!Spec, P!vars, platform

(* However often cycles are cut off and begun again, a link names an       *)
(* object that is in the store (platform_store.rs: deploy_manifest,        *)
(* gc_platform).                                                           *)
THEOREM LinksAlwaysResolve == SafetySpec => []LinksResolve
<1>1. PlatformInv => LinksResolve
  BY DEF PlatformInv, LinksResolve
<1>2. QED
  BY <1>1, PlatformInvariant, PTL

(* A file under its addressed name is whole, whatever uploads broke off    *)
(* (platform_store.rs: deploy_file).                                       *)
THEOREM FilesAreWhole == SafetySpec => []FilesWhole
<1>1. PlatformInv => FilesWhole
  BY DEF PlatformInv, FilesWhole
<1>2. QED
  BY <1>1, PlatformInvariant, PTL
=============================================================================
