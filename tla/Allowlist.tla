----------------------------- MODULE Allowlist ------------------------------
(***************************************************************************)
(* The allowlist of an agent (right-agent/allowlist.rs): allowlist.yaml,   *)
(* the bot's copy of it in memory, the commands of trusted users that      *)
(* change both (bot/telegram/allowlist_commands.rs), `right agent allow`   *)
(* and its like, which change the file alone, and the watcher that brings  *)
(* the file's changes to memory.                                           *)
(*                                                                         *)
(* A command reads the list in memory to see whether its sender is         *)
(* trusted, reads it again to derive a new list from it, writes that to    *)
(* the file under the file lock, and only then swaps it into memory: four  *)
(* steps that those of other chats, the watcher and the command line come  *)
(* between, for as long as they like: the 200 ms of the debouncer bound    *)
(* none of them.  Commands of one chat run one after the other.  A list is *)
(* the set of its trusted users and opened groups; labels are left out.    *)
(* BotProcess says when the bot is up.                                     *)
(***************************************************************************)
EXTENDS Naturals, FiniteSets

CONSTANTS
  Users, Groups,  \* ids, which are also the chats: a private chat is its user's
  Clis,           \* processes of the command line
  Legacy,         \* agent.yaml::allowed_chat_ids
  NoFile          \* there is no allowlist.yaml

AllowlistAssumption ==
  /\ Users \cap Groups = {} /\ Legacy \subseteq Users \cup Groups
  /\ \A list \in SUBSET (Users \cup Groups) : list # NoFile
  /\ Clis \cap (Users \cup Groups) = {} /\ "free" \notin Clis \cup Users \cup Groups

VARIABLES
  disk,       \* allowlist.yaml
  lock,       \* who holds the lock on allowlist.yaml.lock
  memory,     \* AllowlistHandle
  loading,    \* load_or_migrate_allowlist at the start of the bot
  watcher,    \* the thread of spawn_watcher: off, idle, or with a list it read
  changed,    \* the debouncer has an event for the watcher
  command,    \* the command that each chat's worker is at
  cli,        \* the command each process of the command line is at
  written,    \* all ids that were ever in the file (a history variable)
  stale       \* ghost: memory was left behind the file with no event to come

vars == <<disk, lock, memory, loading, watcher, changed, command, cli, written, stale>>

-----------------------------------------------------------------------------
Ids   == Users \cup Groups
Chats == Ids
Idle  == [at |-> "idle"]
Free  == "free"
Watched == watcher.at # "off"

\* What a member of a chat may ask for: /allow and /deny name a user and are
\* not for oneself, /allow_all and /deny_all are for the group they come from.
Requests ==
  {r \in [chat : Chats, by : Users, op : {"add", "remove"}, id : Ids] :
     IF r.chat \in Users THEN r.chat = r.by /\ r.id \in Users
                         ELSE r.id \in Users \cup {r.chat}}

Edited(list, r) == IF r.op = "add" THEN list \cup {r.id} ELSE list \ {r.id}

Init ==
  /\ disk \in {NoFile, Legacy} /\ lock = Free /\ memory = {}
  /\ loading = Idle /\ watcher = [at |-> "off"] /\ changed = FALSE
  /\ command = [c \in Chats |-> Idle] /\ cli = [k \in Clis |-> Idle]
  /\ written = IF disk = NoFile THEN {} ELSE disk
  /\ stale = FALSE

\* write_file_inner: a temporary file renamed into place, which the watcher of
\* the directory sees.
Replace(list) ==
  /\ disk' = list
  /\ written' = written \cup list
  /\ changed' = Watched
  /\ stale' = (stale /\ ~Watched)

-----------------------------------------------------------------------------
(* The start of the bot: load_or_migrate_allowlist, spawn_watcher.         *)

\* exists() is asked before the lock is taken.
LoadStart ==
  /\ loading = Idle /\ ~Watched
  /\ loading' = [at |-> IF disk = NoFile THEN "migrate" ELSE "read"]
  /\ UNCHANGED <<disk, lock, memory, watcher, changed, command, cli, written, stale>>

Migrate ==
  /\ loading.at = "migrate" /\ lock = Free
  /\ Replace(Legacy)
  /\ loading' = [at |-> "read"]
  /\ UNCHANGED <<lock, memory, watcher, command, cli>>

Load ==
  /\ loading.at = "read"
  /\ memory' = IF disk = NoFile THEN {} ELSE disk
  /\ loading' = [at |-> "loaded"]
  /\ UNCHANGED <<disk, lock, watcher, changed, command, cli, written, stale>>

\* What has changed since Load is seen with the next change only.
Watch ==
  /\ loading.at = "loaded" /\ ~Watched
  /\ watcher' = Idle
  /\ loading' = Idle
  /\ stale' = (memory # disk)
  /\ UNCHANGED <<disk, lock, memory, changed, command, cli, written>>

-----------------------------------------------------------------------------
(* The commands in a chat.                                                 *)

\* The routing filter and sender_is_trusted; a request to deny oneself, and
\* one for a group from a private chat, is answered and that is all.
Request(r) ==
  /\ command[r.chat] = Idle
  /\ command' = [command EXCEPT ![r.chat] =
       IF /\ r.by \in memory
          /\ ~(r.op = "remove" /\ r.id = r.by)
       THEN [at |-> "derive", req |-> r] ELSE Idle]
  /\ UNCHANGED <<disk, lock, memory, loading, watcher, changed, cli, written, stale>>

\* add_user and the others on a clone; nothing is written if nothing changes.
Derive(c) ==
  LET r == command[c].req
      list == Edited(memory, r)
  IN /\ command[c].at = "derive"
     /\ command' = [command EXCEPT ![c] =
          IF list = memory THEN Idle ELSE [at |-> "lock", req |-> r, list |-> list]]
     /\ UNCHANGED <<disk, lock, memory, loading, watcher, changed, cli, written, stale>>

\* A fault: write_file_inner is called without the lock.
LockFileNot(c) ==
  /\ command[c].at = "lock"
  /\ command' = [command EXCEPT ![c].at = "write"]
  /\ UNCHANGED <<disk, lock, memory, loading, watcher, changed, cli, written, stale>>
LockFile(c) ==
  /\ command[c].at = "lock" /\ lock = Free
  /\ lock' = c
  /\ command' = [command EXCEPT ![c].at = "write"]
  /\ UNCHANGED <<disk, memory, loading, watcher, changed, cli, written, stale>>

\* A fault: the list is swapped in first, and stays when the write fails.
PersistSwapped(c, works) ==
  /\ command[c].at = "write"
  /\ lock' = IF lock = c THEN Free ELSE lock
  /\ memory' = command[c].list
  /\ IF works
     THEN /\ Replace(command[c].list)
          /\ command' = [command EXCEPT ![c].at = "swap"]
     ELSE /\ command' = [command EXCEPT ![c] = Idle]
          /\ UNCHANGED <<disk, changed, written, stale>>
  /\ UNCHANGED <<loading, watcher, cli>>

\* persist_new; if the file cannot be written the user is told.
Persist(c, works) ==
  /\ command[c].at = "write"
  /\ lock' = IF lock = c THEN Free ELSE lock
  /\ IF works
     THEN /\ Replace(command[c].list)
          /\ command' = [command EXCEPT ![c].at = "swap"]
     ELSE /\ command' = [command EXCEPT ![c] = Idle]
          /\ UNCHANGED <<disk, changed, written, stale>>
  /\ UNCHANGED <<memory, loading, watcher, cli>>

\* The write is awaited, and the handle taken after it: by then others may have
\* written, and the watcher may have brought what they wrote.
Swap(c) ==
  /\ command[c].at = "swap"
  /\ memory' = command[c].list
  /\ command' = [command EXCEPT ![c] = Idle]
  /\ stale' = (command[c].list # disk /\ ~changed /\ watcher = Idle)
  /\ UNCHANGED <<disk, lock, loading, watcher, changed, cli, written>>

CommandStep(c) == Derive(c) \/ LockFile(c) \/ Persist(c, TRUE) \/ Swap(c)

-----------------------------------------------------------------------------
(* The watcher.  The debouncer puts what comes within 200 ms together.     *)

\* A fault: an event that comes while the file is being read is taken for the
\* one that is being handled.
ReloadReadLate ==
  /\ watcher.at = "idle" /\ changed
  /\ watcher' = [at |-> "swap", list |-> disk]
  /\ UNCHANGED <<disk, lock, memory, loading, changed, command, cli, written, stale>>
ReloadSwapLate ==
  /\ watcher.at = "swap"
  /\ memory' = watcher.list
  /\ watcher' = Idle /\ changed' = FALSE
  /\ UNCHANGED <<disk, lock, loading, command, cli, written, stale>>
ReloadLate == ReloadReadLate \/ ReloadSwapLate

ReloadRead ==
  /\ watcher.at = "idle" /\ changed
  /\ watcher' = [at |-> "swap", list |-> disk] /\ changed' = FALSE
  /\ UNCHANGED <<disk, lock, memory, loading, command, cli, written, stale>>

ReloadSwap ==
  /\ watcher.at = "swap"
  /\ memory' = watcher.list
  /\ watcher' = Idle
  /\ UNCHANGED <<disk, lock, loading, changed, command, cli, written, stale>>

Reload == ReloadRead \/ ReloadSwap

-----------------------------------------------------------------------------
(* `right agent allow`, `deny`, `allow_all`, `deny_all`: the file is read, *)
(* changed and written under the lock.                                     *)

CliStart(k, r) ==
  /\ cli[k] = Idle
  /\ cli' = [cli EXCEPT ![k] = [at |-> "lock", op |-> r.op, id |-> r.id]]
  /\ UNCHANGED <<disk, lock, memory, loading, watcher, changed, command, written, stale>>

CliRead(k) ==
  /\ cli[k].at = "lock" /\ lock = Free
  /\ lock' = k
  /\ cli' = [cli EXCEPT ![k] =
       [at |-> "write", id |-> @.id,
        list |-> Edited(IF disk = NoFile THEN {} ELSE disk, @)]]
  /\ UNCHANGED <<disk, memory, loading, watcher, changed, command, written, stale>>

\* The file is written also if the list did not change.
CliWrite(k) ==
  /\ cli[k].at = "write"
  /\ Replace(cli[k].list)
  /\ lock' = Free
  /\ cli' = [cli EXCEPT ![k] = Idle]
  /\ UNCHANGED <<memory, loading, watcher, command>>

CliStep(k) == CliRead(k) \/ CliWrite(k)

\* The bot is gone, and its locks with it.
Gone ==
  /\ memory' = {} /\ loading' = Idle /\ watcher' = [at |-> "off"] /\ changed' = FALSE
  /\ command' = [c \in Chats |-> Idle]
  /\ lock' = IF lock \in Chats THEN Free ELSE lock
  /\ stale' = FALSE
  /\ UNCHANGED <<disk, cli, written>>

Next ==
  \/ LoadStart \/ Migrate \/ Load \/ Watch \/ Reload \/ Gone
  \/ \E r \in Requests : Request(r)
  \/ \E c \in Chats : CommandStep(c) \/ Persist(c, FALSE)
  \/ \E k \in Clis : CliStep(k) \/ \E r \in [op : {"add", "remove"}, id : Ids] : CliStart(k, r)

Spec == Init /\ [][Next]_vars

-----------------------------------------------------------------------------
\* Nobody is trusted whom the file has never named: if it cannot be written,
\* and whatever the watcher and other commands put into memory at the time, no
\* user is let in by a command that was never written down (persist_new says why
\* the file comes first).  Somebody whom the file has named and names no longer
\* may be trusted still, see MemoryFollowsFile.
PersistedFirst == memory \subseteq written

\* The command line changes the one entry it was asked to: what a command in a
\* chat wrote meanwhile is still there (with_lock around read and write).
CliChangesOneEntry ==
  [][\A k \in Clis : cli[k].at = "write" /\ cli'[k] = Idle =>
       (IF disk = NoFile THEN {} ELSE disk) \ {cli[k].id} = disk' \ {cli[k].id}]_vars

\* With no event pending and the watcher idle, memory has what the file has,
\* whichever of the reloads and commands that were in progress swapped last
\* (spawn_watcher: `whenever the file changes, reparse and swap').  Two orders are
\* conceded (stale): a command of a chat swaps its list in after the watcher has
\* brought what another wrote after it, which nothing puts right; and the file
\* changes between its first reading and the watch.
MemoryFollowsFile == watcher = Idle /\ ~changed => memory = disk \/ stale
=============================================================================
