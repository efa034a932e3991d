--------------------------- MODULE PlatformStore ----------------------------
(***************************************************************************)
(* The platform store of a sandbox (right-core/platform_store.rs, driven   *)
(* by bot/sync.rs): the files that code generation leaves on the host are  *)
(* uploaded to /sandbox/.platform under a name that holds a hash of the    *)
(* content, and linked from where Claude looks for them.                   *)
(*                                                                         *)
(* A cycle is a sequence of commands in the sandbox and uploads to it, any *)
(* of which may fail, or be the last before the bot dies.  The host's      *)
(* files change under it: the bot at its start, `right up` and `right      *)
(* reload` write them again, and writing one truncates it first.  A hash   *)
(* is modelled by the content it is taken of; permission bits are left     *)
(* out.  BotProcess says when a cycle runs and when it is cut off.         *)
(***************************************************************************)

CONSTANTS
  Files, Dirs,    \* manifest entries: files, and skills, which are directories
  Parts,          \* the files of a skill
  Versions,       \* contents of a file
  Torn,           \* content of a file that is being written
  Missing         \* no such file

PlatformAssumption ==
  /\ Files \cap Dirs = {} /\ Parts # {} /\ Torn # Missing
  /\ Versions \cap {Torn, Missing} = {}

VARIABLES
  host,       \* the files on the host
  plain,      \* files in the store that do not have their addressed name yet
  store,      \* the addressed objects in the store, of each entry
  link,       \* the hash in the target of each link
  claude,     \* /sandbox/.claude.json: with the keys of the platform (intact), or
              \* without them (spoilt), no file (gone), no JSON (torn), no object (odd)
  cycle       \* the sync cycle in progress

vars == <<host, plain, store, link, claude, cycle>>
sandbox == <<plain, store, link, claude>>

-----------------------------------------------------------------------------
Entries == Files \cup Dirs
Text    == Versions \cup {Torn}
Skill   == [Parts -> Text \cup {Missing}]
Empty   == [p \in Parts |-> Missing]

Object(hash, holds) == [hash |-> hash, holds |-> holds]

\* `test -e`, `test -d`: by name.
Present(e, hash) == \E o \in store[e] : o.hash = hash

NoCycle == [at |-> "none"]
Running == cycle # NoCycle

\* The sandbox has been made from the staging directory: nothing is a link yet.
Init ==
  /\ \E v \in Versions :
       host = [e \in Entries |-> IF e \in Files THEN v ELSE [p \in Parts |-> v]]
  /\ plain = [f \in Files |-> Missing] /\ store = [e \in Entries |-> {}]
  /\ link = [e \in Entries |-> Missing]
  /\ claude = "intact" /\ cycle = NoCycle

\* Code generation opens a file that will change, and then writes it.
Truncate ==
  /\ \/ \E f \in Files : host' = [host EXCEPT ![f] = Torn]
     \/ \E d \in Dirs, p \in Parts : host' = [host EXCEPT ![d][p] = Torn]
  /\ UNCHANGED <<sandbox, cycle>>

Write ==
  /\ \/ \E f \in Files, v \in Versions :
          host[f] = Torn /\ host' = [host EXCEPT ![f] = v]
     \/ \E d \in Dirs, p \in Parts, v \in Versions :
          host[d][p] = Torn /\ host' = [host EXCEPT ![d][p] = v]
  /\ UNCHANGED <<sandbox, cycle>>

\* Claude rewrites its .claude.json, or takes it away.
Spoil ==
  /\ claude = "intact" /\ claude' \in {"spoilt", "gone", "odd"}
  /\ UNCHANGED <<host, plain, store, link, cycle>>

-----------------------------------------------------------------------------
(* sync_cycle: build_manifest, deploy_manifest, verify_claude_json.        *)

At(at)   == cycle.at = at
Goto(at) == cycle' = [cycle EXCEPT !.at = at]

\* Files, whose content the manifest keeps, come before skills.
Entry    == CHOOSE e \in cycle.todo : e \in Files \/ cycle.todo \cap Files = {}
Hash     == cycle.manifest[Entry]

Scan ==
  /\ At("none")
  /\ cycle' = [at |-> "look", manifest |-> host, todo |-> Entries]
  /\ UNCHANGED <<host, sandbox>>

\* Is an object of this name there already?
Look ==
  /\ At("look") /\ cycle.todo # {}
  /\ Goto(CASE Present(Entry, Hash) -> "unlink"
            [] ~Present(Entry, Hash) /\ Entry \in Files -> "upload"
            [] OTHER -> "mkdir")
  /\ UNCHANGED <<host, sandbox>>

\* A fault: uploaded under the addressed name.
UploadInPlace ==
  /\ At("upload")
  /\ store' = [store EXCEPT ![Entry] =
       IF Present(Entry, Hash) THEN {o \in @ : o.hash # Hash} \cup {Object(Hash, Hash)}
                               ELSE @ \cup {Object(Hash, Torn)}]
  /\ IF Present(Entry, Hash) THEN Goto("unlink") ELSE UNCHANGED cycle
  /\ UNCHANGED <<host, plain, link, claude>>
\* deploy_file: uploaded under its plain name, and then renamed.
Upload ==
  /\ At("upload")
  /\ plain' = [plain EXCEPT ![Entry] = IF @ = Torn THEN Hash ELSE Torn]
  /\ IF plain[Entry] = Torn THEN Goto("rename") ELSE UNCHANGED cycle
  /\ UNCHANGED <<host, store, link, claude>>

Rename ==
  /\ At("rename")
  /\ store' = [store EXCEPT ![Entry] = @ \cup {Object(Hash, plain[Entry])}]
  /\ plain' = [plain EXCEPT ![Entry] = Missing]
  /\ Goto("unlink")
  /\ UNCHANGED <<host, link, claude>>

\* deploy_directory: made under its addressed name, and then filled with what
\* the host has by then.
MakeDir ==
  /\ At("mkdir")
  /\ store' = [store EXCEPT ![Entry] = @ \cup {Object(Hash, Empty)}]
  /\ Goto("fill")
  /\ UNCHANGED <<host, plain, link, claude>>

InStore == CHOOSE o \in store[Entry] : o.hash = Hash

FillPart ==
  /\ At("fill")
  /\ \E p \in Parts :
       /\ InStore.holds[p] = Missing
       /\ store' = [store EXCEPT ![Entry] =
            (@ \ {InStore}) \cup {[InStore EXCEPT !.holds[p] = host[Entry][p]]}]
  /\ UNCHANGED <<host, plain, link, claude, cycle>>

Filled ==
  /\ At("fill")
  /\ \A p \in Parts : InStore.holds[p] # Missing
  /\ Goto("unlink")
  /\ UNCHANGED <<host, sandbox>>

\* atomic_symlink: the old link is removed, and the new one moved into place.
Unlink ==
  /\ At("unlink")
  /\ link' = [link EXCEPT ![Entry] = Missing]
  /\ Goto("link")
  /\ UNCHANGED <<host, plain, store, claude>>

Link ==
  /\ At("link")
  /\ link' = [link EXCEPT ![Entry] = Hash]
  /\ cycle' = [cycle EXCEPT !.at = "look", !.todo = @ \ {Entry}]
  /\ UNCHANGED <<host, plain, store, claude>>

\* gc_platform keeps the active targets, and all that is a prefix of one, as
\* the plain names are.  A fault: the target of a skill without skills/.
StaleFlat(e) == {o \in store[e] : e \notin Files \/ o.hash # cycle.manifest[e]}
Stale(e) == {o \in store[e] : o.hash # cycle.manifest[e]}

\* find or rm may fail; that is only logged.
Collect ==
  /\ At("look") /\ cycle.todo = {}
  /\ \E removed \in SUBSET Entries :
       store' = [e \in Entries |-> IF e \in removed THEN store[e] \ Stale(e) ELSE store[e]]
  /\ Goto("fetch")
  /\ UNCHANGED <<host, plain, link, claude>>

\* A fault: if it cannot be fetched it is left alone.
FetchOrLeave ==
  /\ At("fetch")
  /\ IF claude # "spoilt" THEN cycle' = NoCycle ELSE Goto("repair")
  /\ UNCHANGED <<host, sandbox>>
\* verify_claude_json: if it cannot be fetched the host's is uploaded, and if a
\* key was changed it is uploaded again.  If it is no JSON the cycle ends with an
\* error, and if it is no object it is passed over.
FetchClaudeJson ==
  /\ At("fetch")
  /\ IF claude \in {"spoilt", "gone"} THEN Goto("repair") ELSE cycle' = NoCycle
  /\ UNCHANGED <<host, sandbox>>

\* The cycle is about to end with the error of FetchClaudeJson.
Unreadable == At("fetch") /\ claude = "torn"

\* The upload writes the file in place.
RepairClaudeJson ==
  /\ At("repair")
  /\ IF claude = "torn" THEN claude' = "intact" /\ cycle' = NoCycle
                        ELSE claude' = "torn" /\ UNCHANGED cycle
  /\ UNCHANGED <<host, plain, store, link>>

\* A command fails, an upload breaks off, or the bot dies.
CutOff ==
  /\ Running
  /\ cycle' = NoCycle
  /\ UNCHANGED <<host, sandbox>>

CycleStep ==
  \/ Look \/ Upload \/ Rename \/ MakeDir \/ FillPart \/ Filled \/ Unlink \/ Link
  \/ Collect \/ FetchClaudeJson \/ RepairClaudeJson

Next == Truncate \/ Write \/ Spoil \/ Scan \/ CycleStep \/ CutOff

Spec == Init /\ [][Next]_vars

-----------------------------------------------------------------------------
\* A link never points at nothing: whatever cycle broke off where, the garbage
\* collection of a later one does not take an object that a link still names
\* (deploy_manifest collects only after every entry has been linked anew).
LinksResolve == \A e \in Entries : link[e] # Missing => Present(e, link[e])

\* A file that has its addressed name holds what its hash says, also when an
\* earlier upload broke off: a later cycle trusts the name and looks no
\* further (deploy_file).  Of skills this does not hold.
FilesWhole == \A f \in Files : \A o \in store[f] : o.holds = o.hash

\* Every cycle takes each link away for a moment, also if nothing has changed.
\* A .claude.json that is no JSON or no object is out of a cycle's reach.
Current ==
  /\ \A e \in Entries : \/ (link[e] = host[e] /\ Present(e, host[e]))
                         \/ (At("link") /\ Entry = e)
  /\ claude \in {"intact", "torn", "odd"}
=============================================================================
