--------------------------- MODULE AgentLifecycle ---------------------------
(***************************************************************************)
(* The life of agents on one host: `right init`, `right agent init`,         *)
(* `restore`, `backup`, `destroy`, `rebootstrap`, the sandbox migration of   *)
(* `right agent config`, `right up`, `down` and `reload` (right/src/main.rs, *)
(* right-agent), against the bots and the MCP aggregator that                *)
(* process-compose keeps running.                                            *)
(*                                                                           *)
(* A command is a sequence of steps over files, sandboxes and processes that *)
(* are shared with the bots; it may fail or be interrupted after any step    *)
(* (Interrupted).  One command runs at a time.  Agents are sandboxed, as by  *)
(* default.  A sandbox is named <<a, 0>> (right-{a}) or <<a, m>>             *)
(* (right-{a}-{minute m}), a backup directory likewise.                      *)
(***************************************************************************)
EXTENDS Naturals, FiniteSets

CONSTANTS Agents,       \* the names an agent can have
          Right,        \* the name of the agent that `right init` makes
          None,         \* absent: no directory, sandbox, backup, command
          MaxMinutes,   \* bound: minutes that pass
          MaxSecrets,   \* bound: secrets generated
          MaxWork,      \* bound: turns that write into a sandbox
          MaxCommands   \* bound: commands given

ASSUME BoundsAssumption ==
    /\ {MaxMinutes, MaxSecrets, MaxWork, MaxCommands} \subseteq Nat
    /\ MaxMinutes > 0
    /\ IsFiniteSet(Agents) /\ Right \in Agents
    /\ None \notin Agents

VARIABLES
    dir,       \* dir[a]: agents/{a} with its agent.yaml (box, secret or 0), or None
    boxes,     \* the OpenShell sandboxes and what they hold
    backups,   \* backups/{a}/{minute}: the sandbox's tar and agent.yaml
    tokens,    \* run/agent-tokens.json: the secret behind each agent's token
    conf,      \* run/process-compose.yaml: the bots to run, None: no file
    procs,     \* the bots in process-compose's configuration, None: it is down
    agg,       \* the aggregator: the agents it serves, whose token is whose,
               \* the bootstrap_done it is at
    bot,       \* the bot process of each agent
    cmd,       \* the command in progress
    clock,     \* minutes, secrets generated, commands given
    half,      \* agents whose restore broke off
    rewound,   \* agents rebootstrapped, sandbox too, into whose sandbox no
               \* identity has come since
    outrun     \* agents rebootstrapped under a bootstrap_done with the identity

vars == <<dir, boxes, backups, tokens, conf, procs, agg, bot, cmd, clock,
          half, rewound, outrun>>

Names == Agents \X (0..MaxMinutes)

\* What an agent's directory, agent.yaml, a sandbox and a command are made of.
Dirs   == [box: Names, secret: Nat, identity: BOOLEAN, boot: BOOLEAN]
Yamls  == [box: Names, secret: Nat]
Calls  == [who: Agents, box: Names, found: BOOLEAN]
Stuffs == [who: Agents, work: Nat, identity: BOOLEAN]
Ops   == {"home", "init", "backup", "restore", "migrate", "destroy",
          "rebootstrap"}
Steps == {"create", "wipe", "remove", "codegen", "secret", "box", "delete",
          "spawn", "register", "tar", "yaml", "copy", "upload", "name", "stop",
          "backup", "reload", "session", "sandbox", "host", "boot", "start"}
Commands == [op: Ops, at: Steps, who: Agents, old: Names \cup {None},
             new: Names \cup {None}, tar: Stuffs \cup {None},
             yaml: Yamls \cup {None}, flag: BOOLEAN]

ASSUME NoneAssumption ==
    /\ None \notin Names \cup Dirs \cup Yamls \cup Stuffs \cup Commands \cup Calls
    /\ \A S \in (SUBSET Agents) \cup (SUBSET BOOLEAN) : S # None

\* What a sandbox holds: whose data, how much work, its identity files.
Fresh(a) == [who |-> a, work |-> 0, identity |-> FALSE]

\* A bot that process-compose is about to start, and one it was told to stop.
OffBot     == [phase |-> "off", yaml |-> None, seen |-> None, got |-> None]
StoppedBot == [OffBot EXCEPT !.phase = "stopped"]

Default(a) == <<a, 0>>
Stamped(a) == <<a, clock.minute>>

\* The agents that discover_agents finds: directories with an agent.yaml.
Discovered == {a \in Agents : dir[a] # None}

Yaml(a) == IF dir[a] = None THEN None
           ELSE [box |-> dir[a].box, secret |-> dir[a].secret]

Running == procs # None

\* A bootstrap_done of agent a is under way.
Calling(a) == agg # None /\ agg.call # None /\ agg.call.who = a

\* A sandbox with identity files, and who would find them there: an agent, its
\* bot that has read an older agent.yaml, an agent on its way into it, a
\* bootstrap_done that looks there.
Introduced(b) == boxes[b] # None /\ boxes[b].identity
Uses(a, b) ==
    \/ dir[a] # None /\ dir[a].box = b
    \/ bot[a].yaml # None /\ bot[a].yaml.box = b
    \/ cmd # None /\ cmd.op = "migrate" /\ cmd.who = a /\ cmd.new = b
    \/ Calling(a) /\ agg.call.box = b

\* A bootstrap_done of agent a that has found the identity, or is about to.
Finding(a) == Calling(a) /\ (agg.call.found \/ Introduced(agg.call.box))

\* The rewound agents, but for those that an identity in sandbox b reaches.
RewoundBut(b) == {a \in rewound : ~Uses(a, b)}

-----------------------------------------------------------------------------
(* Steps of a command.                                                       *)

At(op, at) == cmd # None /\ cmd.op = op /\ cmd.at = at
Goto(at)   == cmd' = [cmd EXCEPT !.at = at]
Finish     == cmd' = None

Command(op, at, a, old, new) ==
    [op |-> op, at |-> at, who |-> a, old |-> old, new |-> new,
     tar |-> None, yaml |-> None, flag |-> FALSE]

\* The shell starts a command.
Give(c) ==
    /\ cmd = None
    /\ clock.given < MaxCommands
    /\ clock' = [clock EXCEPT !.given = @ + 1]
    /\ cmd' = c

\* An error, a failed check or Ctrl-C ends a command where it stands.
Interrupted ==
    /\ cmd # None
    /\ Finish
    /\ UNCHANGED <<dir, boxes, backups, tokens, conf, procs, agg, bot, clock,
                   half, rewound, outrun>>

Minute ==
    /\ clock.minute < MaxMinutes
    /\ clock' = [clock EXCEPT !.minute = @ + 1]
    /\ UNCHANGED <<dir, boxes, backups, tokens, conf, procs, agg, bot, cmd,
                   half, rewound, outrun>>

-----------------------------------------------------------------------------
(* Files and processes.                                                      *)

\* ensure_agent_secret for the agents of S: the directories afterwards.
Lacking(S) == {a \in S : dir[a].secret = 0}

Minted(S) ==
    LET new == CHOOSE f \in [Lacking(S) -> (clock.minted + 1)
                                 ..(clock.minted + Cardinality(Lacking(S)))] :
                   \A a, b \in Lacking(S) : f[a] = f[b] => a = b
    IN  [a \in Agents |-> IF a \in Lacking(S)
                          THEN [dir[a] EXCEPT !.secret = new[a]] ELSE dir[a]]

\* run_agent_codegen over the agents of S: the missing secrets, the token map
\* and the process list of S, and of nothing else.
Codegen(S) ==
    /\ clock.minted + Cardinality(Lacking(S)) <= MaxSecrets
    /\ dir' = Minted(S)
    /\ clock' = [clock EXCEPT !.minted = @ + Cardinality(Lacking(S))]
    /\ tokens' = [a \in Agents |-> IF a \in S THEN Minted(S)[a].secret ELSE 0]
    /\ conf' = S

\* POST /project/configuration: bots that are new in the file start, bots that
\* are gone from it end, the others go on as they are.
ReloadProcs(restarted) ==
    /\ procs' = conf'
    /\ bot' = [a \in Agents |-> IF a \in (procs \cap conf') \ restarted
                                THEN bot[a] ELSE OffBot]

\* Of agents with one token the aggregator's map keeps the one inserted last:
\* the ways in which one agent of S is left for each token.
Inserted(S, toks) ==
    LET distinct == {toks[a] : a \in S}
    IN  {last \in SUBSET S : /\ {toks[a] : a \in last} = distinct
                             /\ Cardinality(last) = Cardinality(distinct)}

OwnerAmong(last, toks, s) ==
    IF \E a \in last : toks[a] = s THEN CHOOSE a \in last : toks[a] = s ELSE None

\* Its map from tokens to agents, read from the token map.
AggregatorStarts(toks) ==
    LET known == {a \in Agents : toks[a] # 0}
    IN  \E last \in Inserted(known, toks) :
            agg' = [known |-> known, call |-> None,
                    map |-> [s \in 1..MaxSecrets |-> OwnerAmong(last, toks, s)]]

\* delete_sandbox only logs a failure.
DeletedIfPossible(b) == boxes' \in {boxes, [boxes EXCEPT ![b] = None]}

SandboxReady(b) == boxes[b] # None

\* ssh_tar_download: what the sandbox holds now, into a backup directory.
Tarred(b, into) == [backups EXCEPT ![into].tar = boxes[b]]

\* The wait after a deletion, an error where the sandbox is still there.
Gone(b) == boxes[b] = None

\* `openshell sandbox create` and the wait for READY.  Where a sandbox of that
\* name is ready already, the wait may end before the refused create does.
Spawned(b, a) == boxes' = IF boxes[b] = None
                          THEN [boxes EXCEPT ![b] = Fresh(a)] ELSE boxes

-----------------------------------------------------------------------------
(* right init, once for a host: the agent called Right.                      *)

\* init_agent: no secret, nobody introduced.
Created(a) ==
    dir' = [dir EXCEPT ![a] = [box |-> Default(a), secret |-> 0,
                               identity |-> FALSE, boot |-> TRUE]]

HomeStart ==
    /\ dir[Right] = None
    /\ Give(Command("home", "create", Right, Default(Right), Default(Right)))
    /\ UNCHANGED <<dir, boxes, backups, tokens, conf, procs, agg, bot, half,
                   rewound, outrun>>

\* init_right_home
HomeInit == dir[Right] = None /\ Created(Right)

\* The wizard, which can be left, and then the agent.
HomeCreate ==
    /\ At("home", "create")
    /\ HomeInit
    /\ Goto("codegen")
    /\ UNCHANGED <<boxes, backups, tokens, conf, procs, agg, bot, clock, half,
                   rewound, outrun>>

\* The tunnel, config.yaml, and codegen for this agent alone.
HomeCodegen ==
    /\ At("home", "codegen")
    /\ Codegen({Right})
    /\ Goto("secret")
    /\ UNCHANGED <<boxes, backups, procs, agg, bot, half, rewound, outrun>>

\* An older sandbox of the name is recreated if the user says so, and ends the
\* command otherwise, the agent being there already.
HomeBox ==
    /\ At("home", "box")
    /\ Goto(IF SandboxReady(cmd.new) THEN "delete" ELSE "spawn")
    /\ UNCHANGED <<dir, boxes, backups, tokens, conf, procs, agg, bot, clock,
                   half, rewound, outrun>>

-----------------------------------------------------------------------------
(* right agent init, with --force-recreate (and --fresh) over an old agent.  *)

InitStart(a, fresh) ==
    /\ Give([Command("init", IF dir[a] = None THEN "create" ELSE "wipe", a,
                     IF dir[a] = None \/ fresh THEN Default(a) ELSE dir[a].box,
                     Default(a)) EXCEPT !.flag = (dir[a] # None)])
    /\ UNCHANGED <<dir, boxes, backups, tokens, conf, procs, agg, bot, half,
                   rewound, outrun>>

InitWipe ==
    /\ At("init", "wipe")
    /\ DeletedIfPossible(cmd.old)
    /\ Goto("remove")
    /\ UNCHANGED <<dir, backups, tokens, conf, procs, agg, bot, clock, half,
                   rewound, outrun>>

InitRemove ==
    /\ At("init", "remove")
    /\ dir' = [dir EXCEPT ![cmd.who] = None]
    /\ half' = half \ {cmd.who}
    /\ rewound' = rewound \ {cmd.who}
    /\ Goto("create")
    /\ UNCHANGED <<boxes, backups, tokens, conf, procs, agg, bot, clock,
                   outrun>>

\* The answers of the wizard, asked only now, then init_agent.
InitCreate ==
    /\ At("init", "create")
    /\ Created(cmd.who)
    /\ Goto("codegen")
    /\ UNCHANGED <<boxes, backups, tokens, conf, procs, agg, bot, clock, half,
                   rewound, outrun>>

\* Cross-agent codegen for the new agent alone.
InitCodegen ==
    /\ At("init", "codegen")
    /\ Codegen({cmd.who})
    /\ Goto("secret")
    /\ UNCHANGED <<boxes, backups, procs, agg, bot, half, rewound, outrun>>

\* The agent's own codegen works from the definition parsed before: it finds no
\* secret there and generates another one.
InitSecret ==
    /\ At("init", "secret") \/ At("home", "secret")
    /\ clock.minted < MaxSecrets
    /\ clock' = [clock EXCEPT !.minted = @ + 1]
    /\ dir' = [dir EXCEPT ![cmd.who].secret = clock.minted + 1]
    /\ Goto("box")
    /\ UNCHANGED <<boxes, backups, tokens, conf, procs, agg, bot, half, rewound,
                   outrun>>

\* A sandbox of that name is in the way, unless it has been wiped.
InitBox ==
    /\ At("init", "box")
    /\ Goto(IF SandboxReady(cmd.new) THEN "delete" ELSE "spawn")
    /\ UNCHANGED <<dir, boxes, backups, tokens, conf, procs, agg, bot, clock,
                   half, rewound, outrun>>

\* ensure_sandbox: the old one is deleted and waited for, a new one made.
EnsureDeleted ==
    /\ At("init", "delete") \/ At("home", "delete")
    /\ DeletedIfPossible(cmd.new)
    /\ Goto("spawn")
    /\ UNCHANGED <<dir, backups, tokens, conf, procs, agg, bot, clock, half,
                   rewound, outrun>>

EnsureSandbox ==
    /\ At("init", "spawn") \/ At("home", "spawn")
    /\ Gone(cmd.new)
    /\ Spawned(cmd.new, cmd.who)
    /\ IF cmd.op = "init" THEN Goto("register") ELSE Finish
    /\ UNCHANGED <<dir, backups, tokens, conf, procs, agg, bot, clock, half,
                   rewound, outrun>>

\* register_with_running_pc: the aggregator is not told.
InitRegister ==
    /\ At("init", "register")
    /\ IF conf # None /\ Running
       THEN /\ Codegen(Discovered)
            /\ ReloadProcs(IF cmd.flag THEN {cmd.who} ELSE {})
       ELSE UNCHANGED <<dir, clock, tokens, conf, procs, bot>>
    /\ Finish
    /\ UNCHANGED <<boxes, backups, agg, half, rewound, outrun>>

-----------------------------------------------------------------------------
(* right agent backup.                                                       *)

BackupStart(a, sandboxOnly) ==
    /\ dir[a] # None
    /\ SandboxReady(dir[a].box)
    /\ Give([Command("backup", "tar", a, dir[a].box, Stamped(a))
             EXCEPT !.flag = sandboxOnly])
    /\ UNCHANGED <<dir, boxes, backups, tokens, conf, procs, agg, bot, half,
                   rewound, outrun>>

BackupTar ==
    /\ At("backup", "tar")
    /\ SandboxReady(cmd.old)
    /\ backups' = Tarred(cmd.old, cmd.new)
    /\ IF cmd.flag THEN Finish ELSE Goto("yaml")
    /\ UNCHANGED <<dir, boxes, tokens, conf, procs, agg, bot, clock, half,
                   rewound, outrun>>

BackupYaml ==
    /\ At("backup", "yaml")
    /\ backups' = [backups EXCEPT ![cmd.new].yaml = Yaml(cmd.who)]
    /\ Finish
    /\ UNCHANGED <<dir, boxes, tokens, conf, procs, agg, bot, clock, half,
                   rewound, outrun>>

-----------------------------------------------------------------------------
(* right agent restore, into a name that has no directory.                   *)

RestoreStart(a, from) ==
    /\ dir[a] = None
    /\ backups[from].tar # None
    /\ backups[from].yaml # None
    /\ Give([Command("restore", "copy", a, from, Stamped(a))
             EXCEPT !.tar = backups[from].tar, !.yaml = backups[from].yaml])
    /\ UNCHANGED <<dir, boxes, backups, tokens, conf, procs, agg, bot, half,
                   rewound, outrun>>

\* `right agent init` of a new agent offers to restore a backup instead.
InitRestores(from) ==
    /\ At("init", "create") /\ ~cmd.flag
    /\ backups[from].tar # None
    /\ backups[from].yaml # None
    /\ cmd' = [Command("restore", "copy", cmd.who, from, Stamped(cmd.who))
               EXCEPT !.tar = backups[from].tar, !.yaml = backups[from].yaml]
    /\ UNCHANGED <<dir, boxes, backups, tokens, conf, procs, agg, bot, clock,
                   half, rewound, outrun>>

\* agent.yaml comes from the backup, with its sandbox name and its secret; then
\* a placeholder for IDENTITY.md and the agent's codegen.
RestoreCopy ==
    /\ At("restore", "copy")
    /\ dir' = [dir EXCEPT ![cmd.who] =
                   [box |-> cmd.yaml.box, secret |-> cmd.yaml.secret,
                    identity |-> TRUE, boot |-> FALSE]]
    /\ half' = half \cup {cmd.who}
    /\ Goto("box")
    /\ UNCHANGED <<boxes, backups, tokens, conf, procs, agg, bot, clock,
                   rewound, outrun>>

RestoreBox ==
    /\ At("restore", "box")
    /\ Spawned(cmd.new, cmd.who)
    /\ Goto("upload")
    /\ UNCHANGED <<dir, backups, tokens, conf, procs, agg, bot, clock, half,
                   rewound, outrun>>

RestoreUpload ==
    /\ At("restore", "upload")
    /\ boxes' = [boxes EXCEPT ![cmd.new] = cmd.tar]
    /\ rewound' = IF cmd.tar.identity THEN RewoundBut(cmd.new) ELSE rewound
    /\ Goto("name")
    /\ UNCHANGED <<dir, backups, tokens, conf, procs, agg, bot, clock, half,
                   outrun>>

\* A fault: the restored agent.yaml keeps the name it came with.
RestoreNameKept ==
    /\ At("restore", "name")
    /\ half' = half \ {cmd.who}
    /\ Finish
    /\ UNCHANGED <<dir, boxes, backups, tokens, conf, procs, agg, bot, clock,
                   rewound, outrun>>

RestoreName ==
    /\ At("restore", "name")
    /\ dir' = [dir EXCEPT ![cmd.who].box = cmd.new]
    /\ half' = half \ {cmd.who}
    /\ Finish
    /\ UNCHANGED <<boxes, backups, tokens, conf, procs, agg, bot, clock,
                   rewound, outrun>>

-----------------------------------------------------------------------------
(* The migration that `right agent config` offers when the filesystem policy *)
(* has changed: to a new sandbox, through a tar, with the bot running.       *)

MigrateStart(a) ==
    /\ dir[a] # None
    /\ SandboxReady(dir[a].box)
    /\ Give(Command("migrate", "tar", a, dir[a].box, Stamped(a)))
    /\ UNCHANGED <<dir, boxes, backups, tokens, conf, procs, agg, bot, half,
                   rewound, outrun>>

MigrateTar ==
    /\ At("migrate", "tar")
    /\ SandboxReady(cmd.old)
    /\ backups' = Tarred(cmd.old, cmd.new)
    /\ cmd' = [cmd EXCEPT !.at = "box", !.tar = boxes[cmd.old]]
    /\ UNCHANGED <<dir, boxes, tokens, conf, procs, agg, bot, clock, half,
                   rewound, outrun>>

MigrateBox ==
    /\ At("migrate", "box")
    /\ Spawned(cmd.new, cmd.who)
    /\ Goto("upload")
    /\ UNCHANGED <<dir, backups, tokens, conf, procs, agg, bot, clock, half,
                   rewound, outrun>>

\* A fault: nobody looks at how the upload went.
MigrateUploadUnchecked ==
    /\ At("migrate", "upload")
    /\ boxes' \in {boxes, [boxes EXCEPT ![cmd.new] = cmd.tar]}
    /\ Goto("name")
    /\ UNCHANGED <<dir, backups, tokens, conf, procs, agg, bot, clock, half,
                   rewound, outrun>>

MigrateUpload ==
    /\ At("migrate", "upload")
    /\ boxes' = [boxes EXCEPT ![cmd.new] = cmd.tar]
    /\ rewound' = IF cmd.tar.identity
                  THEN RewoundBut(cmd.new) \cup (rewound \cap {cmd.who})
                  ELSE rewound
    /\ Goto("name")
    /\ UNCHANGED <<dir, backups, tokens, conf, procs, agg, bot, clock, half,
                   outrun>>

\* The upload failed: the new sandbox is deleted, the old one stays.
MigrateRollback ==
    /\ At("migrate", "upload")
    /\ DeletedIfPossible(cmd.new)
    /\ Finish
    /\ UNCHANGED <<dir, backups, tokens, conf, procs, agg, bot, clock, half,
                   rewound, outrun>>

MigrateName ==
    /\ At("migrate", "name")
    /\ dir' = [dir EXCEPT ![cmd.who].box = cmd.new]
    /\ Goto("delete")
    /\ UNCHANGED <<boxes, backups, tokens, conf, procs, agg, bot, clock, half,
                   rewound, outrun>>

MigrateDelete ==
    /\ At("migrate", "delete")
    /\ DeletedIfPossible(cmd.old)
    /\ Finish
    /\ UNCHANGED <<dir, backups, tokens, conf, procs, agg, bot, clock, half,
                   rewound, outrun>>

-----------------------------------------------------------------------------
(* right agent destroy.                                                      *)

DestroyStart(a, backup) ==
    /\ dir[a] # None
    /\ Give([Command("destroy", "stop", a, dir[a].box, Stamped(a))
             EXCEPT !.flag = backup])
    /\ UNCHANGED <<dir, boxes, backups, tokens, conf, procs, agg, bot, half,
                   rewound, outrun>>

\* A bot that cannot be stopped does not hold the command up.
DestroyStop ==
    /\ At("destroy", "stop")
    /\ \/ /\ conf # None /\ Running
          /\ bot' = [bot EXCEPT ![cmd.who] = StoppedBot]
       \/ UNCHANGED bot
    /\ Goto(IF cmd.flag THEN "backup" ELSE "delete")
    /\ UNCHANGED <<dir, boxes, backups, tokens, conf, procs, agg, clock, half,
                   rewound, outrun>>

\* run_backup: without the sandbox's tar where that fails.
DestroyBackup ==
    /\ At("destroy", "backup")
    /\ \E tar \in {boxes[cmd.old], backups[cmd.new].tar} :
           backups' = [backups EXCEPT ![cmd.new] =
                           [tar |-> IF boxes[cmd.old] = None THEN @.tar ELSE tar,
                            yaml |-> Yaml(cmd.who)]]
    /\ Goto("delete")
    /\ UNCHANGED <<dir, boxes, tokens, conf, procs, agg, bot, clock, half,
                   rewound, outrun>>

DestroyDelete ==
    /\ At("destroy", "delete")
    /\ DeletedIfPossible(cmd.old)
    /\ Goto("remove")
    /\ UNCHANGED <<dir, backups, tokens, conf, procs, agg, bot, clock, half,
                   rewound, outrun>>

DestroyRemove ==
    /\ At("destroy", "remove")
    /\ dir' = [dir EXCEPT ![cmd.who] = None]
    /\ half' = half \ {cmd.who}
    /\ rewound' = rewound \ {cmd.who}
    /\ Goto("reload")
    /\ UNCHANGED <<boxes, backups, tokens, conf, procs, agg, bot, clock,
                   outrun>>

DestroyReload ==
    /\ At("destroy", "reload")
    /\ IF conf # None /\ Running
       THEN Codegen(Discovered) /\ ReloadProcs({})
       ELSE UNCHANGED <<dir, clock, tokens, conf, procs, bot>>
    /\ Finish
    /\ UNCHANGED <<boxes, backups, agg, half, rewound, outrun>>

-----------------------------------------------------------------------------
(* right agent rebootstrap.                                                  *)

\* The plan is made before the user is asked.
RebootstrapPlan(a) == Command("rebootstrap", "stop", a, dir[a].box, None)

RebootstrapStart(a) ==
    /\ dir[a] # None
    /\ conf # None => Running
    /\ Give([RebootstrapPlan(a) EXCEPT !.flag = (conf # None)])
    /\ UNCHANGED <<dir, boxes, backups, tokens, conf, procs, agg, bot, half,
                   rewound, outrun>>

\* A fault: the files are rewound under the running bot.
RebootstrapRunning ==
    /\ At("rebootstrap", "stop")
    /\ Goto("session")
    /\ UNCHANGED <<dir, boxes, backups, tokens, conf, procs, agg, bot, clock,
                   half, rewound, outrun>>

\* The bot is stopped where there is a running process-compose.
RebootstrapStop ==
    /\ At("rebootstrap", "stop")
    /\ IF cmd.flag
       THEN /\ cmd.who \in procs
            /\ bot' = [bot EXCEPT ![cmd.who] = StoppedBot]
       ELSE UNCHANGED bot
    /\ Goto("session")
    /\ UNCHANGED <<dir, boxes, backups, tokens, conf, procs, agg, clock, half,
                   rewound, outrun>>

\* The identity files are copied aside, the host's and the sandbox's; where the
\* sandbox is absent or OpenShell is not ready, its part is skipped.
RebootstrapSession ==
    /\ At("rebootstrap", "session")
    /\ \/ SandboxReady(cmd.old) /\ Goto("sandbox")
       \/ Goto("host")
    /\ UNCHANGED <<dir, boxes, backups, tokens, conf, procs, agg, bot, clock,
                   half, rewound, outrun>>

RebootstrapSandbox ==
    /\ At("rebootstrap", "sandbox")
    /\ boxes[cmd.old] # None
    /\ boxes' = [boxes EXCEPT ![cmd.old].identity = FALSE]
    /\ cmd' = [cmd EXCEPT !.at = "host", !.new = cmd.old]
    /\ UNCHANGED <<dir, backups, tokens, conf, procs, agg, bot, clock, half,
                   rewound, outrun>>

RebootstrapHost ==
    /\ At("rebootstrap", "host")
    /\ dir' = [dir EXCEPT ![cmd.who].identity = FALSE]
    /\ Goto("boot")
    /\ UNCHANGED <<boxes, backups, tokens, conf, procs, agg, bot, clock, half,
                   rewound, outrun>>

\* BOOTSTRAP.md is back and no session is active; the bot starts again.
RebootstrapBoot ==
    /\ At("rebootstrap", "boot")
    /\ dir' = [dir EXCEPT ![cmd.who].boot = TRUE]
    /\ rewound' = IF cmd.new = cmd.old /\ ~Introduced(cmd.old)
                  THEN rewound \cup {cmd.who} ELSE rewound
    /\ outrun' = IF Finding(cmd.who) THEN outrun \cup {cmd.who}
                                     ELSE outrun \ {cmd.who}
    /\ Goto("start")
    /\ UNCHANGED <<boxes, backups, tokens, conf, procs, agg, bot, clock, half>>

RebootstrapRestart ==
    /\ At("rebootstrap", "start")
    /\ bot' = IF cmd.flag THEN [bot EXCEPT ![cmd.who] = OffBot] ELSE bot
    /\ Finish
    /\ UNCHANGED <<dir, boxes, backups, tokens, conf, procs, agg, clock, half,
                   rewound, outrun>>

-----------------------------------------------------------------------------
(* right up, down and reload.                                                *)

\* The checks and codegen for the agents of S ...
Up(S) ==
    /\ S # {}
    /\ ~Running
    /\ cmd = None
    /\ clock.given < MaxCommands
    /\ clock.minted + Cardinality(Lacking(S)) <= MaxSecrets
    /\ dir' = Minted(S)
    /\ clock' = [clock EXCEPT !.minted = @ + Cardinality(Lacking(S)),
                              !.given = @ + 1]
    /\ tokens' = [a \in Agents |-> IF a \in S THEN Minted(S)[a].secret ELSE 0]
    /\ conf' = S
    /\ cmd' = Command("up", "launch", None, None, None)
    /\ UNCHANGED <<boxes, backups, procs, agg, bot, half, rewound, outrun>>

\* ... and process-compose, which starts the aggregator and the bots.
UpLaunch ==
    /\ At("up", "launch")
    /\ procs' = conf
    /\ AggregatorStarts(tokens)
    /\ Finish
    /\ UNCHANGED <<dir, boxes, backups, tokens, conf, bot, clock, half, rewound,
                   outrun>>

Down ==
    /\ Running
    /\ Give(None)
    /\ procs' = None
    /\ agg' = None
    /\ bot' = [a \in Agents |-> OffBot]
    /\ UNCHANGED <<dir, boxes, backups, tokens, conf, half, rewound, outrun>>

ReloadStart ==
    /\ conf # None /\ Running
    /\ Discovered # {}
    /\ Give(Command("reload", "codegen", None, None, None))
    /\ UNCHANGED <<dir, boxes, backups, tokens, conf, procs, agg, bot, half,
                   rewound, outrun>>

ReloadCodegen ==
    /\ At("reload", "codegen")
    /\ Codegen(Discovered)
    /\ ReloadProcs({})
    /\ Goto("aggregator")
    /\ UNCHANGED <<boxes, backups, agg, half, rewound, outrun>>

\* handle_reload: agents that are new get a token, those that are gone lose
\* theirs; an agent that is known keeps the token it was first read with.
ReloadAggregator ==
    /\ At("reload", "aggregator")
    /\ agg # None
    /\ LET listed == {a \in Agents : tokens[a] # 0}
           added  == {a \in listed \ agg.known : dir[a] # None}
           kept   == (agg.known \cup added) \cap listed
           over(s) == IF agg.map[s] \in kept THEN agg.map[s] ELSE None
       IN  \E last \in Inserted(added, tokens) :
               agg' = [known |-> kept, call |-> agg.call,
                       map |-> [s \in 1..MaxSecrets |->
                                  IF \E a \in last : tokens[a] = s
                                  THEN OwnerAmong(last, tokens, s) ELSE over(s)]]
    /\ Finish
    /\ UNCHANGED <<dir, boxes, backups, tokens, conf, procs, bot, clock, half,
                   rewound, outrun>>

\* process-compose restarts an aggregator that has died.
AggregatorRestarts ==
    /\ agg # None
    /\ AggregatorStarts(tokens)
    /\ UNCHANGED <<dir, boxes, backups, tokens, conf, procs, bot, cmd, clock,
                   half, rewound, outrun>>

-----------------------------------------------------------------------------
(* The bots.                                                                 *)

\* run_async up to the configuration: the agent's codegen, then agent.yaml.
BotStarts(a) ==
    /\ Running /\ a \in procs
    /\ bot[a].phase = "off"
    /\ dir[a] # None
    /\ clock.minted + Cardinality(Lacking({a})) <= MaxSecrets
    /\ dir' = Minted({a})
    /\ clock' = [clock EXCEPT !.minted = @ + Cardinality(Lacking({a}))]
    /\ bot' = [bot EXCEPT ![a] =
                   [phase |-> "starting", got |-> None, seen |-> None,
                    yaml |-> [box |-> dir'[a].box, secret |-> dir'[a].secret]]]
    /\ UNCHANGED <<boxes, backups, tokens, conf, procs, agg, cmd, half, rewound,
                   outrun>>

\* spawn_config_watcher reads agent.yaml again, as the text to compare with.
BotWatches(a) ==
    /\ bot[a].phase = "starting"
    /\ dir[a] # None
    /\ bot' = [bot EXCEPT ![a].phase = "watching", ![a].seen = Yaml(a)]
    /\ UNCHANGED <<dir, boxes, backups, tokens, conf, procs, agg, cmd, clock,
                   half, rewound, outrun>>

\* A bot whose sandbox is not there ends, and is restarted.
BotConnects(a) ==
    /\ bot[a].phase = "watching"
    /\ bot' = [bot EXCEPT ![a] = IF SandboxReady(bot[a].yaml.box)
                                 THEN [@ EXCEPT !.phase = "up"] ELSE OffBot]
    /\ UNCHANGED <<dir, boxes, backups, tokens, conf, procs, agg, cmd, clock,
                   half, rewound, outrun>>

\* A turn of the agent leaves work in the sandbox; one that onboards it writes
\* the identity files.
Turn(a) ==
    /\ bot[a].phase = "up"
    /\ LET b == bot[a].yaml.box
           onboards == dir[a] # None /\ dir[a].boot
       IN  /\ boxes[b] # None
           /\ boxes[b].work < MaxWork
           /\ boxes' = [boxes EXCEPT ![b].work = @ + 1,
                                     ![b].identity = @ \/ onboards]
           /\ rewound' = IF onboards THEN RewoundBut(b) ELSE rewound
    /\ UNCHANGED <<dir, backups, tokens, conf, procs, agg, bot, cmd, clock,
                   half, outrun>>

\* reverse_sync_md after a turn: the identity files are downloaded ...
SyncFetches(a) ==
    /\ bot[a].phase = "up"
    /\ bot[a].got = None
    /\ boxes[bot[a].yaml.box] # None
    /\ bot' = [bot EXCEPT ![a].got = {boxes[bot[a].yaml.box].identity}]
    /\ UNCHANGED <<dir, boxes, backups, tokens, conf, procs, agg, cmd, clock,
                   half, rewound, outrun>>

\* ... and written to the host, or deleted there; with all of them present the
\* onboarding is over and BOOTSTRAP.md goes.
SyncStores(a) ==
    /\ bot[a].phase = "up"
    /\ bot[a].got # None
    /\ LET present == TRUE \in bot[a].got
       IN  dir' = IF dir[a] = None THEN dir
                  ELSE [dir EXCEPT ![a].identity = present,
                                   ![a].boot = @ /\ ~present]
    /\ bot' = [bot EXCEPT ![a].got = None]
    /\ UNCHANGED <<boxes, backups, tokens, conf, procs, agg, cmd, clock, half,
                   rewound, outrun>>

\* bootstrap_done, a tool of the aggregator, at work on one call: it reads
\* agent.yaml for the name of the sandbox and connects to it, ...
DoneBegins(a) ==
    /\ agg # None /\ a \in agg.known
    /\ agg.call = None
    /\ \E b \in Names :
           /\ b = IF dir[a] = None THEN Default(a) ELSE dir[a].box
           /\ SandboxReady(b)
           /\ agg' = [agg EXCEPT !.call = [who |-> a, box |-> b, found |-> FALSE]]
    /\ UNCHANGED <<dir, boxes, backups, tokens, conf, procs, bot, cmd, clock,
                   half, rewound, outrun>>

\* ... looks there for the identity files, ...
DoneChecks ==
    /\ agg # None /\ agg.call # None /\ ~agg.call.found
    /\ Introduced(agg.call.box)
    /\ agg' = [agg EXCEPT !.call.found = TRUE]
    /\ UNCHANGED <<dir, boxes, backups, tokens, conf, procs, bot, cmd, clock,
                   half, rewound, outrun>>

\* ... and with all of them found removes BOOTSTRAP.md, ahead of any download,
\* and whatever has become of the files.
DoneRemoves ==
    /\ agg # None /\ agg.call # None /\ agg.call.found
    /\ dir' = IF dir[agg.call.who] = None THEN dir
              ELSE [dir EXCEPT ![agg.call.who].boot = FALSE]
    /\ agg' = [agg EXCEPT !.call = None]
    /\ UNCHANGED <<boxes, backups, tokens, conf, procs, bot, cmd, clock, half,
                   rewound, outrun>>

\* Files are missing, or OpenShell does not answer.
DoneFails ==
    /\ agg # None /\ agg.call # None
    /\ agg' = [agg EXCEPT !.call = None]
    /\ UNCHANGED <<dir, boxes, backups, tokens, conf, procs, bot, cmd, clock,
                   half, rewound, outrun>>

\* The watcher finds agent.yaml changed, or gone: the bot ends for a restart.
BotSeesChange(a) ==
    /\ bot[a].phase \in {"watching", "up"}
    /\ bot[a].seen # Yaml(a)
    /\ bot' = [bot EXCEPT ![a] = OffBot]
    /\ UNCHANGED <<dir, boxes, backups, tokens, conf, procs, agg, cmd, clock,
                   half, rewound, outrun>>

BotDies(a) ==
    /\ bot[a].phase \in {"starting", "watching", "up"}
    /\ bot' = [bot EXCEPT ![a] = OffBot]
    /\ UNCHANGED <<dir, boxes, backups, tokens, conf, procs, agg, cmd, clock,
                   half, rewound, outrun>>

-----------------------------------------------------------------------------

Init ==
    /\ dir = [a \in Agents |-> None]
    /\ boxes = [b \in Names |-> None]
    /\ backups = [b \in Names |-> [tar |-> None, yaml |-> None]]
    /\ tokens = [a \in Agents |-> 0]
    /\ conf = None
    /\ procs = None
    /\ agg = None
    /\ bot = [a \in Agents |-> OffBot]
    /\ cmd = None
    /\ clock = [minute |-> 1, minted |-> 0, given |-> 0]
    /\ half = {}
    /\ rewound = {}
    /\ outrun = {}

Starts ==
    \E a \in Agents :
        \/ \E x \in BOOLEAN : InitStart(a, x) \/ BackupStart(a, x)
                                \/ DestroyStart(a, x)
        \/ \E b \in Names : RestoreStart(a, b)
        \/ MigrateStart(a)
        \/ RebootstrapStart(a)

HomeSteps == HomeStart \/ HomeCreate \/ HomeCodegen \/ HomeBox
InitSteps == InitWipe \/ InitRemove \/ InitCreate \/ InitCodegen \/ InitSecret
               \/ InitBox \/ EnsureDeleted \/ EnsureSandbox \/ InitRegister
               \/ \E b \in Names : InitRestores(b)
CopySteps == BackupTar \/ BackupYaml \/ RestoreCopy \/ RestoreBox
               \/ RestoreUpload \/ RestoreName
MigrateSteps == MigrateTar \/ MigrateBox \/ MigrateUpload \/ MigrateRollback
                  \/ MigrateName \/ MigrateDelete
DestroySteps == DestroyStop \/ DestroyBackup \/ DestroyDelete \/ DestroyRemove
                  \/ DestroyReload
RebootstrapSteps == RebootstrapStop \/ RebootstrapSession \/ RebootstrapSandbox
                      \/ RebootstrapHost \/ RebootstrapBoot \/ RebootstrapRestart
RuntimeSteps == (\E S \in SUBSET Discovered : Up(S)) \/ UpLaunch \/ Down \/ ReloadStart
                  \/ ReloadCodegen \/ ReloadAggregator \/ AggregatorRestarts
BotSteps == \E a \in Agents : BotStarts(a) \/ BotWatches(a) \/ BotConnects(a)
                \/ Turn(a) \/ SyncFetches(a) \/ SyncStores(a)
                \/ BotSeesChange(a) \/ BotDies(a)
CallSteps == (\E a \in Agents : DoneBegins(a)) \/ DoneChecks \/ DoneRemoves
               \/ DoneFails

Next == Starts \/ HomeSteps \/ InitSteps \/ CopySteps \/ MigrateSteps \/ DestroySteps
          \/ RebootstrapSteps \/ RuntimeSteps \/ BotSteps \/ CallSteps
          \/ Minute \/ Interrupted

Spec == Init /\ [][Next]_vars

-----------------------------------------------------------------------------
(* Properties.                                                               *)

\* Whatever step a migration is broken off at, and whatever the bot does in
\* the meantime, agent.yaml names a sandbox that holds at least what the
\* migration's tar took from the old one: perform_migration creates, fills and
\* names the new sandbox before it deletes the old one.  (A migration in the
\* minute the sandbox is named after would be one into itself.)
MigrationKeeps ==
    [][ (cmd # None /\ cmd.op = "migrate" /\ cmd.tar # None /\ cmd.new # cmd.old)
          => LET named == boxes'[dir'[cmd.who].box]
             IN  /\ named # None
                 /\ named.who = cmd.tar.who
                 /\ named.work >= cmd.tar.work ]_vars

\* Two agents name one sandbox only where a restore was broken off: agent.yaml
\* arrives with the name of the sandbox that was backed up, and gets its own
\* with the restore's last step.
SharedOnlyHalfway ==
    \A a, b \in Discovered :
        a # b /\ dir[a].box = dir[b].box => {a, b} \cap half # {}

\* An agent that was rebootstrapped, its sandbox included, stays so until an
\* identity comes anew into that sandbox, be it by its own turn, or by another
\* agent that shares the sandbox after a restore broke off: no download that
\* was under way, no copy left in the sandbox brings the old identity back or
\* removes BOOTSTRAP.md.  Only a bootstrap_done that has found the old identity
\* when BOOTSTRAP.md is written, or still finds it in a sandbox that agent.yaml
\* named before, removes the file again: the aggregator is not stopped, and
\* does not look a second time.
OnboardingRewound ==
    \A a \in rewound : ~dir[a].identity /\ (dir[a].boot \/ a \in outrun)

=============================================================================
