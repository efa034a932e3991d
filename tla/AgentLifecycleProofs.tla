------------------------ MODULE AgentLifecycleProofs ------------------------
(***************************************************************************)
(* For any agents, and any number of commands, minutes and turns: two      *)
(* agents name one sandbox only where a restore broke off, a migration     *)
(* keeps what its tar took, and a rebootstrapped agent stays rewound.      *)
(***************************************************************************)
EXTENDS AgentLifecycle, FunctionTheorems, FiniteSetTheorems, TLAPS

-----------------------------------------------------------------------------
(* Types.                                                                  *)
Opt(S) == S \cup {None}

AgentCommands ==
  [op : Ops, at : Steps, who : Agents, old : Opt(Names), new : Opt(Names),
   tar : Opt(Stuffs), yaml : Opt(Yamls), flag : BOOLEAN]
HostCommands ==
  [op : {"up", "reload"}, at : {"launch", "codegen", "aggregator"}, who : {None},
   old : {None}, new : {None}, tar : {None}, yaml : {None}, flag : {FALSE}]

Runs == {"starting", "watching", "up"}
BotStates == [phase : {"off", "stopped"} \cup Runs, yaml : Opt(Yamls), seen : Opt(Yamls),
              got : {None, {TRUE}, {FALSE}}]
Bots == {t \in BotStates : t.phase \in Runs => t.yaml # None}

FilesTyped ==
  /\ dir \in [Agents -> Opt(Dirs)] /\ boxes \in [Names -> Opt(Stuffs)]
  /\ backups \in [Names -> [tar : Opt(Stuffs), yaml : Opt(Yamls)]]
  /\ half \subseteq Agents /\ rewound \subseteq Agents
ProcsTyped ==
  /\ conf \in Opt(SUBSET Agents) /\ procs \in Opt(SUBSET Agents)
  /\ bot \in [Agents -> Bots]
  /\ conf = None => procs = None
  /\ procs = None => \A a \in Agents : bot[a] = OffBot
CommandTyped ==
  /\ cmd \in Opt(AgentCommands \cup HostCommands)
  /\ clock \in [minute : 1 .. MaxMinutes, minted : Nat, given : Nat]
TypeOK == FilesTyped /\ ProcsTyped /\ CommandTyped

(* What a command knows of its agent at each of its steps.                 *)
Doing(op, steps) == cmd # None /\ cmd.op = op /\ cmd.at \in steps
There == dir[cmd.who] # None

InitKnows ==
  /\ Doing("init", {"create"}) => ~There
  /\ Doing("init", {"codegen", "secret"}) \/ Doing("home", {"codegen", "secret"}) => There
  /\ Doing("init", Steps) \/ Doing("home", Steps) => cmd.new \in Names /\ cmd.old \in Names
  /\ Doing("home", Steps) => cmd.who = Right
RestoreKnows ==
  Doing("restore", Steps) =>
    /\ cmd.new \in Names /\ cmd.new[1] = cmd.who
    /\ cmd.tar \in Stuffs /\ cmd.yaml \in Yamls
    /\ cmd.at = "copy" => ~There
    /\ cmd.at \in {"box", "upload", "name"} => There /\ cmd.who \in half \ rewound
MigrateKnows ==
  Doing("migrate", Steps) =>
    /\ There /\ cmd.new \in Names /\ cmd.new[1] = cmd.who /\ cmd.old \in Names
    /\ dir[cmd.who].box = (IF cmd.at = "delete" THEN cmd.new ELSE cmd.old)
    /\ cmd.at # "tar" => cmd.tar \in Stuffs
RebootstrapKnows ==
  Doing("rebootstrap", Steps) =>
    /\ There /\ cmd.old \in Names /\ dir[cmd.who].box = cmd.old
    /\ IF cmd.flag THEN procs # None ELSE conf = None
    /\ cmd.at # "stop" => bot[cmd.who] = (IF cmd.flag THEN StoppedBot ELSE OffBot)
    /\ cmd.at \in {"boot", "start"} => ~dir[cmd.who].identity
OthersKnow ==
  Doing("backup", Steps) \/ Doing("destroy", Steps) => cmd.old \in Names /\ cmd.new \in Names
CommandKnows == InitKnows /\ RestoreKnows /\ MigrateKnows /\ RebootstrapKnows /\ OthersKnow

(* An agent has a sandbox of its own, unless its restore broke off.        *)
OwnSandbox == \A a \in Agents : dir[a] # None /\ a \notin half => dir[a].box[1] = a

(* What the tar took is in the old sandbox, and then in the new one.       *)
Holds(b, tar) == boxes[b] # None /\ boxes[b].who = tar.who /\ boxes[b].work >= tar.work
Migrating == cmd # None /\ cmd.op = "migrate" /\ cmd.tar # None /\ cmd.new # cmd.old
MigrationSafe ==
  Migrating => /\ Holds(dir[cmd.who].box, cmd.tar)
               /\ cmd.at = "name" => Holds(cmd.new, cmd.tar)

(* Nothing that an agent may look at holds an identity.                    *)
RewoundInv ==
  \A a \in rewound :
    /\ dir[a] # None /\ ~dir[a].identity
    /\ ~Introduced(dir[a].box)
    /\ bot[a].yaml # None => ~Introduced(bot[a].yaml.box)
    /\ bot[a].got # {TRUE}
    /\ Doing("migrate", Steps) /\ cmd.who = a =>
         /\ cmd.tar # None => ~cmd.tar.identity
         /\ cmd.at = "name" => ~Introduced(cmd.new)

Correct == TypeOK /\ CommandKnows /\ OwnSandbox /\ MigrationSafe /\ RewoundInv

-----------------------------------------------------------------------------
(* Records.                                                                *)
LEMMA NoneIsNone ==
  /\ None \notin Names /\ None \notin Dirs /\ None \notin Yamls /\ None \notin Stuffs
  /\ None \notin Agents /\ None \notin SUBSET Agents /\ None # {TRUE} /\ None # {FALSE}
<1>1. {TRUE} \in SUBSET BOOLEAN /\ {FALSE} \in SUBSET BOOLEAN
  OBVIOUS
<1>2. QED  BY <1>1, NoneAssumption, BoundsAssumption

LEMMA CommandIsThere == None \notin AgentCommands
<1>1. AgentCommands \subseteq Commands
  BY DEF AgentCommands, Commands, Opt
<1>2. QED  BY <1>1, NoneAssumption

LEMMA DirFields ==
  ASSUME NEW d \in Dirs
  PROVE  /\ d.box \in Names /\ d.secret \in Nat /\ d.identity \in BOOLEAN /\ d.boot \in BOOLEAN
         /\ \A n \in Nat : /\ [d EXCEPT !.secret = n] \in Dirs
                           /\ [d EXCEPT !.secret = n].box = d.box
                           /\ [d EXCEPT !.secret = n].identity = d.identity
                           /\ [d EXCEPT !.secret = n].boot = d.boot
         /\ \A b \in Names : /\ [d EXCEPT !.box = b] \in Dirs /\ [d EXCEPT !.box = b].box = b
                             /\ [d EXCEPT !.box = b].identity = d.identity
                             /\ [d EXCEPT !.box = b].boot = d.boot
         /\ \A i \in BOOLEAN : /\ [d EXCEPT !.identity = i] \in Dirs
                               /\ [d EXCEPT !.identity = i].identity = i
                               /\ [d EXCEPT !.identity = i].box = d.box
                               /\ [d EXCEPT !.identity = i].boot = d.boot
         /\ \A i \in BOOLEAN : /\ [d EXCEPT !.boot = i] \in Dirs
                               /\ [d EXCEPT !.boot = i].boot = i
                               /\ [d EXCEPT !.boot = i].box = d.box
                               /\ [d EXCEPT !.boot = i].identity = d.identity
  BY DEF Dirs

LEMMA OffBotIs ==
  /\ OffBot \in Bots /\ OffBot.phase = "off" /\ OffBot.yaml = None /\ OffBot.got = None
  /\ StoppedBot \in Bots /\ StoppedBot.phase = "stopped" /\ StoppedBot.yaml = None
  /\ StoppedBot.got = None
  BY DEF OffBot, StoppedBot, Bots, BotStates, Runs, Opt

LEMMA Stamps ==
  ASSUME CommandTyped, NEW a \in Agents
  PROVE  /\ Default(a) \in Names /\ Stamped(a) \in Names
         /\ Default(a)[1] = a /\ Stamped(a)[1] = a
<1>1. clock.minute \in 0 .. MaxMinutes /\ 0 \in 0 .. MaxMinutes
  BY BoundsAssumption DEF CommandTyped
<1>2. QED  BY <1>1 DEF Default, Stamped, Names

LEMMA ACommand ==
  ASSUME NEW op \in Ops, NEW at \in Steps, NEW a \in Agents, NEW old \in Opt(Names),
         NEW new \in Opt(Names), NEW t \in Opt(Stuffs), NEW y \in Opt(Yamls),
         NEW f \in BOOLEAN, NEW c,
         c = [op |-> op, at |-> at, who |-> a, old |-> old, new |-> new,
              tar |-> t, yaml |-> y, flag |-> f]
  PROVE  /\ c \in AgentCommands
         /\ c.op = op /\ c.at = at /\ c.who = a /\ c.old = old /\ c.new = new
         /\ c.tar = t /\ c.yaml = y /\ c.flag = f
  BY DEF AgentCommands

LEMMA Moves ==
  ASSUME CommandTyped, cmd # None, cmd.op \in Ops, NEW at \in Steps, Goto(at)
  PROVE  /\ cmd \in AgentCommands /\ cmd' \in AgentCommands
         /\ cmd'.op = cmd.op /\ cmd'.at = at /\ cmd'.who = cmd.who /\ cmd'.old = cmd.old
         /\ cmd'.new = cmd.new /\ cmd'.tar = cmd.tar /\ cmd'.yaml = cmd.yaml
         /\ cmd'.flag = cmd.flag
<1>1. cmd \in AgentCommands
  BY DEF CommandTyped, Opt, HostCommands, Ops
<1>2. cmd' = [cmd EXCEPT !.at = at]
  BY DEF Goto
<1>3. QED  BY <1>1, <1>2 DEF AgentCommands

(* Secrets are new, and nothing else changes in the directories.           *)
SameDirs ==
  /\ dir' \in [Agents -> Opt(Dirs)]
  /\ \A a \in Agents : dir[a] # None =>
       /\ dir'[a] # None /\ dir'[a].box = dir[a].box
       /\ dir'[a].identity = dir[a].identity /\ dir'[a].boot = dir[a].boot
  /\ \A a \in Agents : dir[a] = None => dir'[a] = None

LEMMA MintedIs ==
  ASSUME FilesTyped, CommandTyped, NEW S, S \subseteq Discovered
  PROVE  /\ Cardinality(Lacking(S)) \in Nat
         /\ \A a \in Agents :
              IF a \in Lacking(S) THEN dir[a] # None /\ \E n \in Nat :
                                         Minted(S)[a] = [dir[a] EXCEPT !.secret = n]
              ELSE Minted(S)[a] = dir[a]
         /\ Minted(S) = [a \in Agents |-> Minted(S)[a]]
<1> DEFINE L == Lacking(S)
           n == Cardinality(L)
           m == clock.minted
           range == (m + 1) .. (m + n)
<1>1. L \subseteq Agents /\ L \subseteq Discovered
  BY DEF Lacking, Discovered
<1>2. IsFiniteSet(L) /\ n \in Nat /\ m \in Nat
  BY <1>1, BoundsAssumption, FS_Subset, FS_CardinalityType DEF CommandTyped
<1> HIDE DEF L, m
<1>3. \E f \in [L -> range] : \A a, b \in L : f[a] = f[b] => a = b
  <2>1. IsFiniteSet(range) /\ Cardinality(range) = n
    BY <1>2, FS_Interval, SMTT(30)
  <2>2. ExistsBijection(L, range)
    BY <1>2, <2>1, FS_SameCardinalityBij
  <2>3. PICK f : f \in Bijection(L, range)
    BY <2>2 DEF ExistsBijection
  <2>4. QED  BY <2>3 DEF Bijection, Injection, IsInjective
<1> DEFINE new == CHOOSE f \in [L -> range] : \A a, b \in L : f[a] = f[b] => a = b
<1>4. new \in [L -> range]
  BY <1>3
<1>5. \A a \in L : new[a] \in Nat
  BY <1>2, <1>4
<1>6. Minted(S) = [a \in Agents |-> IF a \in L THEN [dir[a] EXCEPT !.secret = new[a]]
                                    ELSE dir[a]]
  BY DEF Minted, L, m
<1> HIDE DEF new
<1>7. QED  BY <1>1, <1>2, <1>5, <1>6 DEF L, Discovered

LEMMA MintedSame ==
  ASSUME FilesTyped, CommandTyped, NEW S, S \subseteq Discovered, dir' = Minted(S)
  PROVE  SameDirs
<1>1. ASSUME NEW a \in Agents
      PROVE  /\ dir'[a] \in Opt(Dirs)
             /\ dir[a] = None => dir'[a] = None
             /\ dir[a] # None => /\ dir'[a] # None /\ dir'[a].box = dir[a].box
                                 /\ dir'[a].identity = dir[a].identity
                                 /\ dir'[a].boot = dir[a].boot
  <2>1. CASE a \in Lacking(S)
    <3>1. PICK n \in Nat : dir'[a] = [dir[a] EXCEPT !.secret = n]
      BY <2>1, MintedIs
    <3>2. dir[a] \in Dirs
      BY <2>1, MintedIs DEF FilesTyped, Opt
    <3>3. QED  BY <3>1, <3>2, DirFields, NoneIsNone DEF Opt
  <2>2. CASE a \notin Lacking(S)
    BY <2>2, MintedIs DEF FilesTyped
  <2>3. QED  BY <2>1, <2>2
<1>2. dir' = [a \in Agents |-> dir'[a]]
  BY MintedIs
<1>3. dir' \in [Agents -> Opt(Dirs)]
  BY <1>1, <1>2
<1>4. QED  BY <1>1, <1>3 DEF SameDirs

LEMMA CodegenKeeps ==
  ASSUME FilesTyped, CommandTyped, NEW S, S \subseteq Discovered, Codegen(S)
  PROVE  /\ SameDirs /\ conf' = S /\ S \subseteq Agents /\ S # None
         /\ clock' \in [minute : 1 .. MaxMinutes, minted : Nat, given : Nat]
<1>1. SameDirs
  BY MintedSame DEF Codegen
<1>2. clock' \in [minute : 1 .. MaxMinutes, minted : Nat, given : Nat]
  <2>1. Cardinality(Lacking(S)) \in Nat
    BY MintedIs
  <2>2. QED  BY <2>1 DEF Codegen, CommandTyped
<1>3. S \subseteq Agents /\ S # None /\ conf' = S
  BY NoneIsNone DEF Codegen, Discovered
<1>4. QED  BY <1>1, <1>2, <1>3

-----------------------------------------------------------------------------
(* What keeps each part of Correct.                                        *)
\* The directories stay, with their sandboxes, and the rewound ones rewound.
DirsCalm ==
  \A a \in Agents :
    /\ dir[a] = None => dir'[a] = None
    /\ dir[a] # None => dir'[a] # None /\ dir'[a].box = dir[a].box
    /\ a \in rewound /\ ~dir[a].identity => ~dir'[a].identity

LEMMA Unmoved ==
  ASSUME FilesTyped, UNCHANGED dir
  PROVE  SameDirs
  BY DEF SameDirs, FilesTyped

LEMMA SameIsCalm ==
  ASSUME FilesTyped, RewoundInv, SameDirs
  PROVE  DirsCalm
  BY DEF SameDirs, DirsCalm, RewoundInv, FilesTyped

\* A step that leaves the sandboxes, and of a directory what matters here.
BotsCalm ==
  \A a \in Agents : /\ \/ bot'[a].yaml \in {None, bot[a].yaml}
                       \/ dir[a] # None /\ bot'[a].yaml.box = dir[a].box
                    /\ bot'[a].got \in {None, bot[a].got}
CommandCalm ==
  \/ cmd' = None
  \/ cmd'.op # "migrate"
  \/ /\ cmd # None /\ cmd.op = "migrate" /\ cmd'.who = cmd.who /\ cmd'.old = cmd.old
     /\ cmd'.new = cmd.new /\ cmd'.tar = cmd.tar /\ cmd'.at \in Steps
     /\ cmd'.at = "name" => cmd.at = "name"

LEMMA CommandIs ==
  ASSUME CommandTyped, cmd # None, cmd.op \in Ops
  PROVE  /\ cmd \in AgentCommands /\ cmd.at \in Steps /\ cmd.who \in Agents
         /\ cmd.old \in Opt(Names) /\ cmd.new \in Opt(Names) /\ cmd.tar \in Opt(Stuffs)
         /\ cmd.yaml \in Opt(Yamls) /\ cmd.flag \in BOOLEAN /\ Doing(cmd.op, Steps)
<1>1. cmd \in AgentCommands
  BY DEF CommandTyped, Opt, HostCommands, Ops
<1>2. QED  BY <1>1 DEF AgentCommands, Doing

LEMMA Calm ==
  ASSUME Correct, DirsCalm, UNCHANGED <<boxes, half, rewound>>, BotsCalm, CommandCalm
  PROVE  OwnSandbox' /\ MigrationSafe' /\ RewoundInv'
<1>1. OwnSandbox'
  BY DEF Correct, OwnSandbox, DirsCalm
<1>2. MigrationSafe'
  <2>1. SUFFICES ASSUME Migrating'
                 PROVE  /\ Holds(dir[cmd.who].box, cmd.tar)'
                        /\ cmd'.at = "name" => Holds(cmd.new, cmd.tar)'
    BY DEF MigrationSafe
  <2>2. /\ cmd # None /\ cmd.op = "migrate" /\ cmd'.who = cmd.who
        /\ cmd'.new = cmd.new /\ cmd'.old = cmd.old /\ cmd'.tar = cmd.tar
        /\ cmd'.at = "name" => cmd.at = "name"
    BY <2>1 DEF Migrating, CommandCalm
  <2>3. cmd.who \in Agents /\ dir[cmd.who] # None
    BY <2>2, CommandIs DEF Correct, TypeOK, CommandKnows, MigrateKnows, There, Ops
  <2>4. Migrating
    BY <2>1, <2>2 DEF Migrating
  <2>5. dir'[cmd'.who].box = dir[cmd.who].box
    BY <2>2, <2>3 DEF DirsCalm
  <2>6. QED  BY <2>2, <2>4, <2>5 DEF Correct, MigrationSafe, Holds
<1>3. RewoundInv'
  <2>1. SUFFICES ASSUME NEW a \in rewound
                 PROVE  /\ dir'[a] # None /\ ~dir'[a].identity
                        /\ ~Introduced(dir[a].box)'
                        /\ bot'[a].yaml # None => ~Introduced(bot[a].yaml.box)'
                        /\ bot'[a].got # {TRUE}
                        /\ Doing("migrate", Steps)' /\ cmd'.who = a =>
                             /\ cmd'.tar # None => ~cmd'.tar.identity
                             /\ cmd'.at = "name" => ~Introduced(cmd.new)'
    BY DEF RewoundInv
  <2>2. /\ a \in Agents
        /\ dir[a] # None /\ ~dir[a].identity
        /\ ~Introduced(dir[a].box)
        /\ bot[a].yaml # None => ~Introduced(bot[a].yaml.box)
        /\ bot[a].got # {TRUE}
        /\ Doing("migrate", Steps) /\ cmd.who = a =>
             /\ cmd.tar # None => ~cmd.tar.identity
             /\ cmd.at = "name" => ~Introduced(cmd.new)
    BY DEF Correct, RewoundInv, TypeOK, FilesTyped
  <2>3. dir'[a] # None /\ ~dir'[a].identity /\ dir'[a].box = dir[a].box
    BY <2>2 DEF DirsCalm
  <2>4. \A b : Introduced(b)' <=> Introduced(b)
    BY DEF Introduced
  <2>5. bot'[a].got # {TRUE}
    BY <2>2, NoneIsNone DEF BotsCalm, Correct, TypeOK, ProcsTyped, Bots, BotStates
  <2>6. bot'[a].yaml # None => ~Introduced(bot[a].yaml.box)'
    BY <2>2, <2>4 DEF BotsCalm
  <2>7. ASSUME Doing("migrate", Steps)', cmd'.who = a
        PROVE  /\ cmd'.tar # None => ~cmd'.tar.identity
               /\ cmd'.at = "name" => ~Introduced(cmd.new)'
    <3>1. /\ cmd # None /\ cmd.op = "migrate" /\ cmd'.who = cmd.who
          /\ cmd'.new = cmd.new /\ cmd'.tar = cmd.tar
          /\ cmd'.at = "name" => cmd.at = "name"
      BY <2>7 DEF Doing, CommandCalm
    <3>2. Doing("migrate", Steps)
      BY <3>1, CommandIs DEF Correct, TypeOK, Ops
    <3>3. QED  BY <2>2, <2>4, <2>7, <3>1, <3>2
  <2>8. QED  BY <2>2, <2>3, <2>4, <2>5, <2>6, <2>7
<1>4. QED  BY <1>1, <1>2, <1>3

\* A step beside the command: it knows what it knew.
LEMMA KnowsStays ==
  ASSUME TypeOK, CommandKnows, UNCHANGED <<cmd, half, conf, procs>>, rewound' \subseteq rewound,
         \A a \in Agents : /\ dir[a] # None => dir'[a] # None /\ dir'[a].box = dir[a].box
                           /\ dir[a] = None => dir'[a] = None
                           /\ conf = None \/ bot[a].phase = "stopped" =>
                                bot'[a] = bot[a] /\ (dir'[a].identity => dir[a].identity)
  PROVE  CommandKnows'
<1>1. CASE cmd = None
  BY <1>1 DEF CommandKnows, InitKnows, RestoreKnows, MigrateKnows, RebootstrapKnows, OthersKnow,
              Doing
<1>2. CASE cmd # None /\ cmd.op \notin Ops
  BY <1>2 DEF CommandKnows, InitKnows, RestoreKnows, MigrateKnows, RebootstrapKnows, OthersKnow,
              Doing, Ops
<1>3. CASE cmd # None /\ cmd.op \in Ops
  <2>1. cmd.who \in Agents /\ cmd' = cmd
    BY <1>3, CommandIs DEF TypeOK
  <2> DEFINE w == cmd.who
  <2>2. /\ There' <=> There
        /\ There => dir'[w].box = dir[w].box
        /\ conf = None \/ bot[w].phase = "stopped" =>
                                bot'[w] = bot[w] /\ (dir'[w].identity => dir[w].identity)
    BY <2>1 DEF There
  <2>3. \A op, steps : Doing(op, steps)' <=> Doing(op, steps)
    BY <2>1 DEF Doing
  <2>4. InitKnows'
    BY <2>1, <2>2, <2>3 DEF CommandKnows, InitKnows
  <2>5. RestoreKnows'
    BY <2>1, <2>2, <2>3 DEF CommandKnows, RestoreKnows
  <2>6. MigrateKnows'
    BY <2>1, <2>2, <2>3 DEF CommandKnows, MigrateKnows
  <2>7. RebootstrapKnows'
    <3>1. SUFFICES ASSUME Doing("rebootstrap", Steps)
                   PROVE  RebootstrapKnows'
      BY <2>3 DEF RebootstrapKnows
    <3>2. /\ There /\ cmd.old \in Names /\ dir[w].box = cmd.old
          /\ IF cmd.flag THEN procs # None ELSE conf = None
          /\ cmd.at # "stop" => bot[w] = (IF cmd.flag THEN StoppedBot ELSE OffBot)
          /\ cmd.at \in {"boot", "start"} => ~dir[w].identity
      BY <3>1 DEF CommandKnows, RebootstrapKnows
    <3>3. cmd.at # "stop" => conf = None \/ bot[w].phase = "stopped"
      BY <3>2, OffBotIs
    <3>4. QED  BY <2>1, <2>2, <3>2, <3>3 DEF RebootstrapKnows
  <2>8. OthersKnow'
    BY <2>1, <2>3 DEF CommandKnows, OthersKnow
  <2>9. QED  BY <2>4, <2>5, <2>6, <2>7, <2>8 DEF CommandKnows
<1>4. QED  BY <1>1, <1>2, <1>3

LEMMA CommandSame ==
  ASSUME UNCHANGED cmd, CommandTyped, NEW x, x = cmd
  PROVE  CommandCalm
  BY CommandIs DEF CommandCalm, Ops

LEMMA OneBot ==
  ASSUME ProcsTyped, NEW a \in Agents, NEW x \in Bots, bot' = [bot EXCEPT ![a] = x],
         UNCHANGED <<conf, procs>>, procs # None
  PROVE  /\ ProcsTyped' /\ bot'[a] = x
         /\ \A b \in Agents : b # a => bot'[b] = bot[b]
<1>1. bot' \in [Agents -> Bots] /\ bot'[a] = x /\ \A b \in Agents : b # a => bot'[b] = bot[b]
  BY DEF ProcsTyped
<1>2. QED  BY <1>1 DEF ProcsTyped

LEMMA BotRuns ==
  ASSUME ProcsTyped, NEW a \in Agents, bot[a].phase \in Runs
  PROVE  /\ procs # None /\ conf # None
         /\ bot[a] \in Bots /\ bot[a].phase # "stopped"
  BY OffBotIs DEF ProcsTyped, Runs

LEMMA BotQuiet ==
  ASSUME Correct, NEW a \in Agents, NEW x \in Bots, bot' = [bot EXCEPT ![a] = x],
         bot[a].phase \in Runs,
         x.yaml \in {None, bot[a].yaml}, x.got \in {None, bot[a].got},
         UNCHANGED <<dir, boxes, backups, conf, procs, cmd, clock, half, rewound>>
  PROVE  Correct'
<1>1. TypeOK'
  BY BotRuns, OneBot DEF Correct, TypeOK, FilesTyped, CommandTyped
<1>2. BotsCalm
  BY BotRuns, OneBot DEF BotsCalm, Correct, TypeOK
<1>3. OwnSandbox' /\ MigrationSafe' /\ RewoundInv'
  BY <1>2, Calm, CommandSame, Unmoved, SameIsCalm DEF Correct, TypeOK
<1>4. CommandKnows'
  BY KnowsStays, BotRuns, OneBot DEF Correct, TypeOK
<1>5. QED  BY <1>1, <1>3, <1>4 DEF Correct

-----------------------------------------------------------------------------
(* The bots.                                                               *)
LEMMA YamlIs ==
  ASSUME FilesTyped, NEW a \in Agents
  PROVE  /\ Yaml(a) \in Opt(Yamls)
         /\ dir[a] # None => /\ dir[a] \in Dirs
                             /\ [box |-> dir[a].box, secret |-> dir[a].secret] \in Yamls
<1>1. dir[a] \in Opt(Dirs)
  BY DEF FilesTyped
<1>2. CASE dir[a] = None
  BY <1>2 DEF Yaml, Opt
<1>3. CASE dir[a] # None
  <2>1. dir[a] \in Dirs
    BY <1>1, <1>3 DEF Opt
  <2>2. [box |-> dir[a].box, secret |-> dir[a].secret] \in Yamls
    BY <2>1 DEF Dirs, Yamls
  <2>3. QED  BY <1>3, <2>1, <2>2 DEF Yaml, Opt
<1>4. QED  BY <1>2, <1>3

LEMMA BotFields ==
  ASSUME NEW t \in Bots, t.phase \in Runs, NEW y \in Opt(Yamls)
  PROVE  /\ \A p \in {"watching", "up"} :
              /\ [t EXCEPT !.phase = p] \in Bots /\ [t EXCEPT !.phase = p].yaml = t.yaml
              /\ [t EXCEPT !.phase = p].got = t.got
              /\ [t EXCEPT !.phase = p, !.seen = y] \in Bots
              /\ [t EXCEPT !.phase = p, !.seen = y].yaml = t.yaml
              /\ [t EXCEPT !.phase = p, !.seen = y].got = t.got
         /\ \A g \in {None, {TRUE}, {FALSE}} :
              /\ [t EXCEPT !.got = g] \in Bots /\ [t EXCEPT !.got = g].yaml = t.yaml
              /\ [t EXCEPT !.got = g].got = g
  BY DEF Bots, BotStates, Runs

LEMMA WatchKeeps ==
  ASSUME Correct, NEW a \in Agents,
         BotWatches(a) \/ BotConnects(a) \/ BotSeesChange(a) \/ BotDies(a)
  PROVE  Correct'
<1>1. bot \in [Agents -> Bots] /\ bot[a] \in Bots /\ FilesTyped
  BY DEF Correct, TypeOK, ProcsTyped
<1>2. CASE BotWatches(a)
  <2>1. bot' = [bot EXCEPT ![a] = [bot[a] EXCEPT !.phase = "watching", !.seen = Yaml(a)]]
    BY <1>1, <1>2 DEF BotWatches
  <2>2. QED  BY <1>1, <1>2, <2>1, BotQuiet, BotFields, YamlIs, ZenonT(30) DEF BotWatches, Runs
<1>3. CASE BotConnects(a)
  <2>1. CASE SandboxReady(bot[a].yaml.box)
    <3>1. bot' = [bot EXCEPT ![a] = [bot[a] EXCEPT !.phase = "up"]]
      BY <1>1, <1>3, <2>1 DEF BotConnects
    <3>2. None \in Opt(Yamls)
      BY DEF Opt
    <3>3. /\ [bot[a] EXCEPT !.phase = "up"] \in Bots
          /\ [bot[a] EXCEPT !.phase = "up"].yaml = bot[a].yaml
          /\ [bot[a] EXCEPT !.phase = "up"].got = bot[a].got
      BY <1>1, <1>3, <3>2, BotFields DEF BotConnects, Runs
    <3>4. QED  BY <1>1, <1>3, <3>1, <3>3, BotQuiet DEF BotConnects, Runs
  <2>2. CASE ~SandboxReady(bot[a].yaml.box)
    <3>1. bot' = [bot EXCEPT ![a] = OffBot]
      BY <1>1, <1>3, <2>2 DEF BotConnects
    <3>2. QED  BY <1>1, <1>3, <3>1, BotQuiet, OffBotIs DEF BotConnects, Runs
  <2>3. QED  BY <2>1, <2>2
<1>4. CASE BotSeesChange(a)
  BY <1>1, <1>4, BotQuiet, OffBotIs DEF BotSeesChange, Runs
<1>5. CASE BotDies(a)
  BY <1>1, <1>5, BotQuiet, OffBotIs DEF BotDies, Runs
<1>6. QED  BY <1>2, <1>3, <1>4, <1>5

LEMMA StartKeeps ==
  ASSUME Correct, NEW a \in Agents, BotStarts(a)
  PROVE  Correct'
<1>1. FilesTyped /\ CommandTyped /\ ProcsTyped /\ {a} \subseteq Discovered
  BY DEF Correct, TypeOK, BotStarts, Discovered
<1>2. SameDirs /\ Cardinality(Lacking({a})) \in Nat /\ UNCHANGED <<boxes, backups, half, rewound>>
  BY <1>1, MintedSame, MintedIs DEF BotStarts
<1>3. FilesTyped'
  BY <1>1, <1>2 DEF FilesTyped, SameDirs
<1>4. CommandTyped'
  BY <1>1, <1>2 DEF BotStarts, CommandTyped
<1>5. PICK t : t = [phase |-> "starting", got |-> None, seen |-> None,
                    yaml |-> [box |-> dir'[a].box, secret |-> dir'[a].secret]]
  OBVIOUS
<1>6. dir'[a] \in Dirs /\ dir[a] # None /\ dir'[a].box = dir[a].box
  BY <1>1, <1>2 DEF SameDirs, Opt, BotStarts
<1>7. t \in Bots /\ t.yaml.box = dir[a].box /\ t.got = None
  <2>1. PICK y : y = [box |-> dir'[a].box, secret |-> dir'[a].secret]
    OBVIOUS
  <2>2. y \in Yamls /\ y.box = dir[a].box
    BY <1>6, <2>1 DEF Dirs, Yamls
  <2>3. t = [phase |-> "starting", got |-> None, seen |-> None, yaml |-> y]
    BY <1>5, <2>1
  <2>4. QED  BY <2>2, <2>3, NoneIsNone DEF Bots, BotStates, Runs, Opt
<1>8. bot' = [bot EXCEPT ![a] = t] /\ UNCHANGED <<conf, procs, cmd>> /\ procs # None
  BY <1>5 DEF BotStarts, Running
<1>9. ProcsTyped' /\ bot'[a] = t /\ \A b \in Agents : b # a => bot'[b] = bot[b]
  BY <1>1, <1>7, <1>8, OneBot
<1>10. CommandKnows'
  <2>1. conf # None /\ bot[a].phase = "off"
    BY <1>1, <1>8 DEF ProcsTyped, BotStarts
  <2>2. QED  BY <1>2, <1>8, <1>9, <2>1, KnowsStays DEF Correct, TypeOK, SameDirs
<1>11. BotsCalm
  BY <1>6, <1>7, <1>9 DEF BotsCalm
<1>12. OwnSandbox' /\ MigrationSafe' /\ RewoundInv'
  BY <1>1, <1>2, <1>8, <1>11, Calm, CommandSame, SameIsCalm DEF Correct
<1>13. QED  BY <1>3, <1>4, <1>9, <1>10, <1>12 DEF Correct, TypeOK

\* A running bot reads a sandbox that has a name.
LEMMA BotReads ==
  ASSUME TypeOK, NEW a \in Agents, bot[a].phase \in Runs
  PROVE  bot[a].yaml \in Yamls /\ bot[a].yaml.box \in Names /\ bot[a].yaml # None
  BY DEF TypeOK, ProcsTyped, Bots, BotStates, Opt, Yamls

LEMMA TurnKeeps ==
  ASSUME Correct, NEW a \in Agents, Turn(a)
  PROVE  Correct'
<1> DEFINE b == bot[a].yaml.box
           onboards == dir[a] # None /\ dir[a].boot
<1>1. /\ b \in Names /\ boxes \in [Names -> Opt(Stuffs)] /\ boxes[b] \in Stuffs
      /\ rewound \subseteq Agents /\ onboards \in BOOLEAN
  <2>1. b \in Names
    BY BotReads DEF Turn, Runs, Correct
  <2>2. dir[a] # None => dir[a].boot \in BOOLEAN
    BY YamlIs, DirFields DEF Correct, TypeOK
  <2>3. QED  BY <2>1, <2>2 DEF Turn, Correct, TypeOK, FilesTyped, Opt
<1>2. PICK s : s = [boxes[b] EXCEPT !.work = @ + 1, !.identity = @ \/ onboards]
  OBVIOUS
<1>3. /\ s \in Stuffs /\ s.who = boxes[b].who /\ s.work >= boxes[b].work
      /\ s.identity <=> boxes[b].identity \/ onboards
  <2>1. PICK i \in BOOLEAN : i = (boxes[b].identity \/ onboards)
    OBVIOUS
  <2>2. s = [boxes[b] EXCEPT !.work = @ + 1, !.identity = i]
    BY <1>2, <2>1
  <2>3. PICK u \in Stuffs : u = boxes[b]
    BY <1>1
  <2>4. s = [who |-> u.who, work |-> u.work + 1, identity |-> i]
    BY <2>2, <2>3 DEF Stuffs
  <2>5. s \in Stuffs /\ s.who = u.who /\ s.work >= u.work /\ s.identity = i
    BY <2>1, <2>3, <2>4 DEF Stuffs
  <2>6. QED  BY <2>1, <2>3, <2>5
<1>4. boxes' = [boxes EXCEPT ![b] = s] /\ UNCHANGED <<dir, backups, conf, procs, bot, cmd, clock, half>>
  BY <1>1, <1>2 DEF Turn
<1>5. rewound' = IF onboards THEN RewoundBut(b) ELSE rewound
  BY DEF Turn
<1> HIDE DEF b, onboards
<1>6. boxes' \in [Names -> Opt(Stuffs)] /\ boxes'[b] = s /\ \A c \in Names \ {b} : boxes'[c] = boxes[c]
  BY <1>1, <1>3, <1>4 DEF Opt
<1>7. rewound' \subseteq rewound
  BY <1>5 DEF RewoundBut
<1>8. TypeOK'
  BY <1>1, <1>4, <1>6, <1>7 DEF Correct, TypeOK, FilesTyped, ProcsTyped, CommandTyped
<1>9. CommandKnows'
  BY <1>4, <1>7, KnowsStays DEF Correct
<1>10. OwnSandbox'
  BY <1>4 DEF Correct, OwnSandbox
<1>11. MigrationSafe'
  <2>1. ASSUME NEW c \in Names, NEW tar \in Stuffs, Holds(c, tar)
        PROVE  Holds(c, tar)'
    <3>1. boxes[c] \in Stuffs /\ boxes'[c] \in Stuffs /\ boxes'[c] # None
      <4>1. CASE c = b
        BY <1>1, <1>3, <1>6, <4>1, NoneIsNone
      <4>2. CASE c # b
        BY <1>1, <1>6, <2>1, <4>2 DEF Holds, Opt
      <4>3. QED  BY <4>1, <4>2
    <3>2. boxes'[c].who = boxes[c].who /\ boxes'[c].work >= boxes[c].work
      BY <1>3, <1>6, <3>1 DEF Stuffs
    <3>3. tar.work \in Nat /\ boxes[c].work \in Nat /\ boxes'[c].work \in Nat
      BY <3>1 DEF Stuffs
    <3>4. QED  BY <2>1, <3>1, <3>2, <3>3 DEF Holds
  <2>2. CASE Migrating
    <3>1. cmd.who \in Agents /\ dir[cmd.who] # None /\ cmd.new \in Names /\ cmd.tar \in Stuffs
      BY <2>2, CommandIs DEF Migrating, Correct, TypeOK, CommandKnows, MigrateKnows, There, Ops, Opt
    <3>2. dir[cmd.who].box \in Names
      BY <3>1, YamlIs, DirFields DEF Correct, TypeOK
    <3>3. QED  BY <1>4, <2>1, <2>2, <3>1, <3>2 DEF Correct, MigrationSafe, Migrating
  <2>3. CASE ~Migrating
    BY <1>4, <2>3 DEF MigrationSafe, Migrating
  <2>4. QED  BY <2>2, <2>3
<1>12. RewoundInv'
  <2>1. SUFFICES ASSUME NEW r \in rewound'
                 PROVE  /\ dir[r] # None /\ ~dir[r].identity
                        /\ ~Introduced(dir[r].box)'
                        /\ bot[r].yaml # None => ~Introduced(bot[r].yaml.box)'
                        /\ bot[r].got # {TRUE}
                        /\ Doing("migrate", Steps) /\ cmd.who = r =>
                             /\ cmd.tar # None => ~cmd.tar.identity
                             /\ cmd.at = "name" => ~Introduced(cmd.new)'
    BY <1>4 DEF RewoundInv, Doing
  <2>2. /\ r \in rewound /\ r \in Agents
        /\ dir[r] # None /\ ~dir[r].identity
        /\ ~Introduced(dir[r].box)
        /\ bot[r].yaml # None => ~Introduced(bot[r].yaml.box)
        /\ bot[r].got # {TRUE}
        /\ Doing("migrate", Steps) /\ cmd.who = r =>
             /\ cmd.tar # None => ~cmd.tar.identity
             /\ cmd.at = "name" => ~Introduced(cmd.new)
    BY <1>1, <1>7 DEF Correct, RewoundInv
  <2>3. ASSUME NEW c \in Names, ~Introduced(c), onboards => c # b
        PROVE  ~Introduced(c)'
    BY <1>1, <1>3, <1>6, <2>3, NoneIsNone DEF Introduced
  <2>4. onboards => /\ dir[r].box # b
                    /\ bot[r].yaml # None => bot[r].yaml.box # b
                    /\ Doing("migrate", Steps) /\ cmd.who = r => cmd.new # b
    BY <1>5, <2>2 DEF RewoundBut, Uses, Doing
  <2>5. /\ dir[r].box \in Names
        /\ bot[r].yaml # None => bot[r].yaml.box \in Names
        /\ Doing("migrate", Steps) => cmd.new \in Names
    <3>1. dir[r].box \in Names
      BY <2>2, YamlIs, DirFields DEF Correct, TypeOK
    <3>2. bot[r].yaml # None => bot[r].yaml.box \in Names
      BY <2>2 DEF Correct, TypeOK, ProcsTyped, Bots, BotStates, Opt, Yamls
    <3>3. QED  BY <3>1, <3>2 DEF Correct, CommandKnows, MigrateKnows
  <2>6. ~Introduced(dir[r].box)'
    BY <1>4, <2>2, <2>3, <2>4, <2>5
  <2>7. bot[r].yaml # None => ~Introduced(bot[r].yaml.box)'
    BY <1>4, <2>2, <2>3, <2>4, <2>5
  <2>8. Doing("migrate", Steps) /\ cmd.who = r /\ cmd.at = "name" => ~Introduced(cmd.new)'
    BY <1>4, <2>2, <2>3, <2>4, <2>5
  <2>9. QED  BY <2>2, <2>6, <2>7, <2>8
<1>13. QED  BY <1>8, <1>9, <1>10, <1>11, <1>12 DEF Correct

LEMMA FetchKeeps ==
  ASSUME Correct, NEW a \in Agents, SyncFetches(a)
  PROVE  Correct'
<1> DEFINE b == bot[a].yaml.box
<1>1. /\ b \in Names /\ boxes[b] \in Stuffs /\ bot[a].yaml # None
      /\ procs # None /\ conf # None /\ bot[a] \in Bots /\ bot[a].phase \in Runs
      /\ bot[a].phase # "stopped" /\ ProcsTyped
  BY BotReads, BotRuns DEF SyncFetches, Runs, Correct, TypeOK, FilesTyped, Opt
<1>2. PICK i \in BOOLEAN : i = boxes[b].identity
  BY <1>1 DEF Stuffs
<1>3. PICK t : t = [bot[a] EXCEPT !.got = {i}]
  OBVIOUS
<1>4. t \in Bots /\ t.yaml = bot[a].yaml /\ t.got = {i}
  <2>1. None \in Opt(Yamls) /\ {i} \in {None, {TRUE}, {FALSE}}
    BY <1>2 DEF Opt
  <2>2. QED  BY <1>1, <1>3, <2>1, BotFields
<1>5. /\ bot' = [bot EXCEPT ![a] = t]
      /\ UNCHANGED <<dir, boxes, backups, conf, procs, cmd, clock, half, rewound>>
  BY <1>1, <1>2, <1>3 DEF SyncFetches, ProcsTyped
<1>6. ProcsTyped' /\ bot'[a] = t /\ \A c \in Agents : c # a => bot'[c] = bot[c]
  BY <1>1, <1>4, <1>5, OneBot
<1>7. TypeOK'
  BY <1>5, <1>6 DEF Correct, TypeOK, FilesTyped, CommandTyped
<1>8. CommandKnows'
  BY <1>1, <1>5, <1>6, KnowsStays DEF Correct
<1>9. OwnSandbox' /\ MigrationSafe'
  BY <1>5 DEF Correct, OwnSandbox, MigrationSafe, Migrating, Holds
<1>10. RewoundInv'
  <2>1. \A c : Introduced(c)' <=> Introduced(c)
    BY <1>5 DEF Introduced
  <2>2. a \in rewound => i = FALSE
    BY <1>1, <1>2, NoneIsNone DEF Correct, RewoundInv, Introduced
  <2>3. \A r \in rewound : bot'[r].got # {TRUE} /\ bot'[r].yaml = bot[r].yaml
    BY <1>1, <1>4, <1>6, <2>2 DEF Correct, RewoundInv, TypeOK, FilesTyped
  <2>4. QED  BY <1>5, <2>1, <2>3 DEF Correct, RewoundInv, Doing
<1>11. QED  BY <1>7, <1>8, <1>9, <1>10 DEF Correct

\* Of directory a only what the onboarding asks for changes.
LEMMA DirKeeps ==
  ASSUME Correct, NEW a \in Agents, dir[a] # None, NEW d \in Dirs,
         dir' = [dir EXCEPT ![a] = d], d.box = dir[a].box,
         a \in rewound => ~d.identity
  PROVE  /\ DirsCalm /\ dir' \in [Agents -> Opt(Dirs)]
         /\ \A c \in Agents : /\ dir[c] # None => dir'[c] # None /\ dir'[c].box = dir[c].box
                              /\ dir[c] = None => dir'[c] = None
                              /\ c # a => dir'[c] = dir[c]
<1>1. dir' \in [Agents -> Opt(Dirs)] /\ dir'[a] = d /\ \A c \in Agents : c # a => dir'[c] = dir[c]
  BY DEF Correct, TypeOK, FilesTyped, Opt
<1>2. QED  BY <1>1, NoneIsNone DEF DirsCalm

LEMMA StoreKeeps ==
  ASSUME Correct, NEW a \in Agents, SyncStores(a)
  PROVE  Correct'
<1>1. /\ procs # None /\ conf # None /\ bot[a] \in Bots /\ bot[a].phase \in Runs
      /\ bot[a].phase # "stopped" /\ ProcsTyped /\ FilesTyped
  BY BotRuns DEF SyncStores, Runs, Correct, TypeOK
<1>2. PICK i \in BOOLEAN : i = (TRUE \in bot[a].got)
  <2>1. (TRUE \in bot[a].got) \in BOOLEAN
    BY SMT
  <2>2. QED  BY <2>1, Zenon
<1>3. PICK t : t = [bot[a] EXCEPT !.got = None]
  OBVIOUS
<1>4. t \in Bots /\ t.yaml = bot[a].yaml /\ t.got = None
  <2>1. None \in Opt(Yamls) /\ None \in {None, {TRUE}, {FALSE}}
    BY DEF Opt
  <2>2. QED  BY <1>1, <1>3, <2>1, BotFields
<1>5. /\ bot' = [bot EXCEPT ![a] = t]
      /\ UNCHANGED <<boxes, backups, conf, procs, cmd, clock, half, rewound>>
  BY <1>1, <1>3 DEF SyncStores, ProcsTyped
<1>6. ProcsTyped' /\ bot'[a] = t /\ \A c \in Agents : c # a => bot'[c] = bot[c]
  BY <1>1, <1>4, <1>5, OneBot
<1>7. /\ DirsCalm /\ dir' \in [Agents -> Opt(Dirs)]
      /\ \A c \in Agents : /\ dir[c] # None => dir'[c] # None /\ dir'[c].box = dir[c].box
                           /\ dir[c] = None => dir'[c] = None
                           /\ c # a => dir'[c] = dir[c]
  <2>1. CASE dir[a] = None
    <3>1. UNCHANGED dir
      BY <2>1 DEF SyncStores
    <3>2. QED  BY <1>1, <3>1 DEF DirsCalm, FilesTyped
  <2>2. CASE dir[a] # None
    <3>1. dir[a] \in Dirs
      BY <1>1, <2>2, YamlIs
    <3>2. PICK j \in BOOLEAN : j = (dir[a].boot /\ ~i)
      OBVIOUS
    <3>3. PICK d : d = [dir[a] EXCEPT !.identity = i, !.boot = j]
      OBVIOUS
    <3>4. d \in Dirs /\ d.box = dir[a].box /\ d.identity = i /\ d.boot = j
      <4>1. PICK e : e = [dir[a] EXCEPT !.identity = i]
        OBVIOUS
      <4>2. e \in Dirs /\ e.box = dir[a].box /\ e.identity = i
        BY <3>1, <4>1, DirFields
      <4>3. d = [e EXCEPT !.boot = j]
        BY <3>3, <4>1
      <4>4. QED  BY <4>2, <4>3, DirFields
    <3>5. dir' = [dir EXCEPT ![a] = d]
      BY <1>1, <1>2, <2>2, <3>2, <3>3 DEF SyncStores, FilesTyped
    <3>6. a \in rewound => ~d.identity
      <4>1. SUFFICES ASSUME a \in rewound  PROVE  i = FALSE
        BY <3>2, <3>4
      <4>2. bot[a].got \in {{TRUE}, {FALSE}} /\ bot[a].got # {TRUE}
        BY <1>1, <4>1 DEF SyncStores, Bots, BotStates, Correct, RewoundInv
      <4>3. QED  BY <1>2, <4>2
    <3>7. QED  BY <2>2, <3>4, <3>5, <3>6, DirKeeps
  <2>3. QED  BY <2>1, <2>2
<1>8. TypeOK'
  BY <1>5, <1>6, <1>7 DEF Correct, TypeOK, FilesTyped, CommandTyped
<1>9. CommandKnows'
  BY <1>1, <1>5, <1>6, <1>7, KnowsStays DEF Correct
<1>10. BotsCalm
  BY <1>4, <1>6 DEF BotsCalm
<1>11. OwnSandbox' /\ MigrationSafe' /\ RewoundInv'
  BY <1>5, <1>7, <1>10, Calm, CommandSame DEF Correct, TypeOK
<1>12. QED  BY <1>8, <1>9, <1>11 DEF Correct

LEMMA RemovesKeeps ==
  ASSUME Correct, DoneRemoves
  PROVE  Correct'
<1>1. PICK a : a = agg.call.who
  OBVIOUS
<1>2. PICK d : d = [dir[a] EXCEPT !.boot = FALSE]
  OBVIOUS
<1>3. /\ dir' = IF dir[a] = None THEN dir ELSE [dir EXCEPT ![a] = d]
      /\ UNCHANGED <<boxes, backups, conf, procs, bot, cmd, clock, half, rewound>>
  BY <1>1, <1>2 DEF DoneRemoves
<1>4. /\ DirsCalm /\ dir' \in [Agents -> Opt(Dirs)]
      /\ \A c \in Agents : /\ dir[c] # None => dir'[c] # None /\ dir'[c].box = dir[c].box
                           /\ dir[c] # None => dir'[c].identity = dir[c].identity
                           /\ dir[c] = None => dir'[c] = None
  <2>1. CASE dir[a] = None \/ a \notin Agents
    BY <1>3, <2>1 DEF DirsCalm, Correct, TypeOK, FilesTyped
  <2>2. CASE dir[a] # None /\ a \in Agents
    <3>1. dir[a] \in Dirs
      BY <2>2, YamlIs DEF Correct, TypeOK
    <3>2. d \in Dirs /\ d.box = dir[a].box /\ d.identity = dir[a].identity
      BY <1>2, <3>1, DirFields
    <3>3. dir' = [dir EXCEPT ![a] = d]
      BY <1>3, <2>2
    <3>4. a \in rewound => ~d.identity
      BY <3>2 DEF Correct, RewoundInv
    <3>5. DirsCalm /\ dir' \in [Agents -> Opt(Dirs)]
      BY <2>2, <3>2, <3>3, <3>4, DirKeeps
    <3>6. dir'[a] = d /\ \A c \in Agents : c # a => dir'[c] = dir[c]
      BY <2>2, <3>3 DEF Correct, TypeOK, FilesTyped
    <3>7. QED  BY <2>2, <3>2, <3>5, <3>6, NoneIsNone
  <2>3. QED  BY <2>1, <2>2
<1>5. TypeOK'
  BY <1>3, <1>4 DEF Correct, TypeOK, FilesTyped, ProcsTyped, CommandTyped
<1>6. CommandKnows'
  BY <1>3, <1>4, KnowsStays DEF Correct
<1>7. OwnSandbox' /\ MigrationSafe' /\ RewoundInv'
  BY <1>3, <1>4, Calm, CommandSame DEF Correct, TypeOK, BotsCalm
<1>8. QED  BY <1>5, <1>6, <1>7 DEF Correct

-----------------------------------------------------------------------------
(* right up, down and reload, and what happens beside the commands.        *)
LEMMA NothingToKnow ==
  ASSUME cmd' = None \/ cmd'.op \in {"up", "reload"}
  PROVE  CommandKnows' /\ CommandCalm
  BY DEF CommandKnows, InitKnows, RestoreKnows, MigrateKnows, RebootstrapKnows, OthersKnow, Doing,
         CommandCalm

LEMMA HostCommand ==
  ASSUME NEW op \in {"up", "reload"}, NEW at \in {"launch", "codegen", "aggregator"}, NEW c,
         c = Command(op, at, None, None, None)
  PROVE  c \in HostCommands /\ c.op = op /\ c.at = at
<1>1. c = [op |-> op, at |-> at, who |-> None, old |-> None, new |-> None,
           tar |-> None, yaml |-> None, flag |-> FALSE]
  BY DEF Command
<1>2. QED  BY <1>1 DEF HostCommands

LEMMA Given ==
  ASSUME CommandTyped, NEW c, Give(c)
  PROVE  /\ cmd = None /\ cmd' = c /\ clock' \in [minute : 1 .. MaxMinutes, minted : Nat, given : Nat]
  BY DEF CommandTyped, Give

LEMMA BeforeGoto ==
  ASSUME CommandTyped, NEW op, NEW at, At(op, at)
  PROVE  cmd # None /\ cmd.op = op /\ cmd.at = at
  BY DEF At

LEMMA HostMoves ==
  ASSUME CommandTyped, At("reload", "codegen"), Goto("aggregator")
  PROVE  cmd' \in HostCommands /\ cmd'.op = "reload"
<1>1. cmd \in HostCommands
  BY DEF At, CommandTyped, Opt, AgentCommands, Ops
<1>2. QED  BY <1>1 DEF Goto, HostCommands, At

\* Steps that leave directories and sandboxes.
LEMMA HostQuiet ==
  ASSUME Correct, UNCHANGED <<dir, boxes, backups, half, rewound>>, ProcsTyped', BotsCalm,
         CommandTyped', CommandKnows', CommandCalm
  PROVE  Correct'
<1>1. TypeOK'
  BY DEF Correct, TypeOK, FilesTyped
<1>2. OwnSandbox' /\ MigrationSafe' /\ RewoundInv'
  BY Calm, Unmoved, SameIsCalm DEF Correct, TypeOK
<1>3. QED  BY <1>1, <1>2 DEF Correct

LEMMA BotsSame ==
  ASSUME UNCHANGED bot
  PROVE  BotsCalm
  BY DEF BotsCalm

LEMMA MinuteKeeps ==
  ASSUME Correct, Minute
  PROVE  Correct'
<1>1. ProcsTyped'
  BY DEF Minute, Correct, TypeOK, ProcsTyped
<1>2. CommandTyped'
  BY BoundsAssumption DEF Minute, Correct, TypeOK, CommandTyped
<1>3. CommandKnows' /\ CommandCalm
  BY KnowsStays, CommandSame DEF Minute, Correct, TypeOK
<1>4. QED  BY <1>1, <1>2, <1>3, HostQuiet, BotsSame DEF Minute

\* A call of bootstrap_done begins, finds the files, or fails.
LEMMA CallsKeep ==
  ASSUME Correct, (\E a \in Agents : DoneBegins(a)) \/ DoneChecks \/ DoneFails
  PROVE  Correct'
<1>1. UNCHANGED <<dir, boxes, backups, conf, procs, bot, cmd, clock, half, rewound>>
  BY DEF DoneBegins, DoneChecks, DoneFails
<1>2. ProcsTyped' /\ CommandTyped'
  BY <1>1 DEF Correct, TypeOK, ProcsTyped, CommandTyped
<1>3. QED  BY <1>1, <1>2, HostQuiet, KnowsStays, CommandSame, BotsSame DEF Correct, TypeOK

LEMMA EndKeeps ==
  ASSUME Correct, cmd' = None, UNCHANGED <<dir, boxes, backups, conf, clock, half, rewound>>,
         procs' \in {procs, conf, None}, BotsCalm,
         UNCHANGED bot \/ bot' = [a \in Agents |-> OffBot],
         procs' = None => procs = None \/ bot' = [a \in Agents |-> OffBot]
  PROVE  Correct'
<1>1. ProcsTyped'
  BY OffBotIs DEF Correct, TypeOK, ProcsTyped, Opt
<1>2. CommandTyped'
  BY DEF Correct, TypeOK, CommandTyped, Opt
<1>3. QED  BY <1>1, <1>2, HostQuiet, NothingToKnow

LEMMA HostKeeps ==
  ASSUME Correct, Interrupted \/ AggregatorRestarts \/ UpLaunch \/ ReloadAggregator
  PROVE  Correct'
<1>1. CASE Interrupted
  BY <1>1, EndKeeps, BotsSame DEF Interrupted, Finish
<1>2. CASE AggregatorRestarts
  <2>1. UNCHANGED <<dir, boxes, backups, conf, procs, bot, cmd, clock, half, rewound>>
    BY <1>2 DEF AggregatorRestarts
  <2>2. ProcsTyped' /\ CommandTyped'
    BY <2>1 DEF Correct, TypeOK, ProcsTyped, CommandTyped
  <2>3. QED  BY <2>1, <2>2, HostQuiet, KnowsStays, CommandSame, BotsSame DEF Correct, TypeOK
<1>3. CASE UpLaunch
  <2>1. UNCHANGED <<dir, boxes, backups, conf, bot, clock, half, rewound>> /\ cmd' = None
        /\ procs' = conf
    BY <1>3 DEF UpLaunch, Finish
  <2>2. procs' = None => procs = None
    BY <2>1 DEF Correct, TypeOK, ProcsTyped
  <2>3. QED  BY <2>1, <2>2, EndKeeps, BotsSame
<1>4. CASE ReloadAggregator
  <2>1. UNCHANGED <<dir, boxes, backups, conf, procs, bot, clock, half, rewound>> /\ cmd' = None
    BY <1>4 DEF ReloadAggregator, Finish
  <2>2. QED  BY <2>1, EndKeeps, BotsSame
<1>5. QED  BY <1>1, <1>2, <1>3, <1>4

LEMMA DownKeeps ==
  ASSUME Correct, Down
  PROVE  Correct'
<1>1. /\ cmd' = None /\ UNCHANGED <<dir, boxes, backups, conf, half, rewound>>
      /\ procs' = None /\ bot' = [a \in Agents |-> OffBot]
      /\ clock' \in [minute : 1 .. MaxMinutes, minted : Nat, given : Nat]
  BY Given DEF Down, Correct, TypeOK
<1>2. ProcsTyped'
  BY <1>1, OffBotIs DEF Correct, TypeOK, ProcsTyped, Opt
<1>3. CommandTyped'
  BY <1>1 DEF CommandTyped, Opt
<1>4. BotsCalm
  BY <1>1, OffBotIs DEF BotsCalm
<1>5. QED  BY <1>1, <1>2, <1>3, <1>4, HostQuiet, NothingToKnow

\* Codegen and a reload, or none, of process-compose.
LEMMA CodegenStep ==
  ASSUME Correct, NEW S, S \subseteq Discovered, Codegen(S),
         UNCHANGED <<boxes, backups, half, rewound>>, ProcsTyped', BotsCalm,
         cmd' \in Opt(AgentCommands \cup HostCommands), CommandCalm
  PROVE  TypeOK' /\ OwnSandbox' /\ MigrationSafe' /\ RewoundInv'
<1>1. /\ SameDirs /\ conf' = S
      /\ clock' \in [minute : 1 .. MaxMinutes, minted : Nat, given : Nat]
  BY CodegenKeeps DEF Correct, TypeOK
<1>2. TypeOK'
  BY <1>1 DEF Correct, TypeOK, FilesTyped, CommandTyped, SameDirs
<1>3. QED  BY <1>1, <1>2, Calm, SameIsCalm DEF Correct, TypeOK

LEMMA ReloadedProcs ==
  ASSUME Correct, NEW S, S \subseteq Discovered, Codegen(S), NEW R, ReloadProcs(R)
  PROVE  ProcsTyped' /\ BotsCalm
<1>1. conf' = S /\ S \subseteq Agents /\ S # None /\ procs' = S
  BY CodegenKeeps DEF Correct, TypeOK, ReloadProcs
<1>2. \A a \in Agents : bot'[a] \in {bot[a], OffBot}
  BY DEF ReloadProcs
<1>3. bot' = [a \in Agents |-> bot'[a]]
  BY DEF ReloadProcs
<1>4. bot' \in [Agents -> Bots]
  BY <1>2, <1>3, OffBotIs DEF Correct, TypeOK, ProcsTyped
<1>5. ProcsTyped'
  BY <1>1, <1>4 DEF ProcsTyped, Opt
<1>6. BotsCalm
  BY <1>2, OffBotIs DEF BotsCalm
<1>7. QED  BY <1>5, <1>6

LEMMA ReloadKeeps ==
  ASSUME Correct, ReloadStart \/ ReloadCodegen \/ \E S \in SUBSET Discovered : Up(S)
  PROVE  Correct'
<1>1. CASE ReloadStart
  <2>1. /\ cmd' = Command("reload", "codegen", None, None, None)
        /\ UNCHANGED <<dir, boxes, backups, conf, procs, bot, half, rewound>>
        /\ clock' \in [minute : 1 .. MaxMinutes, minted : Nat, given : Nat]
    BY <1>1, Given DEF ReloadStart, Correct, TypeOK
  <2>2. cmd' \in HostCommands /\ cmd'.op = "reload"
    BY <2>1, HostCommand
  <2>3. CommandTyped' /\ ProcsTyped'
    BY <2>1, <2>2 DEF CommandTyped, Opt, Correct, TypeOK, ProcsTyped
  <2>4. QED  BY <2>1, <2>2, <2>3, HostQuiet, NothingToKnow, BotsSame
<1>2. CASE ReloadCodegen
  <2>1. /\ Codegen(Discovered) /\ ReloadProcs({})
        /\ cmd' \in HostCommands /\ cmd'.op = "reload"
        /\ UNCHANGED <<boxes, backups, half, rewound>>
    BY <1>2, HostMoves DEF ReloadCodegen, Correct, TypeOK
  <2>2. ProcsTyped' /\ BotsCalm
    BY <2>1, ReloadedProcs
  <2>3. QED  BY <2>1, <2>2, CodegenStep, NothingToKnow DEF Correct, Opt
<1>3. ASSUME NEW S \in SUBSET Discovered, Up(S)
      PROVE  Correct'
  <2>1. /\ dir' = Minted(S) /\ conf' = S /\ procs = None
        /\ cmd' = Command("up", "launch", None, None, None)
        /\ UNCHANGED <<boxes, backups, procs, bot, half, rewound>>
    BY <1>3 DEF Up, Running
  <2>2. SameDirs /\ Cardinality(Lacking(S)) \in Nat /\ S \subseteq Agents /\ S # None
    BY <2>1, MintedSame, MintedIs, NoneIsNone DEF Correct, TypeOK, Discovered
  <2>3. clock' \in [minute : 1 .. MaxMinutes, minted : Nat, given : Nat]
    <3>1. PICK n \in Nat : n = Cardinality(Lacking(S))
      BY <2>2
    <3>2. clock' = [clock EXCEPT !.minted = @ + n, !.given = @ + 1]
      BY <1>3, <3>1 DEF Up
    <3>3. clock \in [minute : 1 .. MaxMinutes, minted : Nat, given : Nat]
      BY DEF Correct, TypeOK, CommandTyped
    <3>4. clock' = [minute |-> clock.minute, minted |-> clock.minted + n,
                    given |-> clock.given + 1]
      BY <3>2, <3>3
    <3>5. QED  BY <3>3, <3>4
  <2>4. cmd' \in HostCommands /\ cmd'.op = "up"
    BY <2>1, HostCommand
  <2>5. TypeOK'
    BY <2>1, <2>2, <2>3, <2>4
      DEF Correct, TypeOK, FilesTyped, ProcsTyped, CommandTyped, SameDirs, Opt
  <2>6. QED  BY <2>1, <2>2, <2>4, <2>5, Calm, SameIsCalm, BotsSame, NothingToKnow
               DEF Correct, TypeOK
<1>4. QED  BY <1>1, <1>2, <1>3

-----------------------------------------------------------------------------
(* The commands start.                                                     *)
LEMMA GiveKeeps ==
  ASSUME Correct, NEW c, c \in AgentCommands, Give(c),
         UNCHANGED <<dir, boxes, backups, conf, procs, bot, half, rewound>>,
         CommandKnows', CommandCalm
  PROVE  Correct'
<1>1. CommandTyped'
  BY Given DEF Correct, TypeOK, CommandTyped, Opt
<1>2. ProcsTyped'
  BY DEF Correct, TypeOK, ProcsTyped
<1>3. QED  BY <1>1, <1>2, HostQuiet, BotsSame

LEMMA DirIs ==
  ASSUME TypeOK, NEW a \in Agents, dir[a] # None
  PROVE  dir[a] \in Dirs /\ dir[a].box \in Names
  BY YamlIs, DirFields DEF TypeOK

\* A command of another kind than those named knows nothing of their lines.
LEMMA InitToKnow ==
  ASSUME cmd' \in AgentCommands, cmd'.op \in {"init", "home"}, cmd'.new \in Names,
         cmd'.old \in Names, cmd'.op = "home" => cmd'.who = Right,
         cmd'.op = "init" /\ cmd'.at = "create" => dir'[cmd'.who] = None,
         cmd'.at \in {"codegen", "secret"} => dir'[cmd'.who] # None
  PROVE  CommandKnows' /\ CommandCalm
  BY DEF CommandKnows, InitKnows, RestoreKnows, MigrateKnows, RebootstrapKnows, OthersKnow, Doing,
         CommandCalm, There

LEMMA OtherToKnow ==
  ASSUME cmd' \in AgentCommands, cmd'.op \in {"backup", "destroy"}, cmd'.new \in Names,
         cmd'.old \in Names
  PROVE  CommandKnows' /\ CommandCalm
  BY DEF CommandKnows, InitKnows, RestoreKnows, MigrateKnows, RebootstrapKnows, OthersKnow, Doing,
         CommandCalm

LEMMA InitStartKeeps ==
  ASSUME Correct, NEW a \in Agents, NEW fresh \in BOOLEAN, InitStart(a, fresh)
  PROVE  Correct'
<1> DEFINE at == IF dir[a] = None THEN "create" ELSE "wipe"
           old == IF dir[a] = None \/ fresh THEN Default(a) ELSE dir[a].box
<1>1. PICK f \in BOOLEAN : f = (dir[a] # None)
  OBVIOUS
<1>2. PICK c : c = [op |-> "init", at |-> at, who |-> a, old |-> old, new |-> Default(a),
                   tar |-> None, yaml |-> None, flag |-> f]
  OBVIOUS
<1>3. at \in Steps /\ old \in Opt(Names) /\ old \in Names /\ Default(a) \in Opt(Names)
      /\ Default(a) \in Names
  BY Stamps, DirIs DEF Correct, TypeOK, Steps, Opt
<1>4. c \in AgentCommands /\ c.op = "init" /\ c.at = at /\ c.who = a /\ c.old = old
      /\ c.new = Default(a)
  <2>1. "init" \in Ops /\ None \in Opt(Stuffs) /\ None \in Opt(Yamls)
    BY DEF Ops, Opt
  <2> HIDE DEF at, old
  <2>2. QED  BY <1>2, <1>3, <2>1, ACommand
<1>5. Give(c) /\ UNCHANGED <<dir, boxes, backups, conf, procs, bot, half, rewound>>
  BY <1>1, <1>2 DEF InitStart, Command
<1>6. cmd' = c
  BY <1>5 DEF Give
<1>7. CommandKnows' /\ CommandCalm
  BY <1>3, <1>4, <1>5, <1>6, InitToKnow
<1>8. QED  BY <1>4, <1>5, <1>7, GiveKeeps

LEMMA HomeStartKeeps ==
  ASSUME Correct, HomeStart
  PROVE  Correct'
<1>1. PICK c : c = [op |-> "home", at |-> "create", who |-> Right, old |-> Default(Right),
                   new |-> Default(Right), tar |-> None, yaml |-> None, flag |-> FALSE]
  OBVIOUS
<1> PICK f \in BOOLEAN : f = FALSE
  OBVIOUS
<1>2. Default(Right) \in Names /\ Default(Right) \in Opt(Names) /\ Right \in Agents
  BY Stamps, BoundsAssumption DEF Correct, TypeOK, Opt
<1>3. c \in AgentCommands /\ c.op = "home" /\ c.at = "create" /\ c.who = Right
      /\ c.old = Default(Right) /\ c.new = Default(Right)
  <2>1. "home" \in Ops /\ "create" \in Steps /\ None \in Opt(Stuffs) /\ None \in Opt(Yamls)
    BY DEF Ops, Steps, Opt
  <2>2. c = [op |-> "home", at |-> "create", who |-> Right, old |-> Default(Right),
             new |-> Default(Right), tar |-> None, yaml |-> None, flag |-> f]
    BY <1>1
  <2>3. QED  BY <1>2, <2>1, <2>2, ACommand
<1>4. Give(c) /\ UNCHANGED <<dir, boxes, backups, conf, procs, bot, half, rewound>>
  BY <1>1 DEF HomeStart, Command
<1>5. cmd' = c
  BY <1>4 DEF Give
<1>6. CommandKnows' /\ CommandCalm
  BY <1>2, <1>3, <1>5, InitToKnow
<1>7. QED  BY <1>3, <1>4, <1>6, GiveKeeps

LEMMA BackupGiven ==
  ASSUME Correct, NEW a \in Agents, NEW x \in BOOLEAN, dir[a] # None,
         NEW op \in {"backup", "destroy"}, NEW at \in {"tar", "stop"}, NEW c,
         c = [op |-> op, at |-> at, who |-> a, old |-> dir[a].box, new |-> Stamped(a),
              tar |-> None, yaml |-> None, flag |-> x],
         Give(c), UNCHANGED <<dir, boxes, backups, conf, procs, bot, half, rewound>>
  PROVE  Correct'
<1>1. /\ dir[a].box \in Names /\ dir[a].box \in Opt(Names)
      /\ Stamped(a) \in Names /\ Stamped(a) \in Opt(Names)
  BY Stamps, DirIs DEF Correct, TypeOK, Opt
<1>2. op \in Ops /\ at \in Steps /\ None \in Opt(Stuffs) /\ None \in Opt(Yamls)
  BY DEF Ops, Steps, Opt
<1>3. c \in AgentCommands /\ c.op = op /\ c.old = dir[a].box /\ c.new = Stamped(a)
  BY <1>1, <1>2, ACommand
<1>4. cmd' = c
  BY DEF Give
<1>5. CommandKnows' /\ CommandCalm
  BY <1>1, <1>3, <1>4, OtherToKnow
<1>6. QED  BY <1>3, <1>5, GiveKeeps

LEMMA BackupStartKeeps ==
  ASSUME Correct, NEW a \in Agents, NEW x \in BOOLEAN, BackupStart(a, x) \/ DestroyStart(a, x)
  PROVE  Correct'
<1>1. CASE BackupStart(a, x)
  <2>1. PICK c : c = [op |-> "backup", at |-> "tar", who |-> a, old |-> dir[a].box,
                      new |-> Stamped(a), tar |-> None, yaml |-> None, flag |-> x]
    OBVIOUS
  <2>2. Give(c) /\ UNCHANGED <<dir, boxes, backups, conf, procs, bot, half, rewound>>
        /\ dir[a] # None
    BY <1>1, <2>1 DEF BackupStart, Command
  <2>3. QED  BY <2>1, <2>2, BackupGiven
<1>2. CASE DestroyStart(a, x)
  <2>1. PICK c : c = [op |-> "destroy", at |-> "stop", who |-> a, old |-> dir[a].box,
                      new |-> Stamped(a), tar |-> None, yaml |-> None, flag |-> x]
    OBVIOUS
  <2>2. Give(c) /\ UNCHANGED <<dir, boxes, backups, conf, procs, bot, half, rewound>>
        /\ dir[a] # None
    BY <1>2, <2>1 DEF DestroyStart, Command
  <2>3. QED  BY <2>1, <2>2, BackupGiven
<1>3. QED  BY <1>1, <1>2

LEMMA RestoreToKnow ==
  ASSUME cmd' \in AgentCommands, cmd'.op = "restore", cmd'.new \in Names, cmd'.new[1] = cmd'.who,
         cmd'.tar \in Stuffs, cmd'.yaml \in Yamls,
         cmd'.at = "copy" => dir'[cmd'.who] = None,
         cmd'.at \in {"box", "upload", "name"} => dir'[cmd'.who] # None /\ cmd'.who \in half' \ rewound'
  PROVE  CommandKnows' /\ CommandCalm
  BY DEF CommandKnows, InitKnows, RestoreKnows, MigrateKnows, RebootstrapKnows, OthersKnow, Doing,
         CommandCalm, There

LEMMA RestorePlanned ==
  ASSUME Correct, NEW a \in Agents, NEW from \in Names, dir[a] = None,
         backups[from].tar # None, backups[from].yaml # None, NEW c,
         c = [op |-> "restore", at |-> "copy", who |-> a, old |-> from, new |-> Stamped(a),
              tar |-> backups[from].tar, yaml |-> backups[from].yaml, flag |-> FALSE]
  PROVE  /\ c \in AgentCommands
         /\ cmd' = c /\ UNCHANGED dir => CommandKnows' /\ CommandCalm
<1>1. backups[from].tar \in Stuffs /\ backups[from].yaml \in Yamls
  BY DEF Correct, TypeOK, FilesTyped, Opt
<1>2. Stamped(a) \in Names /\ Stamped(a)[1] = a /\ Stamped(a) \in Opt(Names) /\ from \in Opt(Names)
  BY Stamps DEF Correct, TypeOK, Opt
<1>3. "restore" \in Ops /\ "copy" \in Steps
  BY DEF Ops, Steps
<1>4. PICK t \in Stuffs, y \in Yamls : t = backups[from].tar /\ y = backups[from].yaml
  BY <1>1
<1>5. t \in Opt(Stuffs) /\ y \in Opt(Yamls)
  BY DEF Opt
<1>6. /\ c \in AgentCommands /\ c.op = "restore" /\ c.at = "copy" /\ c.who = a
      /\ c.new = Stamped(a) /\ c.tar = t /\ c.yaml = y
  <2>1. PICK f \in BOOLEAN : f = FALSE
    OBVIOUS
  <2>2. c = [op |-> "restore", at |-> "copy", who |-> a, old |-> from, new |-> Stamped(a),
             tar |-> t, yaml |-> y, flag |-> f]
    BY <1>4, <2>1
  <2>3. QED  BY <1>2, <1>3, <1>5, <2>2 DEF AgentCommands
<1>7. QED  BY <1>2, <1>6, RestoreToKnow

LEMMA RestoreStartKeeps ==
  ASSUME Correct, NEW a \in Agents, NEW from \in Names, RestoreStart(a, from)
  PROVE  Correct'
<1>1. PICK c : c = [op |-> "restore", at |-> "copy", who |-> a, old |-> from,
                   new |-> Stamped(a), tar |-> backups[from].tar,
                   yaml |-> backups[from].yaml, flag |-> FALSE]
  OBVIOUS
<1>2. Give(c) /\ UNCHANGED <<dir, boxes, backups, conf, procs, bot, half, rewound>>
      /\ dir[a] = None /\ backups[from].tar # None /\ backups[from].yaml # None
  <2>1. PICK t, y, f : t = backups[from].tar /\ y = backups[from].yaml /\ f = FALSE
    OBVIOUS
  <2>2. PICK e : e = [op |-> "restore", at |-> "copy", who |-> a, old |-> from,
                      new |-> Stamped(a), tar |-> None, yaml |-> None, flag |-> f]
    OBVIOUS
  <2>3. PICK g : g = [e EXCEPT !.tar = t]
    OBVIOUS
  <2>4. g = [op |-> "restore", at |-> "copy", who |-> a, old |-> from,
             new |-> Stamped(a), tar |-> t, yaml |-> None, flag |-> f]
    BY <2>2, <2>3
  <2>5. c = [g EXCEPT !.yaml = y]
    <3>1. c = [op |-> "restore", at |-> "copy", who |-> a, old |-> from,
               new |-> Stamped(a), tar |-> t, yaml |-> y, flag |-> f]
      BY <1>1, <2>1, Zenon
    <3>2. [g EXCEPT !.yaml = y] =
            [op |-> "restore", at |-> "copy", who |-> a, old |-> from,
             new |-> Stamped(a), tar |-> t, yaml |-> y, flag |-> f]
      BY <2>4
    <3>3. QED  BY <3>1, <3>2
  <2>6. c = [e EXCEPT !.tar = t, !.yaml = y]
    BY <2>3, <2>5
  <2>7. QED  BY <2>1, <2>2, <2>6 DEF RestoreStart, Command
<1>3. cmd' = c
  BY <1>2 DEF Give
<1>4. c \in AgentCommands /\ CommandKnows' /\ CommandCalm
  BY <1>1, <1>2, <1>3, RestorePlanned
<1>5. QED  BY <1>2, <1>4, GiveKeeps

LEMMA InitRestoresKeeps ==
  ASSUME Correct, NEW from \in Names, InitRestores(from)
  PROVE  Correct'
<1>1. cmd.op = "init" /\ cmd.at = "create" /\ cmd # None
  BY DEF InitRestores, At
<1>2. cmd.who \in Agents /\ dir[cmd.who] = None
  BY <1>1, CommandIs DEF Correct, TypeOK, CommandKnows, InitKnows, Doing, There, Ops
<1> DEFINE a == cmd.who
<1>3. PICK t, y, f : t = backups[from].tar /\ y = backups[from].yaml /\ f = FALSE
  OBVIOUS
<1>4. PICK c : c = [op |-> "restore", at |-> "copy", who |-> a, old |-> from,
                   new |-> Stamped(a), tar |-> t, yaml |-> y, flag |-> f]
  OBVIOUS
<1>5. c = [op |-> "restore", at |-> "copy", who |-> a, old |-> from, new |-> Stamped(a),
           tar |-> backups[from].tar, yaml |-> backups[from].yaml, flag |-> FALSE]
  BY <1>3, <1>4, Zenon
<1>6. PICK e : e = [op |-> "restore", at |-> "copy", who |-> a, old |-> from,
                   new |-> Stamped(a), tar |-> None, yaml |-> None, flag |-> f]
  OBVIOUS
<1> HIDE DEF a
<1>7. PICK g : g = [e EXCEPT !.tar = t]
  OBVIOUS
<1>8. g = [op |-> "restore", at |-> "copy", who |-> a, old |-> from,
           new |-> Stamped(a), tar |-> t, yaml |-> None, flag |-> f]
  BY <1>6, <1>7
<1>9. c = [g EXCEPT !.yaml = y]
  <2>1. [g EXCEPT !.yaml = y] =
          [op |-> "restore", at |-> "copy", who |-> a, old |-> from,
           new |-> Stamped(a), tar |-> t, yaml |-> y, flag |-> f]
    BY <1>8
  <2>2. QED  BY <1>4, <2>1
<1>10. c = [e EXCEPT !.tar = t, !.yaml = y]
  BY <1>7, <1>9
<1>11. /\ cmd' = c /\ backups[from].tar # None /\ backups[from].yaml # None
       /\ UNCHANGED <<dir, boxes, backups, conf, procs, bot, clock, half, rewound>>
  BY <1>3, <1>6, <1>10 DEF InitRestores, Command, a
<1>12. c \in AgentCommands /\ CommandKnows' /\ CommandCalm
  BY <1>2, <1>5, <1>11, RestorePlanned DEF a
<1>13. CommandTyped' /\ ProcsTyped'
  BY <1>11, <1>12 DEF Correct, TypeOK, CommandTyped, ProcsTyped, Opt
<1>14. QED  BY <1>11, <1>12, <1>13, HostQuiet, BotsSame

LEMMA MigrateStartKeeps ==
  ASSUME Correct, NEW a \in Agents, MigrateStart(a)
  PROVE  Correct'
<1>1. /\ dir[a] # None /\ dir[a].box \in Names /\ dir[a].box \in Opt(Names)
      /\ Stamped(a) \in Names /\ Stamped(a) \in Opt(Names) /\ Stamped(a)[1] = a
      /\ UNCHANGED <<dir, boxes, backups, conf, procs, bot, half, rewound>>
  BY Stamps, DirIs DEF MigrateStart, Correct, TypeOK, Opt
<1> PICK f \in BOOLEAN : f = FALSE
  OBVIOUS
<1>2. PICK c : c = [op |-> "migrate", at |-> "tar", who |-> a, old |-> dir[a].box,
                   new |-> Stamped(a), tar |-> None, yaml |-> None, flag |-> f]
  OBVIOUS
<1>3. Give(c)
  BY <1>2 DEF MigrateStart, Command
<1>4. "migrate" \in Ops /\ "tar" \in Steps /\ None \in Opt(Stuffs) /\ None \in Opt(Yamls)
  BY DEF Ops, Steps, Opt
<1>5. /\ c \in AgentCommands /\ c.op = "migrate" /\ c.at = "tar" /\ c.who = a
      /\ c.old = dir[a].box /\ c.new = Stamped(a) /\ c.tar = None
  BY <1>1, <1>2, <1>4, ACommand
<1>6. cmd = None /\ cmd' = c
  BY <1>3 DEF Give
<1>7. CommandKnows'
  BY <1>1, <1>5, <1>6 DEF CommandKnows, InitKnows, RestoreKnows, MigrateKnows, RebootstrapKnows,
                          OthersKnow, Doing, There
<1>8. TypeOK'
  <2>1. CommandTyped'
    BY <1>3, <1>5, <1>6, Given DEF Correct, TypeOK, CommandTyped, Opt
  <2>2. QED  BY <1>1, <2>1 DEF Correct, TypeOK, FilesTyped, ProcsTyped
<1>9. OwnSandbox' /\ MigrationSafe'
  BY <1>1, <1>5, <1>6 DEF Correct, OwnSandbox, MigrationSafe, Migrating
<1>10. RewoundInv'
  BY <1>1, <1>5, <1>6 DEF Correct, RewoundInv, Introduced, Doing
<1>11. QED  BY <1>7, <1>8, <1>9, <1>10 DEF Correct

LEMMA RebootstrapStartKeeps ==
  ASSUME Correct, NEW a \in Agents, RebootstrapStart(a)
  PROVE  Correct'
<1>1. /\ dir[a] # None /\ dir[a].box \in Names /\ dir[a].box \in Opt(Names)
      /\ UNCHANGED <<dir, boxes, backups, conf, procs, bot, half, rewound>>
  BY DirIs DEF RebootstrapStart, Correct, TypeOK, Opt
<1>2. PICK f \in BOOLEAN : f = (conf # None)
  OBVIOUS
<1>3. PICK c : c = [op |-> "rebootstrap", at |-> "stop", who |-> a, old |-> dir[a].box,
                   new |-> None, tar |-> None, yaml |-> None, flag |-> f]
  OBVIOUS
<1>4. Give(c)
  BY <1>2, <1>3 DEF RebootstrapStart, RebootstrapPlan, Command
<1>5. /\ "rebootstrap" \in Ops /\ "stop" \in Steps /\ None \in Opt(Stuffs) /\ None \in Opt(Yamls)
      /\ None \in Opt(Names)
  BY DEF Ops, Steps, Opt
<1> f => procs # None
  BY <1>2 DEF RebootstrapStart, Running
<1>6. /\ c \in AgentCommands /\ c.op = "rebootstrap" /\ c.at = "stop" /\ c.who = a
      /\ c.old = dir[a].box /\ c.flag = f
  BY <1>1, <1>3, <1>5, ACommand
<1>7. cmd' = c
  BY <1>4 DEF Give
<1>8. CommandKnows' /\ CommandCalm
  BY <1>1, <1>2, <1>6, <1>7 DEF CommandKnows, InitKnows, RestoreKnows, MigrateKnows,
                           RebootstrapKnows, OthersKnow, Doing, There, CommandCalm
<1>9. QED  BY <1>1, <1>4, <1>6, <1>8, GiveKeeps

-----------------------------------------------------------------------------
(* The commands go on.                                                     *)

\* A step of a command that moves no sandbox of a rewound agent.
LEMMA StillRewound ==
  ASSUME Correct, rewound' \subseteq rewound,
         \A a \in rewound' : /\ dir'[a] # None /\ dir'[a].box = dir[a].box
                             /\ ~dir'[a].identity,
         BotsCalm, \A b \in Names : Introduced(b)' => Introduced(b),
         cmd' = None \/ cmd'.op # "migrate"
  PROVE  MigrationSafe' /\ RewoundInv'
<1>1. MigrationSafe'
  BY DEF MigrationSafe, Migrating
<1>2. RewoundInv'
  <2>1. SUFFICES ASSUME NEW a \in rewound'
                 PROVE  /\ ~Introduced(dir[a].box)'
                        /\ bot'[a].yaml # None => ~Introduced(bot[a].yaml.box)'
                        /\ bot'[a].got # {TRUE}
    BY DEF RewoundInv, Doing
  <2>2. /\ a \in Agents /\ dir[a] # None
        /\ ~Introduced(dir[a].box)
        /\ bot[a].yaml # None => ~Introduced(bot[a].yaml.box)
        /\ bot[a].got # {TRUE}
    BY DEF Correct, RewoundInv, TypeOK, FilesTyped
  <2>3. dir[a].box \in Names /\ dir'[a].box = dir[a].box
    BY <2>2, DirIs DEF Correct
  <2>4. bot[a].yaml # None => bot[a].yaml.box \in Names
    BY <2>2 DEF Correct, TypeOK, ProcsTyped, Bots, BotStates, Opt, Yamls
  <2>5. bot'[a].got # {TRUE}
    BY <2>2, NoneIsNone DEF BotsCalm
  <2>6. bot'[a].yaml # None => ~Introduced(bot[a].yaml.box)'
    BY <2>2, <2>3, <2>4 DEF BotsCalm
  <2>7. QED  BY <2>2, <2>3, <2>5, <2>6
<1>3. QED  BY <1>1, <1>2

LEMMA BoxesMade ==
  ASSUME TypeOK, NEW b \in Names, NEW a \in Agents, DeletedIfPossible(b) \/ Spawned(b, a)
  PROVE  /\ boxes' \in [Names -> Opt(Stuffs)]
         /\ \A c \in Names : Introduced(c)' => Introduced(c)
         /\ \A c \in Names : c # b => boxes'[c] = boxes[c]
         /\ Spawned(b, a) => /\ boxes'[b] # None
                             /\ boxes[b] # None => boxes'[b] = boxes[b]
<1>1. Fresh(a) \in Stuffs /\ ~Fresh(a).identity
  BY DEF Fresh, Stuffs
<1>2. boxes \in [Names -> Opt(Stuffs)]
  BY DEF TypeOK, FilesTyped
<1>3. CASE DeletedIfPossible(b) /\ ~Spawned(b, a)
  <2>1. CASE boxes' = boxes
    BY <1>2, <1>3, <2>1 DEF Introduced
  <2>2. CASE boxes' = [boxes EXCEPT ![b] = None]
    <3>1. boxes' \in [Names -> Opt(Stuffs)] /\ boxes'[b] = None
          /\ \A c \in Names : c # b => boxes'[c] = boxes[c]
      BY <1>2, <2>2 DEF Opt
    <3>2. QED  BY <1>3, <3>1 DEF Introduced
  <2>3. QED  BY <1>3, <2>1, <2>2 DEF DeletedIfPossible
<1>4. CASE Spawned(b, a)
  <2>1. CASE boxes[b] = None
    <3>1. boxes' = [boxes EXCEPT ![b] = Fresh(a)]
      BY <1>4, <2>1 DEF Spawned
    <3>2. boxes' \in [Names -> Opt(Stuffs)] /\ boxes'[b] = Fresh(a)
          /\ \A c \in Names : c # b => boxes'[c] = boxes[c]
      BY <1>1, <1>2, <3>1 DEF Opt
    <3>3. QED  BY <1>1, <2>1, <3>2, NoneIsNone DEF Introduced
  <2>2. CASE boxes[b] # None
    BY <1>2, <1>4, <2>2 DEF Spawned, Introduced
  <2>3. QED  BY <2>1, <2>2
<1>5. QED  BY <1>3, <1>4

\* A step of a command that changes the sandboxes only.
LEMMA BoxesKeep ==
  ASSUME Correct, UNCHANGED <<dir, backups, conf, procs, bot, clock, half, rewound>>,
         boxes' \in [Names -> Opt(Stuffs)],
         \A c \in Names : Introduced(c)' => Introduced(c),
         cmd' \in Opt(AgentCommands), cmd' = None \/ cmd'.op # "migrate", CommandKnows'
  PROVE  Correct'
<1>1. TypeOK'
  BY DEF Correct, TypeOK, FilesTyped, ProcsTyped, CommandTyped, Opt
<1>2. OwnSandbox'
  BY DEF Correct, OwnSandbox
<1>3. MigrationSafe' /\ RewoundInv'
  BY StillRewound, BotsSame DEF Correct, RewoundInv
<1>4. QED  BY <1>1, <1>2, <1>3 DEF Correct

\* A step of a command that changes the command only.
LEMMA MoveKeeps ==
  ASSUME Correct, UNCHANGED <<dir, boxes, backups, conf, procs, bot, clock, half, rewound>>,
         cmd' \in Opt(AgentCommands), CommandCalm, CommandKnows'
  PROVE  Correct'
<1>1. CommandTyped' /\ ProcsTyped'
  BY DEF Correct, TypeOK, CommandTyped, ProcsTyped, Opt
<1>2. QED  BY <1>1, HostQuiet, BotsSame

\* A command's step in a directory of its agent.
LEMMA DirStep ==
  ASSUME Correct, NEW a \in Agents, NEW d \in Opt(Dirs), dir' = [dir EXCEPT ![a] = d],
         UNCHANGED <<boxes, backups, conf, procs, bot>>,
         clock' \in [minute : 1 .. MaxMinutes, minted : Nat, given : Nat],
         half' \subseteq Agents, \A c \in Agents : c # a => (c \in half <=> c \in half'),
         rewound' \subseteq rewound,
         a \in rewound' => d # None /\ d.box = dir[a].box /\ ~d.identity,
         d # None /\ a \notin half' => d.box[1] = a,
         cmd' \in Opt(AgentCommands), cmd' = None \/ cmd'.op # "migrate"
  PROVE  /\ TypeOK' /\ OwnSandbox' /\ MigrationSafe' /\ RewoundInv' /\ dir'[a] = d
         /\ \A c \in Agents : c # a => dir'[c] = dir[c]
<1>1. /\ dir' \in [Agents -> Opt(Dirs)] /\ dir'[a] = d
      /\ \A c \in Agents : c # a => dir'[c] = dir[c]
  BY DEF Correct, TypeOK, FilesTyped
<1>2. TypeOK'
  BY <1>1 DEF Correct, TypeOK, FilesTyped, ProcsTyped, CommandTyped, Opt
<1>3. OwnSandbox'
  BY <1>1 DEF Correct, OwnSandbox
<1>4. MigrationSafe' /\ RewoundInv'
  <2>1. \A r \in rewound' : /\ r \in Agents /\ dir[r] # None /\ ~dir[r].identity
    BY DEF Correct, RewoundInv, TypeOK, FilesTyped
  <2>2. \A r \in rewound' : /\ dir'[r] # None /\ dir'[r].box = dir[r].box
                            /\ ~dir'[r].identity
    BY <1>1, <2>1
  <2>3. QED  BY <2>2, StillRewound, BotsSame DEF Introduced
<1>5. QED  BY <1>1, <1>2, <1>3, <1>4

-----------------------------------------------------------------------------
(* right init and right agent init.                                        *)
LEMMA InitMoves ==
  ASSUME Correct, NEW from, NEW at \in Steps, At("init", from) \/ At("home", from), Goto(at)
  PROVE  /\ cmd.op \in {"init", "home"} /\ cmd.at = from /\ cmd # None
         /\ cmd' \in AgentCommands /\ cmd'.op = cmd.op /\ cmd'.at = at
         /\ cmd.who \in Agents /\ cmd'.who = cmd.who
         /\ cmd.new \in Names /\ cmd.old \in Names /\ cmd'.new = cmd.new /\ cmd'.old = cmd.old
         /\ cmd.op = "home" => cmd.who = Right
         /\ cmd.op = "init" /\ from = "create" => dir[cmd.who] = None
         /\ from \in {"codegen", "secret"} => dir[cmd.who] # None
<1>1. cmd # None /\ cmd.op \in {"init", "home"} /\ cmd.at = from /\ cmd.op \in Ops
  BY DEF At, Ops
<1>2. cmd.who \in Agents /\ Doing(cmd.op, Steps)
  BY <1>1, CommandIs DEF Correct, TypeOK
<1>3. cmd.new \in Names /\ cmd.old \in Names
  BY <1>1, <1>2 DEF Correct, CommandKnows, InitKnows
<1>4. /\ cmd.op = "home" => cmd.who = Right
      /\ cmd.op = "init" /\ from = "create" => dir[cmd.who] = None
      /\ from \in {"codegen", "secret"} => dir[cmd.who] # None
  BY <1>1, <1>2 DEF Correct, CommandKnows, InitKnows, Doing, There
<1>5. QED  BY <1>1, <1>2, <1>3, <1>4, Moves DEF Correct, TypeOK

LEMMA CreateKeeps ==
  ASSUME Correct, HomeCreate \/ InitCreate
  PROVE  Correct'
<1>1. /\ At("init", "create") \/ At("home", "create")
      /\ Goto("codegen") /\ "codegen" \in Steps
      /\ dir[cmd.who] = None /\ Created(cmd.who)
      /\ UNCHANGED <<boxes, backups, conf, procs, bot, clock, half, rewound>>
  <2>1. CASE InitCreate
    <3>1. dir[cmd.who] = None
      BY <2>1 DEF InitCreate, At, Correct, CommandKnows, InitKnows, Doing, There
    <3>2. QED  BY <2>1, <3>1 DEF InitCreate, Steps
  <2>2. CASE HomeCreate
    <3>1. cmd.who = Right
      BY <2>2 DEF HomeCreate, At, Correct, CommandKnows, InitKnows, Doing, Steps
    <3>2. QED  BY <2>2, <3>1 DEF HomeCreate, HomeInit, Steps
  <2>3. QED  BY <2>1, <2>2
<1>2. /\ cmd.who \in Agents /\ cmd'.who = cmd.who /\ cmd'.at = "codegen" /\ cmd' \in AgentCommands
      /\ cmd'.op \in {"init", "home"} /\ cmd'.new \in Names /\ cmd'.old \in Names
      /\ cmd'.op = "home" => cmd'.who = Right
  BY <1>1, InitMoves DEF Goto, HomeCreate, InitCreate
<1>3. PICK d : d = [box |-> Default(cmd.who), secret |-> 0, identity |-> FALSE, boot |-> TRUE]
  OBVIOUS
<1>4. Default(cmd.who) \in Names /\ Default(cmd.who)[1] = cmd.who
  BY <1>2, Stamps DEF Correct, TypeOK
<1>5. d \in Dirs /\ d.box[1] = cmd.who
  BY <1>3, <1>4 DEF Dirs
<1>6. dir' = [dir EXCEPT ![cmd.who] = d] /\ d # None
  BY <1>1, <1>3, <1>5, NoneIsNone DEF Created
<1>7. cmd.who \notin rewound
  BY <1>1 DEF Correct, RewoundInv
<1>8. /\ half' \subseteq Agents /\ d \in Opt(Dirs) /\ cmd' \in Opt(AgentCommands)
      /\ clock' \in [minute : 1 .. MaxMinutes, minted : Nat, given : Nat]
  BY <1>1, <1>2, <1>5 DEF Opt, Correct, TypeOK, FilesTyped, CommandTyped
<1>9. TypeOK' /\ OwnSandbox' /\ MigrationSafe' /\ RewoundInv' /\ dir'[cmd.who] = d
  BY <1>1, <1>2, <1>5, <1>6, <1>7, <1>8, DirStep
<1>10. CommandKnows'
  BY <1>2, <1>6, <1>9, InitToKnow
<1>11. QED  BY <1>9, <1>10 DEF Correct

LEMMA InitCodegenKeeps ==
  ASSUME Correct, HomeCodegen \/ InitCodegen
  PROVE  Correct'
<1>1. /\ At("init", "codegen") \/ At("home", "codegen")
      /\ Goto("secret") /\ "secret" \in Steps
      /\ UNCHANGED <<boxes, backups, procs, bot, half, rewound>>
  BY DEF HomeCodegen, InitCodegen, Steps
<1>2. Codegen({cmd.who})
  BY DEF HomeCodegen, InitCodegen, At, Correct, CommandKnows, InitKnows, Doing, Steps
<1>3. /\ cmd.who \in Agents /\ cmd'.who = cmd.who /\ cmd'.at = "secret" /\ cmd' \in AgentCommands
      /\ cmd'.op \in {"init", "home"} /\ cmd'.new \in Names /\ cmd'.old \in Names
      /\ cmd'.op = "home" => cmd'.who = Right
      /\ dir[cmd.who] # None
  BY <1>1, InitMoves
<1>4. {cmd.who} \subseteq Discovered
  BY <1>3 DEF Discovered
<1>5. SameDirs /\ conf' = {cmd.who} /\ {cmd.who} \subseteq Agents /\ conf' # None
  BY <1>2, <1>4, CodegenKeeps DEF Correct, TypeOK
<1>6. ProcsTyped'
  BY <1>1, <1>5 DEF Correct, TypeOK, ProcsTyped, Opt
<1>7. CommandKnows' /\ CommandCalm
  BY <1>3, <1>5, InitToKnow DEF SameDirs
<1>8. QED  BY <1>1, <1>2, <1>3, <1>4, <1>6, <1>7, CodegenStep, BotsSame DEF Correct, Opt

LEMMA SecretKeeps ==
  ASSUME Correct, InitSecret
  PROVE  Correct'
<1>1. /\ At("init", "secret") \/ At("home", "secret")
      /\ Goto("box") /\ "box" \in Steps
      /\ UNCHANGED <<boxes, backups, conf, procs, bot, half, rewound>>
  BY DEF InitSecret, Steps
<1>2. /\ cmd.who \in Agents /\ cmd'.who = cmd.who /\ cmd'.at = "box" /\ cmd' \in AgentCommands
      /\ cmd'.op \in {"init", "home"} /\ cmd'.new \in Names /\ cmd'.old \in Names
      /\ cmd'.op = "home" => cmd'.who = Right
      /\ dir[cmd.who] # None
  <2>1. Goto("box")
    BY DEF InitSecret
  <2>2. QED  BY <1>1, <2>1, InitMoves DEF InitSecret
<1>3. dir[cmd.who] \in Dirs /\ clock.minted \in Nat
      /\ clock' \in [minute : 1 .. MaxMinutes, minted : Nat, given : Nat]
  BY <1>2, DirIs DEF Correct, TypeOK, CommandTyped, InitSecret
<1>4. PICK d : d = [dir[cmd.who] EXCEPT !.secret = clock.minted + 1]
  OBVIOUS
<1>5. /\ d \in Dirs /\ d.box = dir[cmd.who].box /\ d.boot = dir[cmd.who].boot
      /\ d.identity = dir[cmd.who].identity
  BY <1>3, <1>4, DirFields
<1>6. dir' = [dir EXCEPT ![cmd.who] = d] /\ d # None
  BY <1>4, <1>5, NoneIsNone DEF InitSecret
<1>7. cmd.who \in rewound => ~d.identity
  BY <1>5 DEF Correct, RewoundInv
<1>8. cmd.who \notin half => d.box[1] = cmd.who
  BY <1>2, <1>5 DEF Correct, OwnSandbox
<1>9. half' \subseteq Agents /\ d \in Opt(Dirs) /\ cmd' \in Opt(AgentCommands)
  BY <1>1, <1>2, <1>5 DEF Opt, Correct, TypeOK, FilesTyped
<1>10. UNCHANGED <<boxes, backups, conf, procs, bot, half, rewound>>
  BY DEF InitSecret
<1>11. TypeOK' /\ OwnSandbox' /\ MigrationSafe' /\ RewoundInv' /\ dir'[cmd.who] = d
  BY <1>2, <1>3, <1>5, <1>6, <1>7, <1>8, <1>9, <1>10, DirStep
<1>12. CommandKnows'
  BY <1>2, InitToKnow
<1>13. QED  BY <1>11, <1>12 DEF Correct

LEMMA InitBoxKeeps ==
  ASSUME Correct, HomeBox \/ InitBox \/ InitWipe \/ EnsureDeleted
  PROVE  Correct'
<1>1. {"delete", "spawn", "remove"} \subseteq Steps
  BY DEF Steps
<1>2. CASE HomeBox \/ InitBox
  <2>1. PICK at \in {"delete", "spawn"} : Goto(at)
    BY <1>2 DEF HomeBox, InitBox
  <2>2. /\ At("init", "box") \/ At("home", "box")
        /\ UNCHANGED <<dir, boxes, backups, conf, procs, bot, clock, half, rewound>>
    BY <1>2 DEF HomeBox, InitBox
  <2>3. CommandKnows' /\ CommandCalm /\ cmd' \in Opt(AgentCommands)
    BY <1>1, <2>1, <2>2, InitMoves, InitToKnow DEF Opt
  <2>4. QED  BY <2>2, <2>3, MoveKeeps
<1>3. CASE InitWipe \/ EnsureDeleted
  <2>1. PICK at \in {"remove", "spawn"}, b \in Names :
          /\ Goto(at) /\ DeletedIfPossible(b)
          /\ UNCHANGED <<dir, backups, conf, procs, bot, clock, half, rewound>>
          /\ cmd' \in AgentCommands /\ cmd'.op \in {"init", "home"} /\ CommandKnows'
    <3>1. CASE InitWipe
      <4>1. /\ At("init", "wipe") /\ Goto("remove") /\ DeletedIfPossible(cmd.old)
            /\ UNCHANGED <<dir, backups, conf, procs, bot, clock, half, rewound>>
        BY <3>1 DEF InitWipe
      <4>2. CommandKnows' /\ cmd' \in AgentCommands /\ cmd.old \in Names
            /\ cmd'.op \in {"init", "home"}
        BY <1>1, <4>1, InitMoves, InitToKnow
      <4>3. QED  BY <4>1, <4>2
    <3>2. CASE EnsureDeleted
      <4>1. /\ At("init", "delete") \/ At("home", "delete")
            /\ Goto("spawn") /\ DeletedIfPossible(cmd.new)
            /\ UNCHANGED <<dir, backups, conf, procs, bot, clock, half, rewound>>
        BY <3>2 DEF EnsureDeleted
      <4>2. CommandKnows' /\ cmd' \in AgentCommands /\ cmd.new \in Names
            /\ cmd'.op \in {"init", "home"}
        BY <1>1, <4>1, InitMoves, InitToKnow
      <4>3. QED  BY <4>1, <4>2
    <3>3. QED  BY <1>3, <3>1, <3>2
  <2>2. /\ boxes' \in [Names -> Opt(Stuffs)]
        /\ \A c \in Names : Introduced(c)' => Introduced(c)
    BY <2>1, BoxesMade, BoundsAssumption DEF Correct
  <2>3. QED  BY <2>1, <2>2, BoxesKeep DEF Opt
<1>4. QED  BY <1>2, <1>3

LEMMA EnsureKeeps ==
  ASSUME Correct, EnsureSandbox
  PROVE  Correct'
<1>1. /\ At("init", "spawn") \/ At("home", "spawn")
      /\ UNCHANGED <<dir, backups, conf, procs, bot, clock, half, rewound>>
      /\ Spawned(cmd.new, cmd.who)
  BY DEF EnsureSandbox
<1>2. cmd.op \in Ops /\ cmd # None /\ cmd.op \in {"init", "home"}
  BY <1>1 DEF At, Ops
<1>3. cmd.who \in Agents /\ cmd.new \in Names
  BY <1>2, CommandIs DEF Correct, TypeOK, CommandKnows, InitKnows
<1>4. /\ boxes' \in [Names -> Opt(Stuffs)]
      /\ \A c \in Names : Introduced(c)' => Introduced(c)
  BY <1>1, <1>3, BoxesMade DEF Correct
<1>5. cmd' \in Opt(AgentCommands) /\ (cmd' = None \/ cmd'.op # "migrate") /\ CommandKnows'
  <2>1. CASE cmd' = None
    BY <2>1, NothingToKnow DEF Opt
  <2>2. CASE Goto("register")
    <3>1. "register" \in Steps
      BY DEF Steps
    <3>2. QED  BY <1>1, <2>2, <3>1, InitMoves, InitToKnow DEF Opt
  <2>3. QED  BY <2>1, <2>2 DEF EnsureSandbox, Finish
<1>6. QED  BY <1>1, <1>4, <1>5, BoxesKeep

\* Register and the reload of destroy are one step: codegen and a reload, or
\* nothing.
LEMMA RegisterKeeps ==
  ASSUME Correct, InitRegister \/ DestroyReload
  PROVE  Correct'
<1>1. cmd' = None /\ UNCHANGED <<boxes, backups, half, rewound>>
  BY DEF InitRegister, DestroyReload, Finish
<1>2. CASE conf # None /\ Running
  <2>1. PICK R : Codegen(Discovered) /\ ReloadProcs(R)
    BY <1>2 DEF InitRegister, DestroyReload
  <2>2. ProcsTyped' /\ BotsCalm
    BY <2>1, ReloadedProcs
  <2>3. QED  BY <1>1, <2>1, <2>2, CodegenStep, NothingToKnow DEF Correct, Opt
<1>3. CASE ~(conf # None /\ Running)
  <2>1. UNCHANGED <<dir, clock, conf, procs, bot>>
    BY <1>3 DEF InitRegister, DestroyReload
  <2>2. QED  BY <1>1, <2>1, EndKeeps, BotsSame
<1>4. QED  BY <1>2, <1>3

\* The directory goes, with init over an old agent and with destroy.
LEMMA RemoveKeeps ==
  ASSUME Correct, InitRemove \/ DestroyRemove
  PROVE  Correct'
<1>1. cmd # None /\ cmd.op \in {"init", "destroy"} /\ cmd.op \in Ops
  BY DEF InitRemove, DestroyRemove, At, Ops
<1>2. cmd.who \in Agents /\ cmd.old \in Names /\ cmd.new \in Names
  BY <1>1, CommandIs DEF Correct, TypeOK, CommandKnows, InitKnows, OthersKnow
<1>3. PICK at \in {"create", "reload"} : Goto(at) /\ (cmd.op = "init" => at = "create")
  BY DEF InitRemove, DestroyRemove, At
<1>4. {"create", "reload"} \subseteq Steps
  BY DEF Steps
<1>5. /\ cmd' \in AgentCommands /\ cmd'.op = cmd.op /\ cmd'.who = cmd.who
      /\ cmd'.new = cmd.new /\ cmd'.old = cmd.old /\ cmd'.at = at
  BY <1>1, <1>3, <1>4, Moves DEF Correct, TypeOK
<1>6. /\ dir' = [dir EXCEPT ![cmd.who] = None]
      /\ half' = half \ {cmd.who} /\ rewound' = rewound \ {cmd.who}
      /\ UNCHANGED <<boxes, backups, conf, procs, bot, clock>>
  BY DEF InitRemove, DestroyRemove
<1>7. /\ None \in Opt(Dirs) /\ cmd' \in Opt(AgentCommands) /\ half' \subseteq Agents
      /\ clock' \in [minute : 1 .. MaxMinutes, minted : Nat, given : Nat]
  BY <1>5, <1>6 DEF Opt, Correct, TypeOK, FilesTyped, CommandTyped
<1>8. TypeOK' /\ OwnSandbox' /\ MigrationSafe' /\ RewoundInv' /\ dir'[cmd.who] = None
  BY <1>1, <1>2, <1>5, <1>6, <1>7, DirStep
<1>9. CommandKnows'
  BY <1>1, <1>2, <1>3, <1>5, <1>8, InitToKnow, OtherToKnow
<1>10. QED  BY <1>8, <1>9 DEF Correct

-----------------------------------------------------------------------------
(* backup and destroy.                                                     *)
LEMMA BackupTyped ==
  ASSUME TypeOK, NEW b \in Names, NEW t \in Opt(Stuffs), NEW y \in Opt(Yamls)
  PROVE  /\ [backups EXCEPT ![b].tar = t] \in [Names -> [tar : Opt(Stuffs), yaml : Opt(Yamls)]]
         /\ [backups EXCEPT ![b].yaml = y] \in [Names -> [tar : Opt(Stuffs), yaml : Opt(Yamls)]]
         /\ [backups EXCEPT ![b] = [tar |-> t, yaml |-> y]]
              \in [Names -> [tar : Opt(Stuffs), yaml : Opt(Yamls)]]
         /\ backups[b].tar \in Opt(Stuffs)
<1>1. backups \in [Names -> [tar : Opt(Stuffs), yaml : Opt(Yamls)]]
  BY DEF TypeOK, FilesTyped
<1>2. PICK u : u = backups[b]
  OBVIOUS
<1>3. u \in [tar : Opt(Stuffs), yaml : Opt(Yamls)] /\ u.tar \in Opt(Stuffs)
  BY <1>1, <1>2
<1>4. [u EXCEPT !.tar = t] \in [tar : Opt(Stuffs), yaml : Opt(Yamls)]
  BY <1>3
<1>5. [u EXCEPT !.yaml = y] \in [tar : Opt(Stuffs), yaml : Opt(Yamls)]
  BY <1>3
<1>6. [tar |-> t, yaml |-> y] \in [tar : Opt(Stuffs), yaml : Opt(Yamls)]
  OBVIOUS
<1>7. \A v \in [tar : Opt(Stuffs), yaml : Opt(Yamls)] :
        [backups EXCEPT ![b] = v] \in [Names -> [tar : Opt(Stuffs), yaml : Opt(Yamls)]]
  BY <1>1
<1>8. QED  BY <1>1, <1>2, <1>3, <1>4, <1>5, <1>6, <1>7

\* A step that fills a backup.
LEMMA BackupsKeep ==
  ASSUME Correct, UNCHANGED <<dir, boxes, conf, procs, bot, clock, half, rewound>>,
         backups' \in [Names -> [tar : Opt(Stuffs), yaml : Opt(Yamls)]],
         cmd' \in Opt(AgentCommands), CommandCalm, CommandKnows'
  PROVE  Correct'
<1>1. TypeOK'
  BY DEF Correct, TypeOK, FilesTyped, ProcsTyped, CommandTyped, Opt
<1>2. OwnSandbox' /\ MigrationSafe' /\ RewoundInv'
  BY Calm, Unmoved, SameIsCalm, BotsSame DEF Correct, TypeOK
<1>3. QED  BY <1>1, <1>2 DEF Correct

LEMMA OtherMoves ==
  ASSUME Correct, cmd # None, cmd.op \in {"backup", "destroy"}
  PROVE  /\ cmd.who \in Agents /\ cmd.old \in Names /\ cmd.new \in Names
         /\ \A at \in Steps : Goto(at) =>
              cmd' \in AgentCommands /\ cmd' \in Opt(AgentCommands) /\ CommandKnows' /\ CommandCalm
              /\ cmd'.op = cmd.op
<1>1. cmd.op \in Ops
  BY DEF Ops
<1>2. cmd.who \in Agents /\ cmd.old \in Names /\ cmd.new \in Names
  BY <1>1, CommandIs DEF Correct, TypeOK, CommandKnows, OthersKnow
<1>3. ASSUME NEW at \in Steps, Goto(at)
      PROVE  cmd' \in AgentCommands /\ cmd'.op = cmd.op /\ cmd'.new = cmd.new /\ cmd'.old = cmd.old
  BY <1>1, <1>3, Moves DEF Correct, TypeOK
<1>4. QED  BY <1>2, <1>3, OtherToKnow DEF Opt

LEMMA BackupKeeps ==
  ASSUME Correct, BackupTar \/ BackupYaml \/ DestroyBackup
  PROVE  Correct'
<1>1. /\ cmd # None /\ cmd.op \in {"backup", "destroy"}
      /\ UNCHANGED <<dir, boxes, conf, procs, bot, clock, half, rewound>>
  BY DEF BackupTar, BackupYaml, DestroyBackup, At
<1>2. cmd.who \in Agents /\ cmd.old \in Names /\ cmd.new \in Names
  BY <1>1, OtherMoves
<1>3. /\ boxes[cmd.old] \in Opt(Stuffs) /\ Yaml(cmd.who) \in Opt(Yamls)
      /\ backups[cmd.new].tar \in Opt(Stuffs)
  BY <1>2, YamlIs, BackupTyped DEF Correct, TypeOK, FilesTyped, Opt
<1>4. backups' \in [Names -> [tar : Opt(Stuffs), yaml : Opt(Yamls)]]
  <2>1. CASE BackupTar
    BY <2>1, <1>2, <1>3, BackupTyped DEF BackupTar, Tarred, Correct, Opt
  <2>2. CASE BackupYaml
    BY <2>2, <1>2, <1>3, BackupTyped DEF BackupYaml, Correct, Opt
  <2>3. CASE DestroyBackup
    <3>1. PICK t \in Opt(Stuffs) :
            backups' = [backups EXCEPT ![cmd.new] = [tar |-> t, yaml |-> Yaml(cmd.who)]]
      BY <2>3, <1>2, <1>3 DEF DestroyBackup, Correct, TypeOK, FilesTyped
    <3>2. QED  BY <3>1, <1>2, <1>3, BackupTyped DEF Correct
  <2>4. QED  BY <2>1, <2>2, <2>3
<1>5. cmd' \in Opt(AgentCommands) /\ CommandCalm /\ CommandKnows'
  <2>1. CASE cmd' = None
    BY <2>1, NothingToKnow DEF Opt
  <2>2. CASE Goto("yaml") \/ Goto("delete")
    <3>1. {"yaml", "delete"} \subseteq Steps
      BY DEF Steps
    <3>2. QED  BY <1>1, <2>2, <3>1, OtherMoves
  <2>3. QED  BY <2>1, <2>2 DEF BackupTar, BackupYaml, DestroyBackup, Finish
<1>6. QED  BY <1>1, <1>4, <1>5, BackupsKeep

LEMMA DestroyDeleteKeeps ==
  ASSUME Correct, DestroyDelete
  PROVE  Correct'
<1>1. /\ cmd # None /\ cmd.op \in {"backup", "destroy"} /\ DeletedIfPossible(cmd.old)
      /\ UNCHANGED <<dir, backups, conf, procs, bot, clock, half, rewound>>
      /\ Goto("remove") /\ "remove" \in Steps
  BY DEF DestroyDelete, At, Steps
<1>2. /\ cmd.old \in Names /\ cmd.who \in Agents /\ cmd' \in Opt(AgentCommands)
      /\ CommandKnows' /\ cmd'.op # "migrate"
  BY <1>1, OtherMoves
<1>3. /\ boxes' \in [Names -> Opt(Stuffs)]
      /\ \A c \in Names : Introduced(c)' => Introduced(c)
  BY <1>1, <1>2, BoxesMade DEF Correct
<1>4. QED  BY <1>1, <1>2, <1>3, BoxesKeep

\* A bot that a command stops, or starts again.
LEMMA BotStep ==
  ASSUME Correct, NEW a \in Agents, NEW x \in {OffBot, StoppedBot},
         bot' = [bot EXCEPT ![a] = x], procs # None \/ x = OffBot,
         UNCHANGED <<dir, boxes, backups, conf, procs, clock, half, rewound>>,
         cmd' \in Opt(AgentCommands), CommandCalm, CommandKnows'
  PROVE  Correct' /\ bot'[a] = x
<1>1. x \in Bots /\ x.yaml = None /\ x.got = None
  BY OffBotIs
<1>2. /\ bot' \in [Agents -> Bots] /\ bot'[a] = x
      /\ \A b \in Agents : b # a => bot'[b] = bot[b]
  BY <1>1 DEF Correct, TypeOK, ProcsTyped
<1>3. ProcsTyped'
  BY <1>2 DEF Correct, TypeOK, ProcsTyped
<1>4. BotsCalm
  BY <1>1, <1>2 DEF BotsCalm
<1>5. CommandTyped'
  BY DEF Correct, TypeOK, CommandTyped, Opt
<1>6. QED  BY <1>2, <1>3, <1>4, <1>5, HostQuiet

LEMMA DestroyStopKeeps ==
  ASSUME Correct, DestroyStop
  PROVE  Correct'
<1>1. /\ cmd # None /\ cmd.op \in {"backup", "destroy"}
      /\ UNCHANGED <<dir, boxes, backups, conf, procs, clock, half, rewound>>
  BY DEF DestroyStop, At
<1>2. PICK at \in {"backup", "delete"} : Goto(at)
  BY DEF DestroyStop
<1>3. {"backup", "delete"} \subseteq Steps
  BY DEF Steps
<1>4. cmd.who \in Agents /\ cmd' \in Opt(AgentCommands) /\ CommandKnows' /\ CommandCalm
  BY <1>1, <1>2, <1>3, OtherMoves
<1>5. CASE UNCHANGED bot
  BY <1>1, <1>4, <1>5, MoveKeeps
<1>6. CASE Running /\ bot' = [bot EXCEPT ![cmd.who] = StoppedBot]
  BY <1>1, <1>4, <1>6, BotStep DEF Running
<1>7. QED  BY <1>5, <1>6 DEF DestroyStop

-----------------------------------------------------------------------------
(* restore.                                                                *)
LEMMA RestoreMoves ==
  ASSUME Correct, NEW from \in Steps, At("restore", from)
  PROVE  /\ cmd # None /\ cmd.at = from /\ cmd.op = "restore" /\ cmd.who \in Agents
         /\ cmd.new \in Names /\ cmd.new[1] = cmd.who /\ cmd.tar \in Stuffs /\ cmd.yaml \in Yamls
         /\ from = "copy" => dir[cmd.who] = None
         /\ from \in {"box", "upload", "name"} => dir[cmd.who] # None /\ cmd.who \in half \ rewound
         /\ \A at \in Steps : Goto(at) =>
              /\ cmd' \in AgentCommands /\ cmd'.op = "restore" /\ cmd'.at = at
              /\ cmd'.who = cmd.who /\ cmd'.new = cmd.new
              /\ cmd'.tar = cmd.tar /\ cmd'.yaml = cmd.yaml
<1>1. cmd # None /\ cmd.op = "restore" /\ cmd.at = from /\ cmd.op \in Ops
  BY DEF At, Ops
<1>2. cmd.who \in Agents
  BY <1>1, CommandIs DEF Correct, TypeOK
<1>3. \A at \in Steps : Goto(at) =>
              /\ cmd' \in AgentCommands /\ cmd'.op = "restore" /\ cmd'.at = at
              /\ cmd'.who = cmd.who /\ cmd'.new = cmd.new
              /\ cmd'.tar = cmd.tar /\ cmd'.yaml = cmd.yaml
  BY <1>1, Moves DEF Correct, TypeOK
<1>4. QED  BY <1>1, <1>2, <1>3 DEF Correct, CommandKnows, RestoreKnows, Doing, There

LEMMA CopyKeeps ==
  ASSUME Correct, RestoreCopy
  PROVE  Correct'
<1>1. {"copy", "box"} \subseteq Steps /\ At("restore", "copy") /\ Goto("box")
  BY DEF RestoreCopy, Steps
<1>2. /\ cmd.who \in Agents /\ cmd.new \in Names /\ cmd.new[1] = cmd.who /\ cmd.tar \in Stuffs
      /\ cmd.yaml \in Yamls /\ dir[cmd.who] = None
      /\ cmd' \in AgentCommands /\ cmd'.op = "restore" /\ cmd'.at = "box"
      /\ cmd'.who = cmd.who /\ cmd'.new = cmd.new /\ cmd'.tar = cmd.tar /\ cmd'.yaml = cmd.yaml
  BY <1>1, RestoreMoves
<1>3. PICK d : d = [box |-> cmd.yaml.box, secret |-> cmd.yaml.secret,
                    identity |-> TRUE, boot |-> FALSE]
  OBVIOUS
<1>4. d \in Dirs
  BY <1>2, <1>3 DEF Dirs, Yamls
<1>5. dir' = [dir EXCEPT ![cmd.who] = d] /\ half' = half \cup {cmd.who}
      /\ UNCHANGED <<boxes, backups, conf, procs, bot, clock, rewound>>
  BY <1>3 DEF RestoreCopy
<1>6. cmd.who \notin rewound /\ d # None
  BY <1>2, <1>4, NoneIsNone DEF Correct, RewoundInv
<1>7. /\ d \in Opt(Dirs) /\ cmd' \in Opt(AgentCommands) /\ half' \subseteq Agents
      /\ clock' \in [minute : 1 .. MaxMinutes, minted : Nat, given : Nat]
  BY <1>2, <1>4, <1>5 DEF Opt, Correct, TypeOK, FilesTyped, CommandTyped
<1>8. TypeOK' /\ OwnSandbox' /\ MigrationSafe' /\ RewoundInv' /\ dir'[cmd.who] = d
  BY <1>2, <1>5, <1>6, <1>7, DirStep
<1>9. CommandKnows'
  BY <1>2, <1>5, <1>6, <1>8, RestoreToKnow
<1>10. QED  BY <1>8, <1>9 DEF Correct

LEMMA RestoreBoxKeeps ==
  ASSUME Correct, RestoreBox
  PROVE  Correct'
<1>1. /\ {"box", "upload"} \subseteq Steps /\ At("restore", "box") /\ Goto("upload")
      /\ UNCHANGED <<dir, backups, conf, procs, bot, clock, half, rewound>>
      /\ Spawned(cmd.new, cmd.who)
  BY DEF RestoreBox, Steps
<1>2. /\ cmd.who \in Agents /\ cmd.new \in Names /\ cmd.new[1] = cmd.who /\ cmd.tar \in Stuffs
      /\ cmd.yaml \in Yamls /\ dir[cmd.who] # None /\ cmd.who \in half \ rewound
      /\ cmd' \in AgentCommands /\ cmd'.op = "restore" /\ cmd'.at = "upload"
      /\ cmd'.who = cmd.who /\ cmd'.new = cmd.new /\ cmd'.tar = cmd.tar /\ cmd'.yaml = cmd.yaml
  BY <1>1, RestoreMoves
<1>3. CommandKnows'
  BY <1>1, <1>2, RestoreToKnow
<1>4. /\ boxes' \in [Names -> Opt(Stuffs)]
      /\ \A c \in Names : Introduced(c)' => Introduced(c)
  BY <1>1, <1>2, BoxesMade DEF Correct
<1>5. QED  BY <1>1, <1>2, <1>3, <1>4, BoxesKeep DEF Opt

\* Sandbox b gets what a tar holds.
LEMMA Uploaded ==
  ASSUME Correct, NEW b \in Names, NEW t \in Stuffs, boxes' = [boxes EXCEPT ![b] = t]
  PROVE  /\ boxes' \in [Names -> Opt(Stuffs)] /\ boxes'[b] = t
         /\ \A c \in Names : c # b => boxes'[c] = boxes[c] /\ (Introduced(c)' <=> Introduced(c))
         /\ Introduced(b)' <=> t.identity
<1>1. /\ boxes' \in [Names -> Opt(Stuffs)] /\ boxes'[b] = t
      /\ \A c \in Names : c # b => boxes'[c] = boxes[c]
  BY DEF Correct, TypeOK, FilesTyped, Opt
<1>2. QED  BY <1>1, NoneIsNone DEF Introduced

LEMMA UploadKeeps ==
  ASSUME Correct, RestoreUpload
  PROVE  Correct'
<1>1. /\ {"upload", "name"} \subseteq Steps /\ At("restore", "upload") /\ Goto("name")
      /\ UNCHANGED <<dir, backups, conf, procs, bot, clock, half>>
      /\ boxes' = [boxes EXCEPT ![cmd.new] = cmd.tar]
      /\ rewound' = IF cmd.tar.identity THEN RewoundBut(cmd.new) ELSE rewound
  BY DEF RestoreUpload, Steps
<1>2. /\ cmd.who \in Agents /\ cmd.new \in Names /\ cmd.new[1] = cmd.who /\ cmd.tar \in Stuffs
      /\ cmd.yaml \in Yamls /\ dir[cmd.who] # None /\ cmd.who \in half \ rewound
      /\ cmd' \in AgentCommands /\ cmd'.op = "restore" /\ cmd'.at = "name"
      /\ cmd'.who = cmd.who /\ cmd'.new = cmd.new /\ cmd'.tar = cmd.tar /\ cmd'.yaml = cmd.yaml
  BY <1>1, RestoreMoves
<1>3. rewound' \subseteq rewound
  BY <1>1 DEF RewoundBut
<1>4. CommandKnows'
  BY <1>1, <1>2, <1>3, RestoreToKnow
<1>5. /\ boxes' \in [Names -> Opt(Stuffs)] /\ boxes'[cmd.new] = cmd.tar
      /\ \A c \in Names : c # cmd.new => (Introduced(c)' <=> Introduced(c))
      /\ Introduced(cmd.new)' <=> cmd.tar.identity
  BY <1>1, <1>2, Uploaded
<1>6. TypeOK'
  BY <1>1, <1>2, <1>3, <1>5 DEF Correct, TypeOK, FilesTyped, ProcsTyped, CommandTyped, Opt
<1>7. OwnSandbox' /\ MigrationSafe'
  BY <1>1, <1>2 DEF Correct, OwnSandbox, MigrationSafe, Migrating
<1>8. RewoundInv'
  <2>1. SUFFICES ASSUME NEW r \in rewound'
                 PROVE  /\ dir[r] # None /\ ~dir[r].identity
                        /\ ~Introduced(dir[r].box)'
                        /\ bot[r].yaml # None => ~Introduced(bot[r].yaml.box)'
                        /\ bot[r].got # {TRUE}
    BY <1>1, <1>2 DEF RewoundInv, Doing
  <2>2. /\ r \in rewound /\ r \in Agents
        /\ dir[r] # None /\ ~dir[r].identity
        /\ ~Introduced(dir[r].box)
        /\ bot[r].yaml # None => ~Introduced(bot[r].yaml.box)
        /\ bot[r].got # {TRUE}
    BY <1>3 DEF Correct, RewoundInv, TypeOK, FilesTyped
  <2>3. ASSUME NEW c \in Names, ~Introduced(c), cmd.tar.identity => c # cmd.new
        PROVE  ~Introduced(c)'
    BY <1>2, <1>5, <2>3
  <2>4. cmd.tar.identity => /\ dir[r].box # cmd.new
                            /\ bot[r].yaml # None => bot[r].yaml.box # cmd.new
    BY <1>1, <2>2 DEF RewoundBut, Uses
  <2>5. /\ dir[r].box \in Names
        /\ bot[r].yaml # None => bot[r].yaml.box \in Names
    BY <2>2, DirIs DEF Correct, TypeOK, ProcsTyped, Bots, BotStates, Opt, Yamls
  <2>6. ~Introduced(dir[r].box)'
    BY <1>1, <2>2, <2>3, <2>4, <2>5
  <2>7. bot[r].yaml # None => ~Introduced(bot[r].yaml.box)'
    BY <1>1, <2>2, <2>3, <2>4, <2>5
  <2>8. QED  BY <2>2, <2>6, <2>7
<1>9. QED  BY <1>4, <1>6, <1>7, <1>8 DEF Correct

LEMMA RestoreNameKeeps ==
  ASSUME Correct, RestoreName
  PROVE  Correct'
<1>1. /\ "name" \in Steps /\ At("restore", "name") /\ cmd' = None
      /\ UNCHANGED <<boxes, backups, conf, procs, bot, clock, rewound>>
      /\ half' = half \ {cmd.who}
  BY DEF RestoreName, Steps, Finish
<1>2. /\ cmd.who \in Agents /\ cmd.new \in Names /\ cmd.new[1] = cmd.who
      /\ dir[cmd.who] # None /\ cmd.who \notin rewound
  BY <1>1, RestoreMoves
<1>3. PICK d : d = [dir[cmd.who] EXCEPT !.box = cmd.new]
  OBVIOUS
<1>4. d \in Dirs /\ d.box = cmd.new
  BY <1>2, <1>3, DirIs, DirFields DEF Correct
<1>5. dir' = [dir EXCEPT ![cmd.who] = d]
  BY <1>3 DEF RestoreName
<1>6. /\ d \in Opt(Dirs) /\ cmd' \in Opt(AgentCommands) /\ half' \subseteq Agents
      /\ clock' \in [minute : 1 .. MaxMinutes, minted : Nat, given : Nat]
  BY <1>1, <1>2, <1>4 DEF Opt, Correct, TypeOK, FilesTyped, CommandTyped
<1>7. TypeOK' /\ OwnSandbox' /\ MigrationSafe' /\ RewoundInv'
  BY <1>1, <1>2, <1>4, <1>5, <1>6, DirStep
<1>8. QED  BY <1>1, <1>7, NothingToKnow DEF Correct

-----------------------------------------------------------------------------
(* rebootstrap.                                                            *)
LEMMA RebootstrapToKnow ==
  ASSUME cmd' \in AgentCommands, cmd'.op = "rebootstrap", cmd'.old \in Names,
         dir'[cmd'.who] # None, dir'[cmd'.who].box = cmd'.old,
         IF cmd'.flag THEN procs' # None ELSE conf' = None,
         cmd'.at # "stop" => bot'[cmd'.who] = (IF cmd'.flag THEN StoppedBot ELSE OffBot),
         cmd'.at \in {"boot", "start"} => ~dir'[cmd'.who].identity
  PROVE  CommandKnows' /\ CommandCalm
  BY DEF CommandKnows, InitKnows, RestoreKnows, MigrateKnows, RebootstrapKnows, OthersKnow, Doing,
         CommandCalm, There

LEMMA RebootstrapMoves ==
  ASSUME Correct, NEW from \in Steps, At("rebootstrap", from)
  PROVE  /\ cmd # None /\ cmd.at = from /\ cmd.op = "rebootstrap" /\ cmd.who \in Agents
         /\ cmd \in AgentCommands /\ cmd.flag \in BOOLEAN
         /\ dir[cmd.who] # None /\ dir[cmd.who] \in Dirs
         /\ cmd.old \in Names /\ dir[cmd.who].box = cmd.old
         /\ IF cmd.flag THEN procs # None ELSE conf = None
         /\ from # "stop" => bot[cmd.who] = (IF cmd.flag THEN StoppedBot ELSE OffBot)
         /\ from \in {"boot", "start"} => ~dir[cmd.who].identity
         /\ \A at \in Steps : Goto(at) =>
              /\ cmd' \in AgentCommands /\ cmd' \in Opt(AgentCommands)
              /\ cmd'.op = "rebootstrap" /\ cmd'.at = at
              /\ cmd'.who = cmd.who /\ cmd'.old = cmd.old /\ cmd'.flag = cmd.flag
<1>1. cmd # None /\ cmd.op = "rebootstrap" /\ cmd.at = from /\ cmd.op \in Ops
  BY DEF At, Ops
<1>2. cmd.who \in Agents /\ cmd \in AgentCommands /\ cmd.flag \in BOOLEAN
  BY <1>1, CommandIs DEF Correct, TypeOK
<1>3. \A at \in Steps : Goto(at) =>
              /\ cmd' \in AgentCommands /\ cmd' \in Opt(AgentCommands)
              /\ cmd'.op = "rebootstrap" /\ cmd'.at = at
              /\ cmd'.who = cmd.who /\ cmd'.old = cmd.old /\ cmd'.flag = cmd.flag
  BY <1>1, Moves DEF Correct, TypeOK, Opt
<1>4. /\ dir[cmd.who] # None /\ cmd.old \in Names /\ dir[cmd.who].box = cmd.old
      /\ IF cmd.flag THEN procs # None ELSE conf = None
      /\ from # "stop" => bot[cmd.who] = (IF cmd.flag THEN StoppedBot ELSE OffBot)
      /\ from \in {"boot", "start"} => ~dir[cmd.who].identity
  BY <1>1 DEF Correct, CommandKnows, RebootstrapKnows, Doing, There
<1>5. QED  BY <1>1, <1>2, <1>3, <1>4, DirIs DEF Correct

LEMMA RebootstrapStopKeeps ==
  ASSUME Correct, RebootstrapStop
  PROVE  Correct'
<1>1. /\ {"stop", "session"} \subseteq Steps /\ At("rebootstrap", "stop") /\ Goto("session")
      /\ UNCHANGED <<dir, boxes, backups, conf, procs, clock, half, rewound>>
  BY DEF RebootstrapStop, Steps
<1>2. /\ cmd.who \in Agents /\ dir[cmd.who] # None /\ cmd.old \in Names
      /\ dir[cmd.who].box = cmd.old /\ cmd.flag \in BOOLEAN
      /\ IF cmd.flag THEN procs # None ELSE conf = None
      /\ cmd' \in AgentCommands /\ cmd' \in Opt(AgentCommands)
      /\ cmd'.op = "rebootstrap" /\ cmd'.at = "session"
      /\ cmd'.who = cmd.who /\ cmd'.old = cmd.old /\ cmd'.flag = cmd.flag
  BY <1>1, RebootstrapMoves
<1>3. CASE cmd.flag
  <2>1. cmd.who \in procs /\ bot' = [bot EXCEPT ![cmd.who] = StoppedBot]
    BY <1>3 DEF RebootstrapStop
  <2>2. bot'[cmd.who] = StoppedBot
    BY <1>2, <2>1 DEF Correct, TypeOK, ProcsTyped
  <2>3. CommandKnows' /\ CommandCalm
    BY <1>1, <1>2, <1>3, <2>2, RebootstrapToKnow
  <2>4. QED  BY <1>1, <1>2, <1>3, <2>1, <2>3, BotStep
<1>4. CASE ~cmd.flag
  <2>1. UNCHANGED bot /\ bot[cmd.who] = OffBot
    BY <1>2, <1>4 DEF RebootstrapStop, Correct, TypeOK, ProcsTyped
  <2>2. CommandKnows' /\ CommandCalm
    BY <1>1, <1>2, <1>4, <2>1, RebootstrapToKnow
  <2>3. QED  BY <1>1, <1>2, <2>1, <2>2, MoveKeeps
<1>5. QED  BY <1>2, <1>3, <1>4

LEMMA RebootstrapMoveKeeps ==
  ASSUME Correct, RebootstrapSession \/ RebootstrapRestart
  PROVE  Correct'
<1>1. CASE RebootstrapSession
  <2>1. PICK at \in {"sandbox", "host"} : Goto(at)
    BY <1>1 DEF RebootstrapSession
  <2>2. /\ {"session", "sandbox", "host"} \subseteq Steps /\ At("rebootstrap", "session")
        /\ UNCHANGED <<dir, boxes, backups, conf, procs, bot, clock, half, rewound>>
    BY <1>1 DEF RebootstrapSession, Steps
  <2>3. /\ cmd.who \in Agents /\ dir[cmd.who] # None /\ cmd.old \in Names
        /\ dir[cmd.who].box = cmd.old /\ cmd.flag \in BOOLEAN
        /\ IF cmd.flag THEN procs # None ELSE conf = None
        /\ bot[cmd.who] = (IF cmd.flag THEN StoppedBot ELSE OffBot)
        /\ cmd' \in AgentCommands /\ cmd' \in Opt(AgentCommands)
        /\ cmd'.op = "rebootstrap" /\ cmd'.at = at
        /\ cmd'.who = cmd.who /\ cmd'.old = cmd.old /\ cmd'.flag = cmd.flag
    BY <2>1, <2>2, RebootstrapMoves
  <2>4. CommandKnows' /\ CommandCalm
    BY <2>2, <2>3, RebootstrapToKnow
  <2>5. QED  BY <2>2, <2>3, <2>4, MoveKeeps
<1>2. CASE RebootstrapRestart
  <2>1. /\ "start" \in Steps /\ At("rebootstrap", "start") /\ cmd' = None
        /\ UNCHANGED <<dir, boxes, backups, conf, procs, clock, half, rewound>>
    BY <1>2 DEF RebootstrapRestart, Steps, Finish
  <2>2. cmd.who \in Agents /\ cmd' \in Opt(AgentCommands)
    BY <2>1, RebootstrapMoves DEF Opt
  <2>3. CASE bot' = [bot EXCEPT ![cmd.who] = OffBot]
    BY <2>1, <2>2, <2>3, BotStep, NothingToKnow
  <2>4. CASE UNCHANGED bot
    BY <2>1, <2>2, <2>4, MoveKeeps, NothingToKnow
  <2>5. QED  BY <1>2, <2>3, <2>4 DEF RebootstrapRestart
<1>3. QED  BY <1>1, <1>2

LEMMA RebootstrapSandboxKeeps ==
  ASSUME Correct, RebootstrapSandbox
  PROVE  Correct'
<1>1. /\ "sandbox" \in Steps /\ "host" \in Steps /\ At("rebootstrap", "sandbox")
      /\ UNCHANGED <<dir, backups, conf, procs, bot, clock, half, rewound>>
      /\ boxes[cmd.old] # None /\ boxes' = [boxes EXCEPT ![cmd.old].identity = FALSE]
      /\ cmd' = [cmd EXCEPT !.at = "host", !.new = cmd.old]
  BY DEF RebootstrapSandbox, Steps
<1>2. /\ cmd.who \in Agents /\ dir[cmd.who] # None /\ cmd.old \in Names
      /\ dir[cmd.who].box = cmd.old /\ cmd.flag \in BOOLEAN /\ cmd \in AgentCommands
      /\ IF cmd.flag THEN procs # None ELSE conf = None
      /\ bot[cmd.who] = (IF cmd.flag THEN StoppedBot ELSE OffBot)
      /\ cmd.op = "rebootstrap"
  BY <1>1, RebootstrapMoves
<1>3. /\ cmd' \in AgentCommands /\ cmd'.op = "rebootstrap" /\ cmd'.at = "host"
      /\ cmd'.who = cmd.who /\ cmd'.old = cmd.old /\ cmd'.flag = cmd.flag
  <2>1. PICK c : c = [cmd EXCEPT !.at = "host"]
    OBVIOUS
  <2>2. /\ c \in AgentCommands /\ c.op = "rebootstrap" /\ c.at = "host"
        /\ c.who = cmd.who /\ c.old = cmd.old /\ c.flag = cmd.flag
    BY <1>1, <1>2, <2>1 DEF AgentCommands
  <2>3. cmd' = [c EXCEPT !.new = cmd.old] /\ cmd.old \in Opt(Names)
    BY <1>1, <1>2, <2>1 DEF Opt
  <2>4. QED  BY <2>2, <2>3 DEF AgentCommands
<1>4. CommandKnows'
  BY <1>1, <1>2, <1>3, RebootstrapToKnow
<1>5. /\ boxes' \in [Names -> Opt(Stuffs)]
      /\ \A c \in Names : Introduced(c)' => Introduced(c)
  <2>1. boxes \in [Names -> Opt(Stuffs)] /\ boxes[cmd.old] \in Stuffs
    BY <1>1, <1>2 DEF Correct, TypeOK, FilesTyped, Opt
  <2>2. PICK t : t = [boxes[cmd.old] EXCEPT !.identity = FALSE]
    OBVIOUS
  <2>3. t \in Stuffs /\ t.identity = FALSE
    BY <2>1, <2>2 DEF Stuffs
  <2>4. boxes' = [boxes EXCEPT ![cmd.old] = t]
    BY <1>1, <2>2
  <2>5. QED  BY <1>2, <2>3, <2>4, Uploaded
<1>6. QED  BY <1>1, <1>3, <1>4, <1>5, BoxesKeep DEF Opt

LEMMA RebootstrapHostKeeps ==
  ASSUME Correct, RebootstrapHost
  PROVE  Correct'
<1>1. /\ {"host", "boot"} \subseteq Steps /\ At("rebootstrap", "host") /\ Goto("boot")
      /\ UNCHANGED <<boxes, backups, conf, procs, bot, clock, half, rewound>>
  BY DEF RebootstrapHost, Steps
<1>2. /\ cmd.who \in Agents /\ dir[cmd.who] # None /\ cmd.old \in Names /\ dir[cmd.who] \in Dirs
      /\ dir[cmd.who].box = cmd.old /\ cmd.flag \in BOOLEAN
      /\ IF cmd.flag THEN procs # None ELSE conf = None
      /\ bot[cmd.who] = (IF cmd.flag THEN StoppedBot ELSE OffBot)
      /\ cmd' \in AgentCommands /\ cmd' \in Opt(AgentCommands)
      /\ cmd'.op = "rebootstrap" /\ cmd'.at = "boot"
      /\ cmd'.who = cmd.who /\ cmd'.old = cmd.old /\ cmd'.flag = cmd.flag
  BY <1>1, RebootstrapMoves
<1>3. PICK d : d = [dir[cmd.who] EXCEPT !.identity = FALSE]
  OBVIOUS
<1>4. d \in Dirs /\ d.box = cmd.old /\ d.identity = FALSE /\ d.boot = dir[cmd.who].boot
  BY <1>2, <1>3, DirFields
<1>5. dir' = [dir EXCEPT ![cmd.who] = d] /\ d # None
  BY <1>3, <1>4, NoneIsNone DEF RebootstrapHost
<1>6. rewound' \subseteq rewound /\ (cmd.who \in rewound' => ~d.identity)
  BY <1>1, <1>4 DEF Correct, RewoundInv
<1>7. cmd.who \notin half' => d.box[1] = cmd.who
  BY <1>1, <1>2, <1>4 DEF Correct, OwnSandbox
<1>8. /\ d \in Opt(Dirs) /\ half' \subseteq Agents
      /\ clock' \in [minute : 1 .. MaxMinutes, minted : Nat, given : Nat]
  BY <1>1, <1>4 DEF Opt, Correct, TypeOK, FilesTyped, CommandTyped
<1>9. TypeOK' /\ OwnSandbox' /\ MigrationSafe' /\ RewoundInv' /\ dir'[cmd.who] = d
  <2>1. cmd.who \in rewound' => d # None /\ d.box = dir[cmd.who].box /\ ~d.identity
    BY <1>2, <1>4, <1>5, <1>6
  <2>2. /\ cmd' \in Opt(AgentCommands) /\ cmd'.op # "migrate"
        /\ d # None /\ cmd.who \notin half' => d.box[1] = cmd.who
        /\ \A c \in Agents : c # cmd.who => (c \in half <=> c \in half')
    BY <1>1, <1>2, <1>7
  <2>3. UNCHANGED <<boxes, backups, conf, procs, bot>> /\ rewound' \subseteq rewound
    BY <1>1, <1>6
  <2>4. QED  BY <1>2, <1>5, <1>8, <2>1, <2>2, <2>3, DirStep
<1>10. CommandKnows'
  BY <1>1, <1>2, <1>4, <1>5, <1>9, RebootstrapToKnow
<1>11. QED  BY <1>9, <1>10 DEF Correct

LEMMA RebootstrapBootKeeps ==
  ASSUME Correct, RebootstrapBoot
  PROVE  Correct'
<1>1. /\ {"boot", "start"} \subseteq Steps /\ At("rebootstrap", "boot") /\ Goto("start")
      /\ UNCHANGED <<boxes, backups, conf, procs, bot, clock, half>>
      /\ rewound' = rewound \/ (rewound' = rewound \cup {cmd.who} /\ ~Introduced(cmd.old))
  BY DEF RebootstrapBoot, Steps
<1>2. /\ cmd.who \in Agents /\ dir[cmd.who] # None /\ cmd.old \in Names /\ dir[cmd.who] \in Dirs
      /\ dir[cmd.who].box = cmd.old /\ cmd.flag \in BOOLEAN
      /\ IF cmd.flag THEN procs # None ELSE conf = None
      /\ bot[cmd.who] = (IF cmd.flag THEN StoppedBot ELSE OffBot)
      /\ ~dir[cmd.who].identity
      /\ cmd' \in AgentCommands /\ cmd' \in Opt(AgentCommands)
      /\ cmd'.op = "rebootstrap" /\ cmd'.at = "start"
      /\ cmd'.who = cmd.who /\ cmd'.old = cmd.old /\ cmd'.flag = cmd.flag
  BY <1>1, RebootstrapMoves
<1>3. PICK d : d = [dir[cmd.who] EXCEPT !.boot = TRUE]
  OBVIOUS
<1>4. d \in Dirs /\ d.box = cmd.old /\ ~d.identity /\ d.boot = TRUE
  BY <1>2, <1>3, DirFields
<1>5. dir' = [dir EXCEPT ![cmd.who] = d] /\ d # None
  BY <1>3, <1>4, NoneIsNone DEF RebootstrapBoot
<1>6. /\ dir' \in [Agents -> Opt(Dirs)] /\ dir'[cmd.who] = d
      /\ \A c \in Agents : c # cmd.who => dir'[c] = dir[c]
  BY <1>2, <1>4, <1>5 DEF Correct, TypeOK, FilesTyped, Opt
<1>7. TypeOK'
  BY <1>1, <1>2, <1>6 DEF Correct, TypeOK, FilesTyped, ProcsTyped, CommandTyped, Opt
<1>8. CommandKnows'
  BY <1>1, <1>2, <1>4, <1>5, <1>6, RebootstrapToKnow
<1>9. OwnSandbox' /\ MigrationSafe'
  BY <1>1, <1>2, <1>4, <1>6 DEF Correct, OwnSandbox, MigrationSafe, Migrating
<1>10. RewoundInv'
  <2>1. SUFFICES ASSUME NEW r \in rewound'
                 PROVE  /\ dir'[r] # None /\ ~dir'[r].identity
                        /\ ~Introduced(dir[r].box)'
                        /\ bot[r].yaml # None => ~Introduced(bot[r].yaml.box)
                        /\ bot[r].got # {TRUE}
    BY <1>1, <1>2 DEF RewoundInv, Doing, Introduced
  <2>2. CASE r \in rewound
    <3>1. /\ r \in Agents
          /\ dir[r] # None /\ ~dir[r].identity
          /\ ~Introduced(dir[r].box)
          /\ bot[r].yaml # None => ~Introduced(bot[r].yaml.box)
          /\ bot[r].got # {TRUE}
      BY <2>2 DEF Correct, RewoundInv, TypeOK, FilesTyped
    <3>2. dir'[r] # None /\ ~dir'[r].identity /\ dir'[r].box = dir[r].box
      <4>1. CASE r = cmd.who
        BY <1>2, <1>4, <1>5, <1>6, <4>1
      <4>2. CASE r # cmd.who
        BY <1>6, <3>1, <4>2
      <4>3. QED  BY <4>1, <4>2
    <3>3. ~Introduced(dir[r].box)'
      BY <1>1, <3>1, <3>2 DEF Introduced
    <3>4. QED  BY <3>1, <3>2, <3>3
  <2>3. CASE r = cmd.who /\ ~Introduced(cmd.old)
    <3>1. bot[r].yaml = None /\ bot[r].got # {TRUE}
      BY <1>2, <2>3, OffBotIs, NoneIsNone
    <3>2. ~Introduced(dir[r].box)'
      BY <1>1, <1>4, <1>6, <2>3 DEF Introduced
    <3>3. QED  BY <1>4, <1>5, <1>6, <2>3, <3>1, <3>2
  <2>4. QED  BY <1>1, <2>2, <2>3
<1>11. QED  BY <1>7, <1>8, <1>9, <1>10 DEF Correct

-----------------------------------------------------------------------------
(* The migration.                                                          *)
LEMMA MigrateToKnow ==
  ASSUME cmd' \in AgentCommands, cmd'.op = "migrate", dir'[cmd'.who] # None,
         cmd'.new \in Names, cmd'.new[1] = cmd'.who, cmd'.old \in Names,
         dir'[cmd'.who].box = (IF cmd'.at = "delete" THEN cmd'.new ELSE cmd'.old),
         cmd'.at # "tar" => cmd'.tar \in Stuffs
  PROVE  CommandKnows'
  BY DEF CommandKnows, InitKnows, RestoreKnows, MigrateKnows, RebootstrapKnows, OthersKnow, Doing,
         There

\* What a migration knows at step `from`, and what `at` keeps of it.
LEMMA MigrateMoves ==
  ASSUME Correct, NEW from \in Steps, At("migrate", from)
  PROVE  /\ cmd # None /\ cmd.at = from /\ cmd.op = "migrate" /\ cmd.who \in Agents
         /\ cmd \in AgentCommands /\ Doing("migrate", Steps)
         /\ dir[cmd.who] # None /\ dir[cmd.who] \in Dirs
         /\ cmd.old \in Names /\ cmd.new \in Names /\ cmd.new[1] = cmd.who
         /\ dir[cmd.who].box = (IF from = "delete" THEN cmd.new ELSE cmd.old)
         /\ from # "tar" => cmd.tar \in Stuffs /\ cmd.tar # None
         /\ \A at \in Steps : Goto(at) =>
              /\ cmd' \in AgentCommands /\ cmd' \in Opt(AgentCommands)
              /\ cmd'.op = "migrate" /\ cmd'.at = at
              /\ cmd'.who = cmd.who /\ cmd'.old = cmd.old /\ cmd'.new = cmd.new
              /\ cmd'.tar = cmd.tar
<1>1. cmd # None /\ cmd.op = "migrate" /\ cmd.at = from /\ cmd.op \in Ops
  BY DEF At, Ops
<1>2. cmd.who \in Agents /\ cmd \in AgentCommands /\ Doing("migrate", Steps)
  BY <1>1, CommandIs DEF Correct, TypeOK
<1>3. \A at \in Steps : Goto(at) =>
              /\ cmd' \in AgentCommands /\ cmd' \in Opt(AgentCommands)
              /\ cmd'.op = "migrate" /\ cmd'.at = at
              /\ cmd'.who = cmd.who /\ cmd'.old = cmd.old /\ cmd'.new = cmd.new
              /\ cmd'.tar = cmd.tar
  BY <1>1, Moves DEF Correct, TypeOK, Opt
<1>4. /\ dir[cmd.who] # None /\ cmd.old \in Names /\ cmd.new \in Names /\ cmd.new[1] = cmd.who
      /\ dir[cmd.who].box = (IF from = "delete" THEN cmd.new ELSE cmd.old)
      /\ from # "tar" => cmd.tar \in Stuffs
  BY <1>1, <1>2 DEF Correct, CommandKnows, MigrateKnows, There
<1>5. QED  BY <1>1, <1>2, <1>3, <1>4, DirIs, NoneIsNone DEF Correct

LEMMA MigrateTarKeeps ==
  ASSUME Correct, MigrateTar
  PROVE  Correct'
<1>1. /\ {"tar", "box"} \subseteq Steps /\ At("migrate", "tar")
      /\ UNCHANGED <<dir, boxes, conf, procs, bot, clock, half, rewound>>
      /\ boxes[cmd.old] # None
      /\ backups' = [backups EXCEPT ![cmd.new].tar = boxes[cmd.old]]
      /\ cmd' = [cmd EXCEPT !.at = "box", !.tar = boxes[cmd.old]]
  BY DEF MigrateTar, Steps, SandboxReady, Tarred
<1>2. /\ cmd # None /\ cmd.op = "migrate" /\ cmd.who \in Agents
      /\ cmd \in AgentCommands /\ Doing("migrate", Steps)
      /\ dir[cmd.who] # None /\ cmd.old \in Names /\ cmd.new \in Names /\ cmd.new[1] = cmd.who
      /\ dir[cmd.who].box = cmd.old
  BY <1>1, MigrateMoves
<1>3. PICK t \in Stuffs : t = boxes[cmd.old]
  BY <1>1, <1>2 DEF Correct, TypeOK, FilesTyped, Opt
<1>4. /\ cmd' \in AgentCommands /\ cmd'.op = "migrate" /\ cmd'.at = "box" /\ cmd'.tar = t
      /\ cmd'.who = cmd.who /\ cmd'.old = cmd.old /\ cmd'.new = cmd.new
  <2>1. PICK c : c = [cmd EXCEPT !.at = "box"]
    OBVIOUS
  <2>2. /\ c \in AgentCommands /\ c.op = "migrate" /\ c.at = "box"
        /\ c.who = cmd.who /\ c.old = cmd.old /\ c.new = cmd.new
    BY <1>1, <1>2, <2>1 DEF AgentCommands
  <2>3. cmd' = [c EXCEPT !.tar = t] /\ t \in Opt(Stuffs)
    BY <1>1, <1>3, <2>1 DEF Opt
  <2>4. QED  BY <2>2, <2>3 DEF AgentCommands
<1>5. CommandKnows'
  BY <1>1, <1>2, <1>3, <1>4, MigrateToKnow
<1>6. TypeOK'
  <2>1. backups' \in [Names -> [tar : Opt(Stuffs), yaml : Opt(Yamls)]]
    <3>1. t \in Opt(Stuffs) /\ None \in Opt(Yamls)
      BY DEF Opt
    <3>2. QED  BY <1>1, <1>2, <1>3, <3>1, BackupTyped DEF Correct
  <2>2. QED  BY <1>1, <1>4, <2>1 DEF Correct, TypeOK, FilesTyped, ProcsTyped, CommandTyped, Opt
<1>7. OwnSandbox'
  BY <1>1 DEF Correct, OwnSandbox
<1>8. MigrationSafe'
  <2>1. t.work \in Nat
    BY DEF Stuffs
  <2>2. Holds(dir[cmd.who].box, cmd.tar)'
    BY <1>1, <1>2, <1>3, <1>4, <2>1 DEF Holds
  <2>3. QED  BY <1>4, <2>2 DEF MigrationSafe
<1>9. RewoundInv'
  <2>1. cmd.who \in rewound => ~t.identity
    BY <1>1, <1>2, <1>3 DEF Correct, RewoundInv, Introduced
  <2>2. QED  BY <1>1, <1>2, <1>4, <2>1 DEF Correct, RewoundInv, Introduced, Doing
<1>10. QED  BY <1>5, <1>6, <1>7, <1>8, <1>9 DEF Correct

LEMMA MigrateBoxKeeps ==
  ASSUME Correct, MigrateBox
  PROVE  Correct'
<1>1. /\ {"box", "upload"} \subseteq Steps /\ At("migrate", "box") /\ Goto("upload")
      /\ UNCHANGED <<dir, backups, conf, procs, bot, clock, half, rewound>>
      /\ Spawned(cmd.new, cmd.who)
  BY DEF MigrateBox, Steps
<1>2. /\ cmd # None /\ cmd.op = "migrate" /\ cmd.who \in Agents
      /\ cmd \in AgentCommands /\ Doing("migrate", Steps)
      /\ dir[cmd.who] # None /\ cmd.old \in Names /\ cmd.new \in Names /\ cmd.new[1] = cmd.who
      /\ dir[cmd.who].box = cmd.old /\ cmd.tar \in Stuffs
      /\ cmd' \in AgentCommands /\ cmd'.op = "migrate" /\ cmd'.at = "upload"
      /\ cmd'.who = cmd.who /\ cmd'.old = cmd.old /\ cmd'.new = cmd.new /\ cmd'.tar = cmd.tar
  BY <1>1, MigrateMoves
<1>3. CommandKnows'
  BY <1>1, <1>2, MigrateToKnow
<1>4. /\ boxes' \in [Names -> Opt(Stuffs)]
      /\ \A c \in Names : Introduced(c)' => Introduced(c)
      /\ \A c \in Names : c # cmd.new => boxes'[c] = boxes[c]
  BY <1>1, <1>2, BoxesMade DEF Correct
<1>5. TypeOK'
  BY <1>1, <1>2, <1>4 DEF Correct, TypeOK, FilesTyped, ProcsTyped, CommandTyped, Opt
<1>6. OwnSandbox'
  BY <1>1 DEF Correct, OwnSandbox
<1>7. MigrationSafe'
  BY <1>1, <1>2, <1>4 DEF Correct, MigrationSafe, Migrating, Holds
<1>8. RewoundInv'
  <2>1. SUFFICES ASSUME NEW r \in rewound
                 PROVE  /\ dir[r] # None /\ ~dir[r].identity
                        /\ ~Introduced(dir[r].box)'
                        /\ bot[r].yaml # None => ~Introduced(bot[r].yaml.box)'
                        /\ bot[r].got # {TRUE}
                        /\ r = cmd.who => ~cmd.tar.identity
    BY <1>1, <1>2 DEF RewoundInv, Doing
  <2>2. /\ r \in Agents
        /\ dir[r] # None /\ ~dir[r].identity
        /\ ~Introduced(dir[r].box)
        /\ bot[r].yaml # None => ~Introduced(bot[r].yaml.box)
        /\ bot[r].got # {TRUE}
        /\ r = cmd.who /\ cmd.tar # None => ~cmd.tar.identity
    BY <1>2 DEF Correct, RewoundInv, TypeOK, FilesTyped
  <2>3. /\ dir[r].box \in Names
        /\ bot[r].yaml # None => bot[r].yaml.box \in Names
    BY <2>2, DirIs DEF Correct, TypeOK, ProcsTyped, Bots, BotStates, Opt, Yamls
  <2>4. cmd.tar # None
    BY <1>2, NoneIsNone
  <2>5. ~Introduced(dir[r].box)'
    BY <1>1, <1>4, <2>2, <2>3
  <2>6. bot[r].yaml # None => ~Introduced(bot[r].yaml.box)'
    BY <1>1, <1>4, <2>2, <2>3
  <2>7. QED  BY <2>2, <2>4, <2>5, <2>6
<1>9. QED  BY <1>3, <1>5, <1>6, <1>7, <1>8 DEF Correct

LEMMA MigrateUploadKeeps ==
  ASSUME Correct, MigrateUpload
  PROVE  Correct'
<1>1. /\ {"upload", "name"} \subseteq Steps /\ At("migrate", "upload") /\ Goto("name")
      /\ UNCHANGED <<dir, backups, conf, procs, bot, clock, half>>
      /\ boxes' = [boxes EXCEPT ![cmd.new] = cmd.tar]
      /\ rewound' = IF cmd.tar.identity
                    THEN RewoundBut(cmd.new) \cup (rewound \cap {cmd.who}) ELSE rewound
  BY DEF MigrateUpload, Steps
<1>2. /\ cmd # None /\ cmd.op = "migrate" /\ cmd.who \in Agents
      /\ cmd \in AgentCommands /\ Doing("migrate", Steps)
      /\ dir[cmd.who] # None /\ cmd.old \in Names /\ cmd.new \in Names /\ cmd.new[1] = cmd.who
      /\ dir[cmd.who].box = cmd.old /\ cmd.tar \in Stuffs /\ cmd.tar # None
      /\ cmd' \in AgentCommands /\ cmd'.op = "migrate" /\ cmd'.at = "name"
      /\ cmd'.who = cmd.who /\ cmd'.old = cmd.old /\ cmd'.new = cmd.new /\ cmd'.tar = cmd.tar
  BY <1>1, MigrateMoves
<1>3. CommandKnows'
  BY <1>1, <1>2, MigrateToKnow
<1>4. rewound' \subseteq rewound
  BY <1>1 DEF RewoundBut
<1>5. /\ boxes' \in [Names -> Opt(Stuffs)] /\ boxes'[cmd.new] = cmd.tar
      /\ \A c \in Names : c # cmd.new => boxes'[c] = boxes[c] /\ (Introduced(c)' <=> Introduced(c))
      /\ Introduced(cmd.new)' <=> cmd.tar.identity
  BY <1>1, <1>2, Uploaded
<1>6. TypeOK'
  BY <1>1, <1>2, <1>4, <1>5 DEF Correct, TypeOK, FilesTyped, ProcsTyped, CommandTyped, Opt
<1>7. OwnSandbox'
  BY <1>1 DEF Correct, OwnSandbox
<1>8. MigrationSafe'
  <2>1. SUFFICES ASSUME Migrating'
                 PROVE  Holds(cmd.old, cmd.tar)' /\ Holds(cmd.new, cmd.tar)'
    BY <1>1, <1>2 DEF MigrationSafe
  <2>2. cmd.new # cmd.old /\ Migrating
    BY <1>2, <2>1 DEF Migrating
  <2>3. Holds(cmd.old, cmd.tar)
    BY <1>2, <2>2 DEF Correct, MigrationSafe
  <2>4. cmd.tar.work \in Nat
    BY <1>2 DEF Stuffs
  <2>5. QED  BY <1>2, <1>5, <2>2, <2>3, <2>4 DEF Holds
<1>9. RewoundInv'
  <2>1. SUFFICES ASSUME NEW r \in rewound'
                 PROVE  /\ dir[r] # None /\ ~dir[r].identity
                        /\ ~Introduced(dir[r].box)'
                        /\ bot[r].yaml # None => ~Introduced(bot[r].yaml.box)'
                        /\ bot[r].got # {TRUE}
                        /\ r = cmd.who => ~cmd.tar.identity /\ ~Introduced(cmd.new)'
    BY <1>1, <1>2 DEF RewoundInv, Doing
  <2>2. /\ r \in rewound /\ r \in Agents
        /\ dir[r] # None /\ ~dir[r].identity
        /\ ~Introduced(dir[r].box)
        /\ bot[r].yaml # None => ~Introduced(bot[r].yaml.box)
        /\ bot[r].got # {TRUE}
        /\ r = cmd.who => ~cmd.tar.identity
    BY <1>2, <1>4 DEF Correct, RewoundInv, TypeOK, FilesTyped
  <2>3. ASSUME NEW c \in Names, ~Introduced(c), cmd.tar.identity => c # cmd.new
        PROVE  ~Introduced(c)'
    BY <1>2, <1>5, <2>3
  <2>4. cmd.tar.identity => /\ dir[r].box # cmd.new
                            /\ bot[r].yaml # None => bot[r].yaml.box # cmd.new
    BY <1>1, <2>2 DEF RewoundBut, Uses
  <2>5. /\ dir[r].box \in Names
        /\ bot[r].yaml # None => bot[r].yaml.box \in Names
    BY <2>2, DirIs DEF Correct, TypeOK, ProcsTyped, Bots, BotStates, Opt, Yamls
  <2>6. ~Introduced(dir[r].box)'
    BY <1>1, <2>2, <2>3, <2>4, <2>5
  <2>7. bot[r].yaml # None => ~Introduced(bot[r].yaml.box)'
    BY <1>1, <2>2, <2>3, <2>4, <2>5
  <2>8. r = cmd.who => ~Introduced(cmd.new)'
    BY <1>2, <1>5, <2>2
  <2>9. QED  BY <2>2, <2>6, <2>7, <2>8
<1>10. QED  BY <1>3, <1>6, <1>7, <1>8, <1>9 DEF Correct

LEMMA MigrateEndKeeps ==
  ASSUME Correct, MigrateRollback \/ MigrateDelete
  PROVE  /\ Correct'
         /\ Migrating => boxes'[dir'[cmd.who].box] = boxes[dir[cmd.who].box]
<1>0. PICK from \in {"upload", "delete"} :
        \E b : /\ At("migrate", from) /\ DeletedIfPossible(b)
               /\ b = (IF from = "upload" THEN cmd.new ELSE cmd.old)
  BY DEF MigrateRollback, MigrateDelete
<1>1. PICK b : /\ At("migrate", from) /\ DeletedIfPossible(b)
               /\ b = (IF from = "upload" THEN cmd.new ELSE cmd.old)
  BY <1>0
<1>2. /\ cmd' = None /\ UNCHANGED <<dir, backups, conf, procs, bot, clock, half, rewound>>
  BY DEF MigrateRollback, MigrateDelete, Finish
<1>3. {"upload", "delete"} \subseteq Steps
  BY DEF Steps
<1>4. /\ cmd.who \in Agents /\ cmd.old \in Names /\ cmd.new \in Names
      /\ dir[cmd.who] # None /\ dir[cmd.who] \in Dirs
      /\ dir[cmd.who].box = (IF from = "delete" THEN cmd.new ELSE cmd.old)
  BY <1>1, <1>3, MigrateMoves
<1>5. b \in Names
  BY <1>1, <1>4
<1>6. /\ boxes' \in [Names -> Opt(Stuffs)]
      /\ \A c \in Names : Introduced(c)' => Introduced(c)
      /\ \A c \in Names : c # b => boxes'[c] = boxes[c]
  BY <1>1, <1>4, <1>5, BoxesMade DEF Correct
<1>7. Correct'
  BY <1>2, <1>6, BoxesKeep, NothingToKnow DEF Opt
<1>8. Migrating => boxes'[dir'[cmd.who].box] = boxes[dir[cmd.who].box]
  BY <1>1, <1>2, <1>4, <1>6 DEF Migrating
<1>9. QED  BY <1>7, <1>8

LEMMA MigrateNameKeeps ==
  ASSUME Correct, MigrateName
  PROVE  Correct'
<1>1. /\ {"name", "delete"} \subseteq Steps /\ At("migrate", "name") /\ Goto("delete")
      /\ UNCHANGED <<boxes, backups, conf, procs, bot, clock, half, rewound>>
  BY DEF MigrateName, Steps
<1>2. /\ cmd # None /\ cmd.op = "migrate" /\ cmd.who \in Agents /\ cmd.at = "name"
      /\ cmd \in AgentCommands /\ Doing("migrate", Steps)
      /\ dir[cmd.who] # None /\ dir[cmd.who] \in Dirs
      /\ cmd.old \in Names /\ cmd.new \in Names /\ cmd.new[1] = cmd.who
      /\ dir[cmd.who].box = cmd.old /\ cmd.tar \in Stuffs /\ cmd.tar # None
      /\ cmd' \in AgentCommands /\ cmd'.op = "migrate" /\ cmd'.at = "delete"
      /\ cmd'.who = cmd.who /\ cmd'.old = cmd.old /\ cmd'.new = cmd.new /\ cmd'.tar = cmd.tar
  BY <1>1, MigrateMoves
<1>3. PICK d : d = [dir[cmd.who] EXCEPT !.box = cmd.new]
  OBVIOUS
<1>4. /\ d \in Dirs /\ d # None /\ d.box = cmd.new /\ d.identity = dir[cmd.who].identity
      /\ d.boot = dir[cmd.who].boot
  BY <1>2, <1>3, DirFields, NoneIsNone
<1>5. dir' = [dir EXCEPT ![cmd.who] = d]
  BY <1>3 DEF MigrateName
<1>6. /\ dir' \in [Agents -> Opt(Dirs)] /\ dir'[cmd.who] = d
      /\ \A c \in Agents : c # cmd.who => dir'[c] = dir[c]
  BY <1>2, <1>4, <1>5 DEF Correct, TypeOK, FilesTyped, Opt
<1>7. TypeOK'
  BY <1>1, <1>2, <1>6 DEF Correct, TypeOK, FilesTyped, ProcsTyped, CommandTyped, Opt
<1>8. CommandKnows'
  BY <1>1, <1>2, <1>4, <1>6, MigrateToKnow
<1>9. OwnSandbox'
  BY <1>1, <1>2, <1>4, <1>6 DEF Correct, OwnSandbox
<1>10. MigrationSafe'
  <2>1. SUFFICES ASSUME Migrating'
                 PROVE  Holds(cmd.new, cmd.tar)
    BY <1>1, <1>2, <1>4, <1>6 DEF MigrationSafe, Holds
  <2>2. Migrating
    BY <1>2, <2>1 DEF Migrating
  <2>3. QED  BY <1>2, <2>2 DEF Correct, MigrationSafe
<1>11. RewoundInv'
  <2>1. SUFFICES ASSUME NEW r \in rewound
                 PROVE  /\ dir'[r] # None /\ ~dir'[r].identity
                        /\ ~Introduced(dir'[r].box)
                        /\ bot[r].yaml # None => ~Introduced(bot[r].yaml.box)
                        /\ bot[r].got # {TRUE}
                        /\ r = cmd.who => ~cmd.tar.identity
    BY <1>1, <1>2 DEF RewoundInv, Doing, Introduced
  <2>2. /\ r \in Agents
        /\ dir[r] # None /\ ~dir[r].identity
        /\ ~Introduced(dir[r].box)
        /\ bot[r].yaml # None => ~Introduced(bot[r].yaml.box)
        /\ bot[r].got # {TRUE}
        /\ r = cmd.who => ~cmd.tar.identity /\ ~Introduced(cmd.new)
    BY <1>2 DEF Correct, RewoundInv, TypeOK, FilesTyped
  <2>3. CASE r = cmd.who
    BY <1>4, <1>6, <2>2, <2>3
  <2>4. CASE r # cmd.who
    BY <1>6, <2>2, <2>4
  <2>5. QED  BY <2>3, <2>4
<1>12. QED  BY <1>7, <1>8, <1>9, <1>10, <1>11 DEF Correct

-----------------------------------------------------------------------------
(* The theorems.                                                           *)
LEMMA InitCorrect == Init => Correct
<1> SUFFICES ASSUME Init  PROVE  Correct
  OBVIOUS
<1>1. /\ dir = [a \in Agents |-> None] /\ boxes = [b \in Names |-> None]
      /\ backups = [b \in Names |-> [tar |-> None, yaml |-> None]]
      /\ conf = None /\ procs = None /\ bot = [a \in Agents |-> OffBot] /\ cmd = None
      /\ clock = [minute |-> 1, minted |-> 0, given |-> 0] /\ half = {} /\ rewound = {}
  BY DEF Init
<1>2. FilesTyped
  <2>1. [tar |-> None, yaml |-> None] \in [tar : Opt(Stuffs), yaml : Opt(Yamls)]
    BY DEF Opt
  <2>2. backups \in [Names -> [tar : Opt(Stuffs), yaml : Opt(Yamls)]]
    BY <1>1, <2>1
  <2>3. QED  BY <1>1, <2>2 DEF FilesTyped, Opt
<1>3. ProcsTyped
  BY <1>1, OffBotIs DEF ProcsTyped, Opt
<1>4. CommandTyped
  BY <1>1, BoundsAssumption DEF CommandTyped, Opt
<1>5. CommandKnows
  BY <1>1 DEF CommandKnows, InitKnows, RestoreKnows, MigrateKnows, RebootstrapKnows, OthersKnow,
              Doing
<1>6. OwnSandbox /\ MigrationSafe /\ RewoundInv
  BY <1>1 DEF OwnSandbox, MigrationSafe, Migrating, RewoundInv
<1>7. QED  BY <1>2, <1>3, <1>4, <1>5, <1>6 DEF Correct, TypeOK

LEMMA StutterKeeps ==
  ASSUME Correct, UNCHANGED vars
  PROVE  Correct'
<1>1. UNCHANGED <<dir, boxes, backups, conf, procs, bot, cmd, clock, half, rewound>>
  BY DEF vars
<1>2. ProcsTyped' /\ CommandTyped'
  BY <1>1 DEF Correct, TypeOK, ProcsTyped, CommandTyped
<1>3. CommandKnows' /\ CommandCalm
  BY <1>1, KnowsStays, CommandSame DEF Correct, TypeOK
<1>4. QED  BY <1>1, <1>2, <1>3, HostQuiet, BotsSame

LEMMA StepCorrect == Correct /\ [Next]_vars => Correct'
<1> SUFFICES ASSUME Correct, [Next]_vars  PROVE  Correct'
  OBVIOUS
<1>1. CASE Starts
  BY <1>1, InitStartKeeps, BackupStartKeeps, RestoreStartKeeps, MigrateStartKeeps,
     RebootstrapStartKeeps DEF Starts
<1>2. CASE HomeSteps
  BY <1>2, HomeStartKeeps, CreateKeeps, InitCodegenKeeps, InitBoxKeeps DEF HomeSteps
<1>3. CASE InitSteps
  BY <1>3, InitBoxKeeps, RemoveKeeps, CreateKeeps, InitCodegenKeeps, SecretKeeps, EnsureKeeps,
     RegisterKeeps, InitRestoresKeeps DEF InitSteps
<1>4. CASE CopySteps
  BY <1>4, BackupKeeps, CopyKeeps, RestoreBoxKeeps, UploadKeeps, RestoreNameKeeps DEF CopySteps
<1>5. CASE MigrateSteps
  BY <1>5, MigrateTarKeeps, MigrateBoxKeeps, MigrateUploadKeeps, MigrateNameKeeps, MigrateEndKeeps
  DEF MigrateSteps
<1>6. CASE DestroySteps
  BY <1>6, DestroyStopKeeps, BackupKeeps, DestroyDeleteKeeps, RemoveKeeps, RegisterKeeps
  DEF DestroySteps
<1>7. CASE RebootstrapSteps
  BY <1>7, RebootstrapStopKeeps, RebootstrapMoveKeeps, RebootstrapSandboxKeeps,
     RebootstrapHostKeeps, RebootstrapBootKeeps DEF RebootstrapSteps
<1>8. CASE RuntimeSteps
  BY <1>8, ReloadKeeps, HostKeeps, DownKeeps DEF RuntimeSteps
<1>9. CASE BotSteps
  BY <1>9, StartKeeps, WatchKeeps, TurnKeeps, FetchKeeps, StoreKeeps DEF BotSteps
<1>10. CASE Minute
  BY <1>10, MinuteKeeps
<1>11. CASE Interrupted
  BY <1>11, HostKeeps
<1>12. CASE CallSteps
  BY <1>12, CallsKeep, RemovesKeeps DEF CallSteps
<1>13. CASE UNCHANGED vars
  BY <1>13, StutterKeeps
<1>14. QED
  BY <1>1, <1>2, <1>3, <1>4, <1>5, <1>6, <1>7, <1>8, <1>9, <1>10, <1>11, <1>12, <1>13 DEF Next

-----------------------------------------------------------------------------
(* bootstrap_done against a rebootstrap.                                   *)
CallTyped ==
  agg # None => /\ agg = [known |-> agg.known, call |-> agg.call, map |-> agg.map]
                /\ agg.call \in Opt(Calls)
BootKept == \A a \in rewound \ outrun : dir[a].boot /\ ~Finding(a)
Onboarding == CallTyped /\ BootKept

\* The aggregator is gone, or at the call it was at, or at none.
CallCalm ==
  agg' # None => /\ agg' = [known |-> agg'.known, call |-> agg'.call, map |-> agg'.map]
                 /\ agg'.call = None \/ (agg # None /\ agg'.call = agg.call)

LEMMA AggSame ==
  ASSUME CallTyped, UNCHANGED agg
  PROVE  CallCalm
  BY DEF CallTyped, CallCalm

\* No rewound agent loses BOOTSTRAP.md, and no call of one finds an identity.
LEMMA BootCalm ==
  ASSUME Correct, Onboarding, CallCalm, rewound' \subseteq rewound, outrun' = outrun,
         \A a \in rewound' : dir'[a].boot = dir[a].boot,
         \A a \in rewound', b \in Names :
             Calling(a) /\ agg.call.box = b /\ Introduced(b)' => Introduced(b)
  PROVE  Onboarding'
<1>1. CallTyped'
  BY DEF Onboarding, CallTyped, CallCalm, Opt
<1>2. BootKept'
  <2>1. SUFFICES ASSUME NEW a \in rewound', a \notin outrun'
                 PROVE  dir'[a].boot /\ ~Finding(a)'
    BY DEF BootKept
  <2>2. dir[a].boot /\ ~Finding(a)
    BY <2>1 DEF Onboarding, BootKept
  <2>3. dir'[a].boot
    BY <2>1, <2>2
  <2>4. ASSUME Calling(a)'  PROVE  ~(agg'.call.found \/ Introduced(agg.call.box)')
    <3>1. Calling(a) /\ agg'.call = agg.call /\ agg.call \in Calls
      BY <2>4 DEF Calling, CallCalm, Onboarding, CallTyped, Opt
    <3>2. agg.call.box \in Names /\ ~agg.call.found /\ ~Introduced(agg.call.box)
      BY <2>2, <3>1 DEF Finding, Calls
    <3>3. ~Introduced(agg.call.box)'
      BY <2>1, <3>1, <3>2 DEF Introduced
    <3>4. QED  BY <3>1, <3>2, <3>3
  <2>5. QED  BY <2>3, <2>4 DEF Finding
<1>3. QED  BY <1>1, <1>2 DEF Onboarding

\* Steps that leave the directories and the sandboxes.
LEMMA BootAsIs ==
  ASSUME Correct, Onboarding, CallCalm, UNCHANGED <<dir, boxes, rewound, outrun>>
  PROVE  Onboarding'
  BY BootCalm DEF Introduced

\* Steps after which the directories have at most new secrets.
LEMMA BootMinted ==
  ASSUME Correct, Onboarding, SameDirs, UNCHANGED <<boxes, agg, rewound, outrun>>
  PROVE  Onboarding'
<1>1. \A a \in rewound' : dir'[a].boot = dir[a].boot
  BY DEF SameDirs, Correct, RewoundInv, TypeOK, FilesTyped
<1>2. QED  BY <1>1, BootCalm, AggSame DEF Introduced, Onboarding

\* Steps that change one directory.
LEMMA BootDir ==
  ASSUME Correct, Onboarding, NEW w \in Agents, NEW d, dir' = [dir EXCEPT ![w] = d],
         w \in rewound' => d.boot = dir[w].boot,
         CallCalm, UNCHANGED <<boxes, outrun>>, rewound' \subseteq rewound
  PROVE  Onboarding'
<1>1. \A a \in rewound' : dir'[a].boot = dir[a].boot
  BY DEF Correct, TypeOK, FilesTyped
<1>2. QED  BY <1>1, BootCalm DEF Introduced

\* Steps that bring no identity into a sandbox.
LEMMA BootBoxes ==
  ASSUME Correct, Onboarding, UNCHANGED <<dir, agg, rewound, outrun>>,
         \A b \in Names : Introduced(b)' => Introduced(b)
  PROVE  Onboarding'
  BY BootCalm, AggSame DEF Onboarding

\* A directory keeps BOOTSTRAP.md, or the want of it.
LEMMA BootFields ==
  ASSUME Correct, NEW a \in Agents, dir[a] # None
  PROVE  /\ \A n \in Nat : [dir[a] EXCEPT !.secret = n].boot = dir[a].boot
         /\ \A b \in Names : [dir[a] EXCEPT !.box = b].boot = dir[a].boot
         /\ \A i \in BOOLEAN : [dir[a] EXCEPT !.identity = i].boot = dir[a].boot
  BY YamlIs, DirFields DEF Correct, TypeOK

LEMMA BootInCall ==
  ASSUME Correct, Onboarding, CallSteps
  PROVE  Onboarding'
<1>1. CASE DoneFails
  <2>1. agg' = [known |-> agg.known, call |-> None, map |-> agg.map]
    BY <1>1 DEF DoneFails, Onboarding, CallTyped
  <2>2. CallCalm
    BY <2>1 DEF CallCalm
  <2>3. QED  BY <1>1, <2>2, BootAsIs DEF DoneFails
<1>2. CASE DoneRemoves
  <2>1. agg' = [known |-> agg.known, call |-> None, map |-> agg.map]
    BY <1>2 DEF DoneRemoves, Onboarding, CallTyped
  <2>2. CallCalm
    BY <2>1 DEF CallCalm
  <2>3. PICK w : w = agg.call.who
    OBVIOUS
  <2>4. w \in Agents /\ Finding(w)
    BY <1>2, <2>3 DEF DoneRemoves, Onboarding, CallTyped, Opt, Calls, Finding, Calling
  <2>5. w \notin rewound \ outrun
    BY <2>4 DEF Onboarding, BootKept
  <2>6. \A a \in rewound \ outrun : dir'[a] = dir[a]
    BY <1>2, <2>3, <2>5 DEF DoneRemoves, Correct, TypeOK, FilesTyped
  <2>7. CallTyped' /\ \A a : ~Finding(a)'
    BY <2>1 DEF CallTyped, Opt, Finding, Calling
  <2>8. QED  BY <1>2, <2>6, <2>7 DEF DoneRemoves, Onboarding, BootKept
<1>3. CASE DoneChecks
  <2>1. /\ agg # None /\ agg.call \in Calls /\ Introduced(agg.call.box)
        /\ agg = [known |-> agg.known, call |-> agg.call, map |-> agg.map]
    BY <1>3 DEF DoneChecks, Onboarding, CallTyped, Opt
  <2>2. PICK c : c = [agg.call EXCEPT !.found = TRUE]
    OBVIOUS
  <2>3. c \in Calls /\ c.who = agg.call.who
    BY <2>1, <2>2 DEF Calls
  <2>4. agg' = [known |-> agg.known, call |-> c, map |-> agg.map]
    BY <1>3, <2>1, <2>2 DEF DoneChecks
  <2>5. Finding(c.who)
    BY <1>3, <2>1, <2>3 DEF DoneChecks, Finding, Calling
  <2>6. \A a \in rewound \ outrun : ~Finding(a)'
    BY <2>4, <2>5 DEF Onboarding, BootKept, Finding, Calling
  <2>7. CallTyped'
    BY <2>3, <2>4 DEF CallTyped, Opt
  <2>8. QED  BY <1>3, <2>6, <2>7 DEF DoneChecks, Onboarding, BootKept
<1>4. ASSUME NEW w \in Agents, DoneBegins(w)  PROVE  Onboarding'
  <2>1. PICK b \in Names : /\ b = IF dir[w] = None THEN Default(w) ELSE dir[w].box
                           /\ agg' = [agg EXCEPT !.call =
                                         [who |-> w, box |-> b, found |-> FALSE]]
    BY <1>4 DEF DoneBegins
  <2>2. PICK c : c = [who |-> w, box |-> b, found |-> FALSE]
    OBVIOUS
  <2>3. c \in Calls /\ c.who = w /\ c.box = b /\ c.found = FALSE
    BY <2>2 DEF Calls
  <2>4. agg' = [known |-> agg.known, call |-> c, map |-> agg.map]
    BY <1>4, <2>1, <2>2 DEF DoneBegins, Onboarding, CallTyped
  <2>5. w \in rewound => ~Introduced(b)
    BY <2>1 DEF Correct, RewoundInv
  <2>6. \A a \in rewound \ outrun : ~Finding(a)'
    BY <1>4, <2>3, <2>4, <2>5 DEF DoneBegins, Finding, Calling, Introduced
  <2>7. CallTyped'
    BY <2>3, <2>4 DEF CallTyped, Opt
  <2>8. QED  BY <1>4, <2>6, <2>7 DEF DoneBegins, Onboarding, BootKept
<1>5. QED  BY <1>1, <1>2, <1>3, <1>4 DEF CallSteps

\* The aggregator starts, takes a reload, and ends.
LEMMA BootRuntime ==
  ASSUME Correct, Onboarding, UpLaunch \/ ReloadAggregator \/ AggregatorRestarts \/ Down
  PROVE  Onboarding'
<1>1. CallCalm
  <2>1. CASE UpLaunch \/ AggregatorRestarts
    <3>1. AggregatorStarts(tokens)
      BY <2>1 DEF UpLaunch, AggregatorRestarts
    <3>2. QED  BY <3>1 DEF AggregatorStarts, CallCalm
  <2>2. CASE ReloadAggregator
    <3>1. agg # None /\ \E known, map : agg' = [known |-> known, call |-> agg.call, map |-> map]
      BY <2>2 DEF ReloadAggregator
    <3>2. QED  BY <3>1 DEF CallCalm
  <2>3. CASE Down
    BY <2>3 DEF Down, CallCalm
  <2>4. QED  BY <2>1, <2>2, <2>3
<1>2. QED  BY <1>1, BootAsIs DEF UpLaunch, ReloadAggregator, AggregatorRestarts, Down

\* Steps that leave directories, sandboxes and the aggregator.
LEMMA BootIdle ==
  ASSUME Correct, Onboarding, UNCHANGED <<dir, boxes, agg, rewound, outrun>>
  PROVE  Onboarding'
  BY BootAsIs, AggSame DEF Onboarding

\* The steps that generate secrets.
LEMMA BootCodegen ==
  ASSUME Correct, Onboarding,
         \/ HomeCodegen \/ InitCodegen \/ InitRegister \/ DestroyReload \/ ReloadCodegen
         \/ (\E S \in SUBSET Discovered : Up(S)) \/ (\E a \in Agents : BotStarts(a))
  PROVE  Onboarding'
<1>1. UNCHANGED <<boxes, agg, rewound, outrun>>
  BY DEF HomeCodegen, InitCodegen, InitRegister, DestroyReload, ReloadCodegen, Up, BotStarts
<1>2. UNCHANGED dir \/ SameDirs
  <2>1. FilesTyped /\ CommandTyped
    BY DEF Correct, TypeOK
  <2>2. CASE HomeCodegen \/ InitCodegen
    <3>1. Codegen({cmd.who})
      BY <2>2 DEF HomeCodegen, InitCodegen, At, Correct, CommandKnows, InitKnows, Doing, Steps
    <3>2. cmd.who \in Agents /\ dir[cmd.who] # None
      <4>1. /\ At("init", "codegen") \/ At("home", "codegen")
            /\ Goto("secret") /\ "secret" \in Steps
        BY <2>2 DEF HomeCodegen, InitCodegen, Steps
      <4>2. QED  BY <4>1, InitMoves
    <3>3. {cmd.who} \subseteq Discovered
      BY <3>2 DEF Discovered
    <3>4. QED  BY <2>1, <3>1, <3>3, CodegenKeeps
  <2>3. CASE InitRegister \/ DestroyReload \/ ReloadCodegen
    <3>1. Codegen(Discovered) \/ UNCHANGED dir
      BY <2>3 DEF InitRegister, DestroyReload, ReloadCodegen
    <3>2. QED  BY <2>1, <3>1, CodegenKeeps
  <2>4. CASE \E S \in SUBSET Discovered : Up(S)
    <3>1. PICK S \in SUBSET Discovered : Up(S)
      BY <2>4
    <3>2. S \subseteq Discovered /\ dir' = Minted(S)
      BY <3>1 DEF Up
    <3>3. QED  BY <2>1, <3>2, MintedSame
  <2>5. CASE \E a \in Agents : BotStarts(a)
    <3>1. PICK a \in Agents : BotStarts(a)
      BY <2>5
    <3>2. {a} \subseteq Discovered /\ dir' = Minted({a})
      BY <3>1 DEF BotStarts, Discovered
    <3>3. QED  BY <2>1, <3>2, MintedSame
  <2>6. QED  BY <2>2, <2>3, <2>4, <2>5
<1>3. QED  BY <1>1, <1>2, BootIdle, BootMinted

\* The steps of commands that change the agent's directory.
LEMMA BootCommandDir ==
  ASSUME Correct, Onboarding,
         \/ HomeCreate \/ InitCreate \/ InitRemove \/ DestroyRemove \/ InitSecret
         \/ RestoreCopy \/ RestoreName \/ MigrateName \/ RebootstrapHost
  PROVE  Onboarding'
<1> DEFINE w == cmd.who
<1>1. /\ UNCHANGED <<boxes, agg, outrun>> /\ rewound' \subseteq rewound
      /\ cmd # None /\ cmd.op \in Ops
  BY DEF HomeCreate, InitCreate, InitRemove, DestroyRemove, InitSecret, RestoreCopy, RestoreName,
         MigrateName, RebootstrapHost, At, Ops
<1>2. w \in Agents
  BY <1>1, CommandIs DEF Correct, TypeOK
<1>3. CallCalm
  BY <1>1, AggSame DEF Onboarding
<1>4. w \in rewound => dir[w] # None
  BY DEF Correct, RewoundInv
<1>5. CASE HomeCreate \/ InitCreate
  <2>1. dir[w] = None /\ Created(w)
    <3>1. CASE InitCreate
      BY <3>1 DEF InitCreate, At, Correct, CommandKnows, InitKnows, Doing, There
    <3>2. CASE HomeCreate
      <4>1. w = Right
        BY <3>2 DEF HomeCreate, At, Correct, CommandKnows, InitKnows, Doing, Steps
      <4>2. QED  BY <3>2, <4>1 DEF HomeCreate, HomeInit
    <3>3. QED  BY <1>5, <3>1, <3>2
  <2>2. \E d : dir' = [dir EXCEPT ![w] = d]
    BY <2>1 DEF Created
  <2>3. QED  BY <1>1, <1>2, <1>3, <1>4, <2>1, <2>2, BootDir
<1>6. CASE InitRemove \/ DestroyRemove
  <2>1. dir' = [dir EXCEPT ![w] = None] /\ w \notin rewound'
    BY <1>6 DEF InitRemove, DestroyRemove
  <2>2. QED  BY <1>1, <1>2, <1>3, <2>1, BootDir
<1>7. CASE RestoreCopy
  <2>1. dir[w] = None
    BY <1>7 DEF RestoreCopy, At, Correct, CommandKnows, RestoreKnows, Doing, Steps, There
  <2>2. \E d : dir' = [dir EXCEPT ![w] = d]
    BY <1>7 DEF RestoreCopy
  <2>3. QED  BY <1>1, <1>2, <1>3, <1>4, <2>1, <2>2, BootDir
<1>8. CASE InitSecret
  <2>1. PICK n : n = clock.minted + 1
    OBVIOUS
  <2>2. n \in Nat
    BY <2>1 DEF Correct, TypeOK, CommandTyped
  <2>3. dir' = [dir EXCEPT ![w] = [dir[w] EXCEPT !.secret = n]]
    BY <1>2, <1>8, <2>1 DEF InitSecret, Correct, TypeOK, FilesTyped
  <2>4. PICK d : d = [dir[w] EXCEPT !.secret = n]
    OBVIOUS
  <2>5. w \in rewound => d.boot = dir[w].boot
    BY <1>2, <1>4, <2>2, <2>4, BootFields
  <2>6. QED  BY <1>1, <1>2, <1>3, <2>3, <2>4, <2>5, BootDir
<1>9. CASE RestoreName \/ MigrateName
  <2>1. PICK b : b = cmd.new
    OBVIOUS
  <2>2. b \in Names
    BY <1>9, <2>1 DEF RestoreName, MigrateName, At, Correct, CommandKnows, RestoreKnows,
                      MigrateKnows, Doing, Steps
  <2>3. dir' = [dir EXCEPT ![w] = [dir[w] EXCEPT !.box = b]]
    BY <1>2, <1>9, <2>1 DEF RestoreName, MigrateName, Correct, TypeOK, FilesTyped
  <2>4. PICK d : d = [dir[w] EXCEPT !.box = b]
    OBVIOUS
  <2>5. w \in rewound => d.boot = dir[w].boot
    BY <1>2, <1>4, <2>2, <2>4, BootFields
  <2>6. QED  BY <1>1, <1>2, <1>3, <2>3, <2>4, <2>5, BootDir
<1>10. CASE RebootstrapHost
  <2>1. dir' = [dir EXCEPT ![w] = [dir[w] EXCEPT !.identity = FALSE]]
    BY <1>2, <1>10 DEF RebootstrapHost, Correct, TypeOK, FilesTyped
  <2>2. PICK d : d = [dir[w] EXCEPT !.identity = FALSE]
    OBVIOUS
  <2>3. w \in rewound => d.boot = dir[w].boot
    BY <1>2, <1>4, <2>2, BootFields
  <2>4. QED  BY <1>1, <1>2, <1>3, <2>1, <2>2, <2>3, BootDir
<1>11. QED  BY <1>5, <1>6, <1>7, <1>8, <1>9, <1>10

\* What a bot downloaded from the sandbox of a rewound agent is no identity.
LEMMA BootStores ==
  ASSUME Correct, Onboarding, NEW a \in Agents, SyncStores(a)
  PROVE  Onboarding'
<1>1. \A r \in rewound : dir'[r].boot = dir[r].boot
  <2>1. SUFFICES ASSUME NEW r \in rewound  PROVE  dir'[r].boot = dir[r].boot
    OBVIOUS
  <2>2. r \in Agents /\ dir[r] \in Dirs /\ dir \in [Agents -> Opt(Dirs)]
    BY YamlIs DEF Correct, RewoundInv, TypeOK, FilesTyped
  <2>3. CASE r # a
    BY <2>2, <2>3 DEF SyncStores
  <2>4. CASE r = a
    <3>1. TRUE \notin bot[a].got
      BY <2>4 DEF SyncStores, Correct, RewoundInv, TypeOK, ProcsTyped, Bots, BotStates
    <3>2. PICK j : j = (dir[a].boot /\ ~(TRUE \in bot[a].got))
      OBVIOUS
    <3>3. dir[a].boot \in BOOLEAN /\ j = dir[a].boot
      BY <2>2, <2>4, <3>1, <3>2 DEF Dirs
    <3>4. PICK i : i = (TRUE \in bot[a].got)
      OBVIOUS
    <3>5. dir'[a] = [dir[a] EXCEPT !.identity = i, !.boot = j]
      BY <2>2, <2>4, <3>2, <3>4, NoneIsNone DEF SyncStores
    <3>6. QED  BY <2>2, <2>4, <3>3, <3>5 DEF Dirs
  <2>5. QED  BY <2>3, <2>4
<1>2. QED  BY <1>1, BootCalm, AggSame DEF SyncStores, Introduced, Onboarding

\* The steps of commands that make or delete a sandbox.
LEMMA BootMade ==
  ASSUME Correct, Onboarding,
         \/ InitWipe \/ EnsureDeleted \/ EnsureSandbox \/ DestroyDelete
         \/ MigrateRollback \/ MigrateDelete \/ RestoreBox \/ MigrateBox
  PROVE  Onboarding'
<1>1. UNCHANGED <<dir, agg, rewound, outrun>>
  BY DEF InitWipe, EnsureDeleted, EnsureSandbox, DestroyDelete, MigrateRollback, MigrateDelete,
         RestoreBox, MigrateBox
<1>2. PICK b : /\ b \in {cmd.old, cmd.new} /\ (cmd.op = "restore" => b = cmd.new)
               /\ DeletedIfPossible(b) \/ Spawned(b, cmd.who)
  BY DEF At, InitWipe, EnsureDeleted, EnsureSandbox, DestroyDelete, MigrateRollback, MigrateDelete,
         RestoreBox, MigrateBox
<1>3. cmd # None /\ cmd.op \in Ops /\ cmd.op \notin {"backup", "rebootstrap"}
  BY DEF InitWipe, EnsureDeleted, EnsureSandbox, DestroyDelete, MigrateRollback, MigrateDelete,
         RestoreBox, MigrateBox, At, Ops
<1>4. cmd.who \in Agents /\ Doing(cmd.op, Steps) /\ TypeOK
  BY <1>3, CommandIs DEF Correct, TypeOK
<1>5. b \in Names
  <2>1. CASE cmd.op = "restore"
    BY <1>2, <1>4, <2>1 DEF Correct, CommandKnows, RestoreKnows, Doing
  <2>2. CASE cmd.op # "restore"
    BY <1>2, <1>3, <1>4, <2>2 DEF Correct, CommandKnows, InitKnows, MigrateKnows, OthersKnow,
                                  Doing, Ops
  <2>3. QED  BY <2>1, <2>2
<1>6. \A c \in Names : Introduced(c)' => Introduced(c)
  BY <1>2, <1>4, <1>5, BoxesMade
<1>7. QED  BY <1>1, <1>6, BootBoxes

LEMMA BootUnnamed ==
  ASSUME Correct, Onboarding, RebootstrapSandbox
  PROVE  Onboarding'
<1>1. /\ At("rebootstrap", "sandbox") /\ "sandbox" \in Steps /\ boxes[cmd.old] # None
      /\ boxes' = [boxes EXCEPT ![cmd.old].identity = FALSE]
      /\ UNCHANGED <<dir, agg, rewound, outrun>>
  BY DEF RebootstrapSandbox, Steps
<1>2. cmd.old \in Names
  BY <1>1, RebootstrapMoves
<1>3. boxes \in [Names -> Opt(Stuffs)] /\ boxes[cmd.old] \in Stuffs
  BY <1>1, <1>2 DEF Correct, TypeOK, FilesTyped, Opt
<1>4. PICK t : t = [boxes[cmd.old] EXCEPT !.identity = FALSE]
  OBVIOUS
<1>5. t \in Stuffs /\ t.identity = FALSE
  BY <1>3, <1>4 DEF Stuffs
<1>6. boxes' = [boxes EXCEPT ![cmd.old] = t]
  BY <1>1, <1>4
<1>7. \A b \in Names : Introduced(b)' => Introduced(b)
  BY <1>2, <1>5, <1>6, Uploaded
<1>8. QED  BY <1>1, <1>7, BootBoxes

\* The agents that an identity reaches are no longer rewound.
LEMMA BootReached ==
  ASSUME Correct, Onboarding, NEW b \in Names, NEW t \in Stuffs,
         boxes' = [boxes EXCEPT ![b] = t], UNCHANGED <<dir, agg, outrun>>,
         rewound' \subseteq rewound,
         t.identity => Introduced(b) \/ \A a \in rewound' : ~Uses(a, b) \/ ~Calling(a)
  PROVE  Onboarding'
<1>1. ASSUME NEW a \in rewound', NEW c \in Names, Calling(a), agg.call.box = c, Introduced(c)'
      PROVE  Introduced(c)
  <2>1. CASE c = b
    <3>1. Uses(a, b)
      BY <1>1, <2>1 DEF Uses
    <3>2. QED  BY <1>1, <2>1, <3>1, Uploaded
  <2>2. CASE c # b
    BY <1>1, <2>2, Uploaded
  <2>3. QED  BY <2>1, <2>2
<1>2. QED  BY <1>1, BootCalm, AggSame DEF Onboarding

LEMMA BootTurn ==
  ASSUME Correct, Onboarding, NEW a \in Agents, Turn(a)
  PROVE  Onboarding'
<1> DEFINE b == bot[a].yaml.box
           onboards == dir[a] # None /\ dir[a].boot
<1>1. /\ b \in Names /\ boxes[b] \in Stuffs /\ boxes[b] # None
  <2>1. b \in Names
    BY BotReads DEF Turn, Runs, Correct
  <2>2. QED  BY <2>1 DEF Turn, Correct, TypeOK, FilesTyped, Opt
<1>2. PICK i : i = (boxes[b].identity \/ onboards)
  OBVIOUS
<1>3. PICK s : s = [boxes[b] EXCEPT !.work = @ + 1, !.identity = @ \/ onboards]
  OBVIOUS
<1>4. s \in Stuffs /\ (s.identity => boxes[b].identity \/ onboards)
  <2>1. i \in BOOLEAN
    BY <1>2
  <2>2. s = [boxes[b] EXCEPT !.work = @ + 1, !.identity = i]
    BY <1>2, <1>3
  <2>3. PICK u \in Stuffs : u = boxes[b]
    BY <1>1
  <2>4. s = [who |-> u.who, work |-> u.work + 1, identity |-> i]
    BY <2>2, <2>3 DEF Stuffs
  <2>5. s \in Stuffs /\ s.identity = i
    BY <2>1, <2>3, <2>4 DEF Stuffs
  <2>6. QED  BY <1>2, <2>5
<1>5. /\ boxes' = [boxes EXCEPT ![b] = s] /\ UNCHANGED <<dir, agg, outrun>>
      /\ rewound' = IF onboards THEN RewoundBut(b) ELSE rewound
  BY <1>3 DEF Turn, Correct, TypeOK, FilesTyped
<1> HIDE DEF b, onboards
<1>6. s.identity => Introduced(b) \/ \A r \in rewound' : ~Uses(r, b) \/ ~Calling(r)
  BY <1>1, <1>4, <1>5 DEF RewoundBut, Introduced
<1>7. rewound' \subseteq rewound
  BY <1>5 DEF RewoundBut
<1>8. QED  BY <1>1, <1>4, <1>5, <1>6, <1>7, BootReached

LEMMA BootUpload ==
  ASSUME Correct, Onboarding, RestoreUpload \/ MigrateUpload
  PROVE  Onboarding'
<1>1. /\ boxes' = [boxes EXCEPT ![cmd.new] = cmd.tar] /\ UNCHANGED <<dir, agg, outrun>>
      /\ rewound' \subseteq rewound
  BY DEF RestoreUpload, MigrateUpload, RewoundBut
<1>2. cmd.new \in Names /\ cmd.tar \in Stuffs
  BY DEF RestoreUpload, MigrateUpload, At, Correct, CommandKnows, RestoreKnows, MigrateKnows,
         Doing, Steps
<1>3. cmd.tar.identity => \A a \in rewound' : ~Uses(a, cmd.new) \/ ~Calling(a)
  <2>1. CASE RestoreUpload
    BY <2>1 DEF RestoreUpload, RewoundBut
  <2>2. CASE MigrateUpload
    <3>1. Doing("migrate", Steps) /\ cmd.tar # None
      BY <1>2, <2>2, NoneIsNone DEF MigrateUpload, At, Doing, Steps
    <3>2. cmd.tar.identity => cmd.who \notin rewound
      BY <3>1 DEF Correct, RewoundInv
    <3>3. QED  BY <2>2, <3>2 DEF MigrateUpload, RewoundBut
  <2>3. QED  BY <2>1, <2>2
<1>4. QED  BY <1>1, <1>2, <1>3, BootReached

\* BOOTSTRAP.md is written: a call that has found the identity is outrun.
LEMMA BootWritten ==
  ASSUME Correct, Onboarding, RebootstrapBoot
  PROVE  Onboarding'
<1> DEFINE w == cmd.who
<1>1. /\ dir' = [dir EXCEPT ![w].boot = TRUE]
      /\ rewound' \subseteq rewound \cup {w}
      /\ outrun' = IF Finding(w) THEN outrun \cup {w} ELSE outrun \ {w}
      /\ UNCHANGED <<boxes, agg>>
  BY DEF RebootstrapBoot
<1>2. dir[w] \in Dirs /\ w \in Agents /\ dir \in [Agents -> Opt(Dirs)]
  <2>1. /\ At("rebootstrap", "boot") /\ "boot" \in Steps
    BY DEF RebootstrapBoot, Steps
  <2>2. w \in Agents /\ dir[w] # None
    BY <2>1, RebootstrapMoves
  <2>3. QED  BY <2>2, YamlIs DEF Correct, TypeOK, FilesTyped
<1>3. dir'[w].boot = TRUE
  <2>1. PICK d : d = [dir[w] EXCEPT !.boot = TRUE]
    OBVIOUS
  <2>2. d.boot = TRUE
    BY <1>2, <2>1, DirFields
  <2>3. QED  BY <1>1, <1>2, <2>1, <2>2
<1>4. \A a : Finding(a)' <=> Finding(a)
  BY <1>1 DEF Finding, Calling, Introduced
<1>5. ASSUME NEW a \in rewound', a \notin outrun'
      PROVE  dir'[a].boot /\ ~Finding(a)'
  <2>1. CASE a = w
    BY <1>1, <1>3, <1>4, <1>5, <2>1
  <2>2. CASE a # w
    <3>1. a \in rewound \ outrun /\ a \in Agents
      BY <1>1, <1>5, <2>2 DEF Correct, TypeOK, FilesTyped
    <3>2. QED  BY <1>1, <1>2, <1>4, <2>2, <3>1 DEF Onboarding, BootKept
  <2>3. QED  BY <2>1, <2>2
<1>6. QED  BY <1>1, <1>5 DEF Onboarding, CallTyped, BootKept

LEMMA StepOnboarding == Correct /\ Onboarding /\ [Next]_vars => Onboarding'
<1> SUFFICES ASSUME Correct, Onboarding, [Next]_vars  PROVE  Onboarding'
  OBVIOUS
<1>1. CASE Starts
  BY <1>1, BootIdle DEF Starts, InitStart, BackupStart, DestroyStart, RestoreStart, MigrateStart,
                        RebootstrapStart
<1>2. CASE HomeSteps
  <2>1. CASE HomeStart \/ HomeBox
    BY <2>1, BootIdle DEF HomeStart, HomeBox
  <2>2. QED  BY <1>2, <2>1, BootCommandDir, BootCodegen DEF HomeSteps
<1>3. CASE InitSteps
  <2>1. CASE InitBox \/ \E b \in Names : InitRestores(b)
    BY <2>1, BootIdle DEF InitBox, InitRestores
  <2>2. QED  BY <1>3, <2>1, BootCommandDir, BootCodegen, BootMade DEF InitSteps
<1>4. CASE CopySteps
  <2>1. CASE BackupTar \/ BackupYaml
    BY <2>1, BootIdle DEF BackupTar, BackupYaml
  <2>2. QED  BY <1>4, <2>1, BootCommandDir, BootMade, BootUpload DEF CopySteps
<1>5. CASE MigrateSteps
  <2>1. CASE MigrateTar
    BY <2>1, BootIdle DEF MigrateTar
  <2>2. QED  BY <1>5, <2>1, BootCommandDir, BootMade, BootUpload DEF MigrateSteps
<1>6. CASE DestroySteps
  <2>1. CASE DestroyStop \/ DestroyBackup
    BY <2>1, BootIdle DEF DestroyStop, DestroyBackup
  <2>2. QED  BY <1>6, <2>1, BootCommandDir, BootCodegen, BootMade DEF DestroySteps
<1>7. CASE RebootstrapSteps
  <2>1. CASE RebootstrapStop \/ RebootstrapSession \/ RebootstrapRestart
    BY <2>1, BootIdle DEF RebootstrapStop, RebootstrapSession, RebootstrapRestart
  <2>2. QED  BY <1>7, <2>1, BootCommandDir, BootUnnamed, BootWritten DEF RebootstrapSteps
<1>8. CASE RuntimeSteps
  <2>1. CASE ReloadStart
    BY <2>1, BootIdle DEF ReloadStart
  <2>2. QED  BY <1>8, <2>1, BootRuntime, BootCodegen DEF RuntimeSteps
<1>9. CASE BotSteps
  <2>1. ASSUME NEW a \in Agents,
               BotWatches(a) \/ BotConnects(a) \/ SyncFetches(a) \/ BotSeesChange(a) \/ BotDies(a)
        PROVE  Onboarding'
    BY <2>1, BootIdle DEF BotWatches, BotConnects, SyncFetches, BotSeesChange, BotDies
  <2>2. QED  BY <1>9, <2>1, BootCodegen, BootTurn, BootStores DEF BotSteps
<1>10. CASE CallSteps
  BY <1>10, BootInCall
<1>11. CASE Minute \/ Interrupted \/ UNCHANGED vars
  BY <1>11, BootIdle DEF Minute, Interrupted, vars
<1>12. QED  BY <1>1, <1>2, <1>3, <1>4, <1>5, <1>6, <1>7, <1>8, <1>9, <1>10, <1>11 DEF Next

\* What the commands know, and what files, sandboxes and bots hold, stays
\* correct at every step of every command, whatever the bots do in between
\* and wherever a command is broken off.
THEOREM LifecycleCorrect == Spec => []Correct
<1>1. QED  BY InitCorrect, StepCorrect, PTL DEF Spec

\* Two agents name one sandbox only where a restore was broken off: what
\* cmd_agent_restore and init_agent write into agent.yaml is the agent's own.
THEOREM SandboxesAreOwn == Spec => []SharedOnlyHalfway
<1>1. Correct => SharedOnlyHalfway
  BY DEF Correct, OwnSandbox, SharedOnlyHalfway, Discovered
<1>2. QED  BY <1>1, LifecycleCorrect, PTL

\* An agent rebootstrapped with its sandbox has no identity until one comes anew
\* into that sandbox, and keeps BOOTSTRAP.md until then, unless a bootstrap_done
\* that had found the old identity removes it: the check of that call and the
\* removal are steps apart.
THEOREM RewoundStays == Spec => []OnboardingRewound
<1>1. Init => Onboarding
  BY DEF Init, Onboarding, CallTyped, BootKept
<1>2. Correct /\ Onboarding => OnboardingRewound
  BY DEF Correct, RewoundInv, Onboarding, BootKept, OnboardingRewound
<1>3. QED  BY <1>1, <1>2, LifecycleCorrect, StepOnboarding, PTL DEF Spec

LEMMA MigrationStep ==
  ASSUME Correct, Correct', [Next]_vars, Migrating
  PROVE  /\ boxes'[dir'[cmd.who].box] # None
         /\ boxes'[dir'[cmd.who].box].who = cmd.tar.who
         /\ boxes'[dir'[cmd.who].box].work >= cmd.tar.work
<1>1. /\ Holds(dir[cmd.who].box, cmd.tar) /\ cmd # None /\ cmd.op = "migrate"
      /\ cmd.tar # None /\ cmd.new # cmd.old
  BY DEF Correct, MigrationSafe, Migrating
<1>2. ASSUME UNCHANGED <<dir, boxes>>
      PROVE  /\ boxes'[dir'[cmd.who].box] # None
             /\ boxes'[dir'[cmd.who].box].who = cmd.tar.who
             /\ boxes'[dir'[cmd.who].box].work >= cmd.tar.work
  BY <1>1, <1>2 DEF Holds
<1>3. ASSUME \/ UNCHANGED cmd
             \/ /\ cmd' # None /\ cmd'.op = "migrate" /\ cmd'.who = cmd.who /\ cmd'.old = cmd.old
                /\ cmd'.new = cmd.new /\ cmd'.tar = cmd.tar
      PROVE  /\ boxes'[dir'[cmd.who].box] # None
             /\ boxes'[dir'[cmd.who].box].who = cmd.tar.who
             /\ boxes'[dir'[cmd.who].box].work >= cmd.tar.work
  <2>1. Migrating' /\ cmd'.who = cmd.who /\ cmd'.tar = cmd.tar
    BY <1>1, <1>3 DEF Migrating
  <2>2. QED  BY <2>1 DEF Correct, MigrationSafe, Holds
<1>4. ASSUME MigrateBox \/ MigrateUpload \/ MigrateName
      PROVE  /\ cmd' # None /\ cmd'.op = "migrate" /\ cmd'.who = cmd.who /\ cmd'.old = cmd.old
             /\ cmd'.new = cmd.new /\ cmd'.tar = cmd.tar
  <2>1. {"box", "upload", "name", "delete"} \subseteq Steps
    BY DEF Steps
  <2>2. PICK from \in Steps, at \in Steps : At("migrate", from) /\ Goto(at)
    BY <1>4, <2>1 DEF MigrateBox, MigrateUpload, MigrateName
  <2>3. QED  BY <2>2, MigrateMoves, CommandIsThere
<1>5. ASSUME ~UNCHANGED cmd, ~UNCHANGED <<dir, boxes>>
      PROVE  MigrateSteps
  <2>1. CASE Starts
    BY <1>1, <2>1 DEF Starts, InitStart, BackupStart, DestroyStart, RestoreStart, MigrateStart,
                      RebootstrapStart, Give
  <2>2. CASE HomeSteps
    BY <1>1, <2>2 DEF HomeSteps, HomeStart, HomeCreate, HomeCodegen, HomeBox, Give, At
  <2>3. CASE InitSteps
    BY <1>1, <2>3 DEF InitSteps, InitWipe, InitRemove, InitCreate, InitCodegen, InitSecret, InitBox,
                      EnsureDeleted, EnsureSandbox, InitRegister, InitRestores, At
  <2>4. CASE CopySteps
    BY <1>1, <2>4 DEF CopySteps, BackupTar, BackupYaml, RestoreCopy, RestoreBox, RestoreUpload,
                      RestoreName, At
  <2>5. CASE DestroySteps
    BY <1>1, <2>5 DEF DestroySteps, DestroyStop, DestroyBackup, DestroyDelete, DestroyRemove,
                      DestroyReload, At
  <2>6. CASE RebootstrapSteps
    BY <1>1, <2>6 DEF RebootstrapSteps, RebootstrapStop, RebootstrapSession, RebootstrapSandbox,
                      RebootstrapHost, RebootstrapBoot, RebootstrapRestart, At
  <2>7. CASE RuntimeSteps
    BY <1>1, <1>5, <2>7 DEF RuntimeSteps, Up, UpLaunch, Down, ReloadStart, ReloadCodegen,
                            ReloadAggregator, AggregatorRestarts, Give, At
  <2>8. CASE BotSteps
    BY <1>5, <2>8 DEF BotSteps, BotStarts, BotWatches, BotConnects, Turn, SyncFetches, SyncStores,
                      BotSeesChange, BotDies
  <2>9. CASE Minute \/ Interrupted \/ UNCHANGED vars
    BY <1>5, <2>9 DEF Minute, Interrupted, vars
  <2>10. CASE CallSteps
    BY <1>5, <2>10 DEF CallSteps, DoneBegins, DoneChecks, DoneRemoves, DoneFails
  <2>11. QED  BY <2>1, <2>2, <2>3, <2>4, <2>5, <2>6, <2>7, <2>8, <2>9, <2>10 DEF Next
<1>6. CASE MigrateSteps
  <2>1. CASE MigrateTar
    BY <1>2, <2>1 DEF MigrateTar
  <2>2. CASE MigrateBox \/ MigrateUpload \/ MigrateName
    BY <1>3, <1>4, <2>2
  <2>3. CASE MigrateRollback \/ MigrateDelete
    BY <1>1, <2>3, MigrateEndKeeps DEF Holds
  <2>4. QED  BY <1>6, <2>1, <2>2, <2>3 DEF MigrateSteps
<1>7. QED  BY <1>2, <1>3, <1>5, <1>6

\* Wherever a migration is broken off, agent.yaml names a sandbox that holds
\* what the migration took from the old one: perform_migration deletes that one
\* only when the new one is filled and named.
THEOREM MigrationIsSafe == Spec => MigrationKeeps
<1>1. Correct /\ Correct' /\ [Next]_vars =>
        [ (cmd # None /\ cmd.op = "migrate" /\ cmd.tar # None /\ cmd.new # cmd.old)
            => LET named == boxes'[dir'[cmd.who].box]
               IN  /\ named # None
                   /\ named.who = cmd.tar.who
                   /\ named.work >= cmd.tar.work ]_vars
  BY MigrationStep DEF Migrating
<1>2. QED  BY <1>1, LifecycleCorrect, PTL DEF Spec, MigrationKeeps
=============================================================================
