-------------------------- MODULE MCAgentLifecycle --------------------------
(* Instances of AgentLifecycle for TLC. *)
EXTENDS AgentLifecycle

\* Something bears the name of the current minute.
Named ==
    \E a, c \in Agents :
        LET b == Stamped(a)
        IN  \/ boxes[b] # None \/ backups[b].tar # None \/ backups[b].yaml # None
            \/ Uses(c, b)
            \/ bot[c].seen # None /\ bot[c].seen.box = b

\* A command takes its minute as it starts (Stamped), and nothing else looks at
\* the clock.  So a minute makes a difference only if it passes ahead of a
\* command, and after something was named after the minute before: without
\* such a name the new minute and the old one are the same.
MinutesThatMatter ==
    clock'.minute # clock.minute => cmd = None /\ clock.given < MaxCommands /\ Named
=============================================================================
