\* Two agents, four commands, two minutes; four secrets, two of them for each
\* `right init` or `right agent init`.
SPECIFICATION Spec
CONSTANTS
    Agents = {a1, a2}
    Right = a1
    None = None
    MaxMinutes = 2
    MaxSecrets = 4
    MaxWork = 1
    MaxCommands = 4
INVARIANT
    SharedOnlyHalfway
    OnboardingRewound
PROPERTY
    MigrationKeeps
ACTION_CONSTRAINT
    MinutesThatMatter
CHECK_DEADLOCK FALSE
