\* The engine implements AtomicScript against scripts that inject, overwrite, erase and crash.
CONSTANTS
    b1 = b1
    b2 = b2
    set = set
    srandmember = srandmember
    spop = spop
    evalcmd = evalcmd
    smembers = smembers
    b3 = b3
    Bodies = {b1, b2}
    Malformed = {}
    Injects <- B1InjectsB2
    Hostile = {b1}
    Cmds <- MCCmds
    Flags <- MCFlags
    UnknownCmd = nosuch
    NoSession = NoSession
    Keys = {k1}
    DbIds = {0, 1}
    MaxArgs = 1
    MaxCalls = 2
    TimeLimitOn = TRUE
    Failing = {}
    Looping = {}
    Erasing = {b2}
    Corrupting = {b1}
    ClusterOn = TRUE
    ReadonlyModes = {FALSE}
SPECIFICATION Spec
PROPERTY
    ImplementsAtomicScript
\* A server process that aborted stops for good.
CHECK_DEADLOCK FALSE
