\* An EVAL whose chunk clears the f_ globals reaches serverAssert.
CONSTANTS
    b1 = b1
    b2 = b2
    set = set
    srandmember = srandmember
    spop = spop
    evalcmd = evalcmd
    smembers = smembers
    b3 = b3
    Bodies = {b1, b2}
    Malformed = {}
    Injects <- NoInjects
    Hostile = {}
    Cmds <- MCCmds
    Flags <- MCFlags
    UnknownCmd = nosuch
    NoSession = NoSession
    Keys = {k1, k2}
    DbIds = {0, 1}
    MaxArgs = 2
    MaxCalls = 2
    TimeLimitOn = TRUE
    Failing = {}
    Looping = {}
    Erasing = {b1}
    Corrupting = {}
    ClusterOn = FALSE
    ReadonlyModes = {FALSE}
SPECIFICATION Spec
INVARIANTS
    NeverAborts
