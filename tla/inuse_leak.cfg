\* Under a time limit, a SCRIPT KILL or shutdown that interrupts the sort of
\* an SMEMBERS reply leaves the gateway's recursion counter raised.
CONSTANTS
    b1 = b1
    b2 = b2
    set = set
    srandmember = srandmember
    spop = spop
    evalcmd = evalcmd
    smembers = smembers
    b3 = b3
    Bodies = {b1, b2, b3}
    Malformed = {b2}
    Injects <- NoInjects
    Hostile = {}
    Cmds <- MCCmds
    Flags <- MCFlags
    UnknownCmd = nosuch
    NoSession = NoSession
    Keys = {k1, k2}
    DbIds = {0, 1}
    MaxArgs = 1
    MaxCalls = 2
    TimeLimitOn = TRUE
    Failing = {b1}
    Looping = {}
    Erasing = {}
    Corrupting = {}
    ClusterOn = FALSE
    ReadonlyModes = {FALSE}
SPECIFICATION Spec
INVARIANT
    InuseReleased
