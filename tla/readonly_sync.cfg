\* Cluster mode: a READONLY caller's flag does not reach the fake session.
CONSTANTS
    b1 = b1
    b2 = b2
    set = set
    srandmember = srandmember
    spop = spop
    evalcmd = evalcmd
    smembers = smembers
    b3 = b3
    Bodies = {b1, b2}
    Malformed = {b2}
    Injects <- NoInjects
    Hostile = {}
    Cmds <- MCCmds
    Flags <- MCFlags
    UnknownCmd = nosuch
    NoSession = NoSession
    Keys = {k1, k2}
    DbIds = {0, 1}
    MaxArgs = 2
    MaxCalls = 2
    TimeLimitOn = TRUE
    Failing = {}
    Looping = {}
    Erasing = {}
    Corrupting = {}
    ClusterOn = TRUE
    ReadonlyModes = {FALSE, TRUE}
SPECIFICATION Spec
INVARIANTS
    FakeReadonlyMatchesCaller
