\* Gateway, fake-session and lookup safety with benign scripts: b1's chunk raises
\* once loaded, b2 does not compile, b3's chunk loops; SMEMBERS replies are sorted.
CONSTANTS
    b1 = b1
    b2 = b2
    set = set
    srandmember = srandmember
    spop = spop
    evalcmd = evalcmd
    smembers = smembers
    b3 = b3
    Bodies = {b1, b2, b3}
    Malformed = {b2}
    Injects <- NoInjects
    Hostile = {}
    Cmds <- MCCmds
    Flags <- MCFlags
    UnknownCmd = nosuch
    NoSession = NoSession
    Keys = {k1, k2}
    DbIds = {0, 1}
    MaxArgs = 2
    MaxCalls = 2
    TimeLimitOn = TRUE
    Failing = {b1}
    Looping = {b3}
    Erasing = {}
    Corrupting = {}
    ClusterOn = FALSE
    ReadonlyModes = {FALSE}
SPECIFICATION Spec
INVARIANTS
    TypeOK
    NoWriteAfterRandom
    FakeDbMatchesCaller
    EvalRunsItsOwnScript
