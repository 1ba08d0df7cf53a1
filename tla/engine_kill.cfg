\* b1's chunk loops after defining its function; a SCRIPT KILL or a shutdown
\* must still end the script (spec 5 and 7).
CONSTANTS
    b1 = b1
    b2 = b2
    set = set
    srandmember = srandmember
    spop = spop
    evalcmd = evalcmd
    smembers = smembers
    b3 = b3
    Bodies = {b1, b2}
    Malformed = {b2}
    Injects <- NoInjects
    Hostile = {}
    Cmds <- MCCmds
    Flags <- MCFlags
    UnknownCmd = nosuch
    NoSession = NoSession
    Keys = {k1, k2}
    DbIds = {0, 1}
    MaxArgs = 1
    MaxCalls = 2
    TimeLimitOn = TRUE
    Failing = {}
    Looping = {b1}
    Erasing = {}
    Corrupting = {}
    ClusterOn = FALSE
    ReadonlyModes = {FALSE}
SPECIFICATION FairSpec
PROPERTY
    KillTerminates
