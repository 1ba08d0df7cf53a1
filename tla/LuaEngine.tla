------------------------------ MODULE LuaEngine ------------------------------
(***************************************************************************)
(* One scripting engine, the LuaState object of                            *)
(* src/tendisplus/script/lua_state.cpp: the script runner                  *)
(* (evalGenericCommand), the command gateway used by redis.call and        *)
(* redis.pcall (luaRedisGenericCommand), the script registry kept in the   *)
(* interpreter's global namespace (luaCreateFunction and the f_<sha1>      *)
(* globals), the reusable fake session (updateFakeClient) and the          *)
(* count hook that polls SCRIPT KILL and server shutdown                   *)
(* (luaMaskCountHook).                                                     *)
(*                                                                         *)
(* Data is abstracted: a script body is a model value and the global       *)
(* f_<sha1(b)> is indexed by the body b itself (SHA1 is taken to be        *)
(* injective); a command is a model value whose flags come from the        *)
(* command table; the guest script is a nondeterministic client of the     *)
(* capability surface (call, pcall, return, raise, and, for Hostile        *)
(* bodies, assignments to existing globals).                               *)
(***************************************************************************)
EXTENDS Integers, Sequences

CONSTANTS
    Bodies,       \* script bodies that clients send
    Malformed,    \* bodies that do not compile
    Injects,      \* Injects[b]: bodies whose f_ name the chunk of b also defines
    Hostile,      \* bodies whose code assigns existing globals
    Erasing,      \* bodies whose chunk clears every f_ global once loaded
    Failing,      \* bodies whose chunk raises a Lua error once loaded
    Looping,      \* bodies whose chunk never returns (a loop after the definition)
    Corrupting,   \* bodies whose code assigns the global lua_state
    Cmds,         \* commands of the command table
    Flags,        \* Flags[c]: the CMD_* flags of command c
    UnknownCmd,   \* a command name that Command::precheck rejects
    Keys,         \* key names
    DbIds,        \* database ids a session can select
    MaxArgs,      \* bound on the number of arguments after numkeys
    MaxCalls,     \* bound on redis.call/pcall per script run
    TimeLimitOn,  \* luaTimeLimit > 0, so the count hook is installed
    ClusterOn,    \* isClusterEnabled()
    ReadonlyModes, \* values the READONLY flag of a calling session takes
    NoSession     \* a null session pointer

CmdFlag == {"write", "random", "noscript", "sortforscript"}

ASSUME ConstAssumption ==
    /\ Malformed \subseteq Bodies
    /\ Injects \in [Bodies -> SUBSET Bodies]
    /\ \A b \in Bodies : b \notin Injects[b]
    /\ Hostile \subseteq Bodies
    /\ Erasing \subseteq Bodies
    /\ Failing \subseteq Bodies
    /\ Looping \subseteq Bodies
    /\ Corrupting \subseteq Bodies
    /\ Flags \in [Cmds -> SUBSET CmdFlag]
    /\ UnknownCmd \notin Cmds
    /\ MaxArgs \in Nat
    /\ MaxCalls \in Nat
    /\ TimeLimitOn \in BOOLEAN
    /\ ClusterOn \in BOOLEAN
    /\ ReadonlyModes \subseteq BOOLEAN
    /\ NoSession \notin [authed : BOOLEAN, db : DbIds, readonly : BOOLEAN]

NoFn == "nofn"           \* a nil global
Garbage == "garbage"     \* funcname bytes that name no global

\* A nil global and unreadable funcname bytes are never a script body.
ASSUME MarkerAssumption == NoFn \notin Bodies /\ Garbage \notin Bodies

\* A session's context: authed(), getDbId() and the CLIENT_READONLY flag,
\* the only flag of getFlags() modelled (its other flags are taken clear).
Callers == [authed : BOOLEAN, db : DbIds, readonly : ReadonlyModes]
Fake == [authed : BOOLEAN, db : DbIds, readonly : BOOLEAN]
Request == [sha : BOOLEAN, body : Bodies]
Outcome == {"none", "ok", "err_numkeys", "noscript", "compile", "lock",
            "runtime", "killed"}

VARIABLES
    fns,          \* fns[b]: the body whose code global f_<sha1(b)> holds
    funcbuf,      \* what the funcname[43] stack buffer of evalGenericCommand holds
    phase,        \* "idle", "loading" while luaCreateFunction runs the chunk,
                  \* "running" while lua_pcall runs the script, or
                  \* "down" once the server process has aborted
    req,          \* the request being run
    cur,          \* the body whose code is running
    sess,         \* _sess, the invoking session
    fake,         \* _fakeSess, the reusable non-networked session
    locked,       \* keys locked in X mode for the running script
    randomDirty,  \* lua_random_dirty
    writeDirty,   \* lua_write_dirty
    replicateCommands, \* lua_replicate_commands
    inuse,        \* inuse, the gateway's recursion guard
    timedout,     \* lua_timedout
    hooked,       \* the count hook is registered
    killReq,      \* the script manager's luaKill()
    stopping,     \* the script manager's stopped()
    ran,          \* commands the gateway executed in this run (history)
    calls,        \* gateway calls in this run
    reply,        \* outcome of the last EVAL/EVALSHA
    stateOk       \* the global lua_state still holds this LuaState's address

vars == <<fns, funcbuf, phase, req, cur, sess, fake, locked, randomDirty,
          writeDirty, replicateCommands, inuse, timedout, hooked, killReq,
          stopping, ran, calls, reply, stateOk>>

TypeOK ==
    /\ fns \in [Bodies -> Bodies \cup {NoFn}]
    /\ funcbuf \in Bodies \cup {Garbage}
    /\ phase \in {"idle", "loading", "running", "down"}
    /\ req \in Request
    /\ cur \in Bodies \cup {NoFn}
    /\ sess \in Callers \cup {NoSession}
    /\ fake \in Fake \cup {NoSession}
    /\ locked \subseteq Keys
    /\ randomDirty \in BOOLEAN
    /\ writeDirty \in BOOLEAN
    /\ replicateCommands \in BOOLEAN
    /\ inuse \in Nat
    /\ timedout \in BOOLEAN
    /\ hooked \in BOOLEAN
    /\ killReq \in BOOLEAN
    /\ stopping \in BOOLEAN
    /\ ran \in Seq(Cmds)
    /\ calls \in 0..MaxCalls
    /\ reply \in Outcome
    /\ stateOk \in BOOLEAN

(***************************************************************************)
(* The state right after the LuaState constructor: initLua(1) has loaded   *)
(* the libraries and helpers, no script is defined, _sess and _fakeSess    *)
(* are null and lua_timedout is 0.                                         *)
(***************************************************************************)
Init ==
    /\ fns = [b \in Bodies |-> NoFn]
    /\ funcbuf \in Bodies \cup {Garbage}
    /\ phase = "idle"
    /\ req \in Request
    /\ cur = NoFn
    /\ sess = NoSession
    /\ fake = NoSession
    /\ locked = {}
    /\ randomDirty = FALSE
    /\ writeDirty = FALSE
    /\ replicateCommands = FALSE
    /\ inuse = 0
    /\ timedout = FALSE
    /\ hooked = FALSE
    /\ killReq = FALSE
    /\ stopping = FALSE
    /\ ran = <<>>
    /\ calls = 0
    /\ reply = "none"
    /\ stateOk = TRUE

\* Mutant: an existing fake session keeps the db it had.
UpdateFakeDbKept(f, c) ==
    IF f = NoSession
    THEN [authed |-> c.authed, db |-> c.db, readonly |-> FALSE]
    ELSE [f EXCEPT !.authed = f.authed \/ c.authed]

(***************************************************************************)
(* updateFakeClient: create the fake session on first use (no flags set), *)
(* raise its authed flag when the caller is authed (never lower it), copy  *)
(* the db.                                                                 *)
(***************************************************************************)
UpdateFake(f, c) ==
    IF f = NoSession
    THEN [authed |-> c.authed, db |-> c.db, readonly |-> FALSE]
    ELSE [f EXCEPT !.authed = f.authed \/ c.authed, !.db = c.db]

(***************************************************************************)
(* luaCreateFunction: running the chunk "function f_<sha>() <body> end"    *)
(* defines the body's own function and any function the body's text       *)
(* closes early and opens (Injects).  The chunk of an Erasing body then    *)
(* runs a loop that assigns nil to every f_ global, its own included       *)
(* (globals protection lets existing globals be assigned).                 *)
(***************************************************************************)
DefineChunk(f, b) ==
    [x \in Bodies |-> IF b \in Erasing THEN NoFn
                      ELSE IF x = b \/ x \in Injects[b] THEN b ELSE f[x]]

KeysOf(args, n) == {args[i] : i \in 1..n}

ArgSeqs == UNION {[1..n -> Keys] : n \in 0..MaxArgs}

(***************************************************************************)
(* The end of a run, after lua_pcall returns: the hook is removed,         *)
(* lua_timedout is cleared, the reply is formed, the MakeGuard releases    *)
(* _sess and the lock list goes out of scope.  The script manager clears   *)
(* its kill request once the killed script has returned.                   *)
(***************************************************************************)
EndRun(out) ==
    /\ phase' = "idle"
    /\ hooked' = FALSE
    /\ timedout' = FALSE
    /\ locked' = {}
    /\ sess' = NoSession
    /\ cur' = NoFn
    /\ killReq' = FALSE
    /\ reply' = out

-----------------------------------------------------------------------------
(***************************************************************************)
(* evalGenericCommand, from its entry to the lua_pcall that starts the     *)
(* script, for caller c, request r, numkeys n and the arguments args after *)
(* numkeys.  Every path first sets _sess and resets the per-run state.     *)
(* The guard phase = "idle" is not a test of the code but the calling      *)
(* discipline it relies on: each worker owns its own LuaState (spec 5) and *)
(* runs one command at a time, so no EVAL enters an engine whose script or *)
(* chunk is still running.                                                 *)
(***************************************************************************)
EvalPrologue(c, r) ==
    /\ phase = "idle"
    /\ req' = r
    /\ randomDirty' = FALSE
    /\ writeDirty' = FALSE
    /\ replicateCommands' = FALSE
    /\ ran' = <<>>
    /\ calls' = 0
    /\ UNCHANGED <<inuse, killReq, stopping, timedout, stateOk>>

\* numkeys larger than the argument count, or negative: early return that
\* leaves _sess pointing at the caller.
EvalBadNumkeys(c, n, args) ==
    /\ n \notin 0..Len(args)
    /\ sess' = c
    /\ reply' = "err_numkeys"
    /\ UNCHANGED <<fns, funcbuf, phase, cur, fake, locked, hooked>>

\* Mutant: EVAL, like EVALSHA, skips writing sha1hex(body) into funcname.
LookupNamesResidue(r) == {funcbuf, Garbage}

(***************************************************************************)
(* The name looked up: sha1(body) for EVAL.  For EVALSHA the code never    *)
(* writes funcname[2..42], so the lookup uses what the stack buffer holds: *)
(* the name an earlier call left in the same frame, or bytes that name no  *)
(* global.                                                                 *)
(***************************************************************************)
LookupNames(r) == IF r.sha THEN {funcbuf, Garbage} ELSE {r.body}

\* lua_getglobal of the name in globals f, then the lua_isnil test.
Defined(f, name) == name \in Bodies /\ f[name] # NoFn

Found(name) == Defined(fns, name)

\* EVALSHA finds nothing under the name: -NOSCRIPT.
EvalNoScript(c, r, name) ==
    /\ r.sha
    /\ ~Found(name)
    /\ sess' = c
    /\ reply' = "noscript"
    /\ UNCHANGED <<fns, phase, cur, fake, locked, hooked>>

\* EVAL of a body whose chunk does not load: luaCreateFunction fails.
EvalCompileError(c, r, name) ==
    /\ ~r.sha
    /\ ~Found(name)
    /\ r.body \in Malformed
    /\ sess' = c
    /\ reply' = "compile"
    /\ UNCHANGED <<fns, phase, cur, fake, locked, hooked>>

\* lua_sethook(luaMaskCountHook) only when luaTimeLimit > 0.
InstallHook == TimeLimitOn

(***************************************************************************)
(* The function is found or created, KEYS and ARGV are set, the fake       *)
(* session is synchronised and the MakeGuard is armed; then all declared   *)
(* keys are locked in X mode.  On lock failure the guard clears _sess;     *)
(* otherwise the hook is installed when a time limit is set and lua_pcall  *)
(* starts the function.                                                    *)
(***************************************************************************)
EvalRun(c, r, n, args, name) ==
    /\ Found(name) \/ (~r.sha /\ r.body \notin Malformed \cup Failing \cup Looping)
    /\ fns' = IF Found(name) THEN fns ELSE DefineChunk(fns, r.body)
    /\ Defined(fns', name)
    /\ fake' = UpdateFake(fake, c)
    /\ \/ /\ phase' = "running"
          /\ sess' = c
          /\ locked' = KeysOf(args, n)
          /\ hooked' = InstallHook
          /\ cur' = fns'[name]
          /\ UNCHANGED reply
       \/ /\ sess' = NoSession
          /\ reply' = "lock"
          /\ UNCHANGED <<phase, cur, locked, hooked>>

(***************************************************************************)
(* EVAL of a body whose loaded chunk left its own global nil: the second   *)
(* lookup finds nil and serverAssert aborts the server process.            *)
(***************************************************************************)
EvalAssertAbort(c, r, name) ==
    /\ ~r.sha
    /\ ~Found(name)
    /\ r.body \notin Malformed \cup Failing \cup Looping
    /\ fns' = DefineChunk(fns, r.body)
    /\ ~Defined(fns', name)
    /\ sess' = c
    /\ phase' = "down"
    /\ UNCHANGED <<cur, fake, locked, hooked, reply>>

(***************************************************************************)
(* EVAL of a body whose chunk loads but raises once it has run: the lua_   *)
(* pcall of luaCreateFunction fails and EVAL answers an error, but the     *)
(* definitions the chunk made before raising stay in the globals.          *)
(***************************************************************************)
EvalChunkError(c, r, name) ==
    /\ ~r.sha
    /\ ~Found(name)
    /\ r.body \in Failing \ Malformed
    /\ fns' = DefineChunk(fns, r.body)
    /\ sess' = c
    /\ reply' = "compile"
    /\ UNCHANGED <<phase, cur, fake, locked, hooked>>

(***************************************************************************)
(* EVAL of a body whose chunk defines f_<sha> and then loops: the lua_pcall *)
(* of luaCreateFunction never returns.  It runs before the keys are locked *)
(* and before lua_sethook installs the count hook, and the hook of the     *)
(* previous run was removed when that run ended.                           *)
(***************************************************************************)
EvalChunkLoops(c, r, name) ==
    /\ ~r.sha
    /\ ~Found(name)
    /\ r.body \in Looping \ (Malformed \cup Failing)
    /\ fns' = [fns EXCEPT ![r.body] = r.body]
    /\ sess' = c
    /\ phase' = "loading"
    /\ UNCHANGED <<cur, fake, locked, hooked, reply>>

Eval(c, r, n, args) ==
    /\ EvalPrologue(c, r)
    /\ \/ EvalBadNumkeys(c, n, args)
       \/ /\ n \in 0..Len(args)
          /\ \E name \in LookupNames(r) :
                /\ funcbuf' = name
                /\ \/ EvalNoScript(c, r, name)
                   \/ EvalCompileError(c, r, name)
                   \/ EvalChunkError(c, r, name)
                   \/ EvalChunkLoops(c, r, name)
                   \/ EvalAssertAbort(c, r, name)
                   \/ EvalRun(c, r, n, args, name)

-----------------------------------------------------------------------------
\* Mutant: the CMD_RANDOM / CMD_WRITE gate left out.
ExecutesNoRandomGate(argk, cmd) ==
    /\ argk = "ok"
    /\ cmd \in Cmds
    /\ "noscript" \notin Flags[cmd]

\* Mutant: the gate tests the flags the wrong way round.
ExecutesFlagsSwapped(argk, cmd) ==
    /\ argk = "ok"
    /\ cmd \in Cmds
    /\ "noscript" \notin Flags[cmd]
    /\ ~("random" \in Flags[cmd] /\ writeDirty /\ ~replicateCommands)

(***************************************************************************)
(* Whether the gateway runs command cmd: the arguments are present and all *)
(* strings or numbers (argk), Command::precheck knows the command, it is   *)
(* not CMD_NOSCRIPT, and it is not a CMD_WRITE command after a CMD_RANDOM  *)
(* one in whole-script replication mode.                                   *)
(***************************************************************************)
Executes(argk, cmd) ==
    /\ argk = "ok"
    /\ cmd \in Cmds
    /\ "noscript" \notin Flags[cmd]
    /\ ~("write" \in Flags[cmd] /\ randomDirty /\ ~replicateCommands)

\* Mutant: the early-exit paths lower inuse and a guard armed before them
\* lowers it again.
InuseReleasedTwice(argk, escaped) ==
    IF argk = "ok" /\ ~escaped THEN inuse ELSE inuse - 1

(***************************************************************************)
(* inuse when luaRedisGenericCommand is left: raised at line 324, lowered  *)
(* on the argc == 0 and bad-argument paths and by the MakeGuard otherwise, *)
(* unless a Lua error escaped from luaSortArray's unprotected lua_call:    *)
(* lua_error longjmps to the script's lua_pcall past the MakeGuard, whose  *)
(* destructor never runs.                                                  *)
(***************************************************************************)
InuseAfterCall(argk, escaped) == IF escaped THEN inuse + 1 ELSE inuse

(***************************************************************************)
(* The cluster block of luaRedisGenericCommand: when the server is running *)
(* (not shutting down) and the caller's context has no flags at all, the   *)
(* fake session's CLIENT_READONLY bit is replaced by the caller's.         *)
(***************************************************************************)
SyncReadonly(f, c) ==
    IF ClusterOn /\ ~stopping /\ ~c.readonly
    THEN [f EXCEPT !.readonly = c.readonly] ELSE f

(***************************************************************************)
(* The reply is sorted by luaSortArray (lines 470-474): a CMD_SORT_FOR_    *)
(* SCRIPT command in whole-script replication mode whose reply is a        *)
(* non-nil multi-bulk.  A reply holding a nil bulk (false) makes the first *)
(* table.sort fail, so the array is sorted again with the Lua comparator   *)
(* __redis__compare_helper, through an unprotected lua_call.               *)
(***************************************************************************)
SortedWithHelper(cmd, res) ==
    /\ "sortforscript" \in Flags[cmd]
    /\ ~replicateCommands
    /\ res = "falsearray"

(***************************************************************************)
(* luaRedisGenericCommand, for redis.call (raise = TRUE) and redis.pcall   *)
(* (raise = FALSE): argk is the shape of the Lua arguments ("none",        *)
(* "badtype" or "ok"), cmd the command named, res what runSessionCmd       *)
(* gives back: a reply, a multi-bulk reply holding a nil element, an error *)
(* reply, or a failed status.  The fake session is synchronised first; a   *)
(* command that passes the gates has the cluster flags synced before it   *)
(* runs.  Any error on the redis.call path is raised as a Lua error, which *)
(* ends the run.  When the reply is sorted with the Lua comparator, the    *)
(* count hook can fire inside it and, with a kill or a shutdown pending,   *)
(* raise: the error escapes through the unprotected lua_call, ends the run *)
(* and leaves inuse raised.                                                *)
(***************************************************************************)
Call(raise, argk, cmd, res) ==
    LET ex == Executes(argk, cmd)
        failed == ~ex \/ res \in {"errreply", "fail"}
        canEscape == ex /\ SortedWithHelper(cmd, res) /\ hooked /\ (killReq \/ stopping)
    IN
    /\ phase = "running"
    /\ stateOk
    /\ calls < MaxCalls
    /\ inuse = 0
    /\ fake' = IF ex THEN SyncReadonly(UpdateFake(fake, sess), sess)
                     ELSE UpdateFake(fake, sess)
    /\ calls' = calls + 1
    /\ ran' = IF ex THEN Append(ran, cmd) ELSE ran
    /\ randomDirty' = (randomDirty \/ (ex /\ "random" \in Flags[cmd]))
    /\ writeDirty' = (writeDirty \/ (ex /\ "write" \in Flags[cmd]))
    /\ \E escaped \in IF canEscape THEN BOOLEAN ELSE {FALSE} :
          /\ inuse' = InuseAfterCall(argk, escaped)
          /\ \/ /\ escaped
                /\ EndRun("killed")
             \/ /\ ~escaped /\ raise /\ failed
                /\ EndRun("runtime")
             \/ /\ ~escaped /\ ~(raise /\ failed)
                /\ UNCHANGED <<phase, hooked, timedout, locked, sess, cur, killReq,
                               reply>>
    /\ UNCHANGED <<fns, funcbuf, req, replicateCommands, stopping, stateOk>>

(***************************************************************************)
(* luaRedisGenericCommand while inuse is raised: after updateFakeClient    *)
(* the recursion check pushes an error table and returns it, without       *)
(* raising even for redis.call; no command runs.                           *)
(***************************************************************************)
CallRefused ==
    /\ phase = "running"
    /\ stateOk
    /\ calls < MaxCalls
    /\ inuse # 0
    /\ fake' = UpdateFake(fake, sess)
    /\ calls' = calls + 1
    /\ UNCHANGED <<fns, funcbuf, phase, req, cur, sess, locked, randomDirty,
                   writeDirty, replicateCommands, inuse, timedout, hooked,
                   killReq, stopping, ran, reply, stateOk>>

(***************************************************************************)
(* A Hostile script assigns global f_<sha1(x)>.  Globals protection only   *)
(* intercepts the creation of a global (__newindex), so an existing f_     *)
(* global is overwritten without a check; the value is nil or any function *)
(* the script can reach.                                                   *)
(***************************************************************************)
Tamper(x, v) ==
    /\ phase = "running"
    /\ cur \in Hostile
    /\ fns[x] # NoFn
    /\ v \in {fns[y] : y \in Bodies} \cup {cur, NoFn}
    /\ fns' = [fns EXCEPT ![x] = v]
    /\ UNCHANGED <<funcbuf, phase, req, cur, sess, fake, locked, randomDirty,
                   writeDirty, replicateCommands, inuse, timedout, hooked,
                   killReq, stopping, ran, calls, reply, stateOk>>

(***************************************************************************)
(* A Corrupting script assigns the global lua_state, which initLua set to  *)
(* the decimal address of the LuaState (pushThisToLua); globals protection *)
(* does not guard an existing global.                                      *)
(***************************************************************************)
CorruptLuaState ==
    /\ phase = "running"
    /\ cur \in Corrupting
    /\ stateOk
    /\ stateOk' = FALSE
    /\ UNCHANGED <<fns, funcbuf, phase, req, cur, sess, fake, locked,
                   randomDirty, writeDirty, replicateCommands, inuse, timedout,
                   hooked, killReq, stopping, ran, calls, reply>>

\* The server process has crashed: nothing of the engine changes any more.
Abort ==
    /\ phase' = "down"
    /\ UNCHANGED <<fns, funcbuf, req, cur, sess, fake, locked, randomDirty,
                   writeDirty, replicateCommands, inuse, timedout, hooked,
                   killReq, stopping, ran, calls, reply, stateOk>>

(***************************************************************************)
(* redis.call or redis.pcall once lua_state is corrupt: getLuaStateFromLua *)
(* returns nullptr (stoul fails) or a bogus pointer, and                   *)
(* luaRedisGenericCommand dereferences it (ls->updateFakeClient()).        *)
(***************************************************************************)
GatewayCrash ==
    /\ phase = "running"
    /\ ~stateOk
    /\ Abort

\* luaMaskCountHook once lua_state is corrupt: ls->lua_time_start.
HookCrash ==
    /\ phase = "running"
    /\ hooked
    /\ ~stateOk
    /\ Abort

RunEndUnchanged ==
    UNCHANGED <<fns, funcbuf, req, fake, randomDirty, writeDirty,
                replicateCommands, inuse, stopping, ran, calls, stateOk>>

\* The script returns a value: lua_pcall succeeds and the value is encoded.
Return ==
    /\ phase = "running"
    /\ EndRun("ok")
    /\ RunEndUnchanged

\* The script raises a Lua error: lua_pcall fails.
Raise ==
    /\ phase = "running"
    /\ EndRun("runtime")
    /\ RunEndUnchanged

\* luaMaskCountHook once elapsed >= luaTimeLimit: sets lua_timedout.
HookTimeout ==
    /\ phase = "running"
    /\ hooked
    /\ stateOk
    /\ ~killReq
    /\ ~stopping
    /\ ~timedout
    /\ timedout' = TRUE
    /\ UNCHANGED <<fns, funcbuf, phase, req, cur, sess, fake, locked,
                   randomDirty, writeDirty, replicateCommands, inuse, hooked,
                   killReq, stopping, ran, calls, reply, stateOk>>

\* luaMaskCountHook with a kill requested or the server stopping: lua_error.
HookAbort ==
    /\ phase = "running"
    /\ hooked
    /\ stateOk
    /\ killReq \/ stopping
    /\ EndRun("killed")
    /\ RunEndUnchanged

\* SCRIPT KILL from another client, while a script or its chunk runs.
ScriptKill ==
    /\ phase \in {"loading", "running"}
    /\ ~killReq
    /\ killReq' = TRUE
    /\ UNCHANGED <<fns, funcbuf, phase, req, cur, sess, fake, locked,
                   randomDirty, writeDirty, replicateCommands, inuse, timedout,
                   hooked, stopping, ran, calls, reply, stateOk>>

\* The server begins to shut down.
ServerStop ==
    /\ ~stopping
    /\ stopping' = TRUE
    /\ UNCHANGED <<fns, funcbuf, phase, req, cur, sess, fake, locked,
                   randomDirty, writeDirty, replicateCommands, inuse, timedout,
                   hooked, killReq, ran, calls, reply, stateOk>>

(***************************************************************************)
(* The chunk of a Looping body goes on running: no hook polls SCRIPT KILL  *)
(* or shutdown, so nothing in the engine changes.                          *)
(***************************************************************************)
ChunkLoop ==
    /\ phase = "loading"
    /\ UNCHANGED vars

NumkeysIn == -1..MaxArgs + 1
ArgKinds == {"none", "badtype", "ok"}
CmdResults == {"reply", "falsearray", "errreply", "fail"}

Next ==
    \/ \E c \in Callers, r \in Request, n \in NumkeysIn, args \in ArgSeqs :
          Eval(c, r, n, args)
    \/ \E raise \in BOOLEAN, argk \in ArgKinds, cmd \in Cmds \cup {UnknownCmd},
          res \in CmdResults : Call(raise, argk, cmd, res)
    \/ CallRefused
    \/ \E x \in Bodies, v \in Bodies \cup {NoFn} : Tamper(x, v)
    \/ ChunkLoop
    \/ CorruptLuaState
    \/ GatewayCrash
    \/ HookCrash
    \/ Return
    \/ Raise
    \/ HookTimeout
    \/ HookAbort
    \/ ScriptKill
    \/ ServerStop

(***************************************************************************)
(* The count hook fires every 100000 Lua instructions of a script it is   *)
(* installed on, so once a kill is pending it keeps being able to abort    *)
(* the script: weak fairness of HookAbort.  Nothing forces a guest, or a   *)
(* chunk, to return.                                                       *)
(***************************************************************************)
Spec == Init /\ [][Next]_vars
FairSpec == Spec /\ WF_vars(HookAbort)

-----------------------------------------------------------------------------
(***************************************************************************)
(* The refinement mapping to AtomicScript: a run is in progress while      *)
(* lua_pcall runs; the identity it acts as is the caller with the          *)
(* database of the fake session the commands run on; the log is the        *)
(* history of executed commands.                                           *)
(***************************************************************************)
Acting == IF phase = "running" THEN [sess EXCEPT !.db = fake.db] ELSE NoSession

AS == INSTANCE AtomicScript WITH running <- (phase = "running"), caller <- Acting,
                                 log <- ran

(***************************************************************************)
(* Replication safety of whole-script replication (the CMD_RANDOM /        *)
(* CMD_WRITE gate of luaRedisGenericCommand): within one script run, no    *)
(* write command is executed after a non-deterministic command.            *)
(***************************************************************************)
NoWriteAfterRandom ==
    \A i, j \in 1..Len(ran) :
        (i < j /\ "random" \in Flags[ran[i]]) => "write" \notin Flags[ran[j]]

(***************************************************************************)
(* evalGenericCommand for EVAL: the function that lua_pcall runs is the    *)
(* one compiled from the body the client sent.                             *)
(***************************************************************************)
EvalRunsItsOwnScript ==
    (phase = "running" /\ ~req.sha) => cur = req.body

(***************************************************************************)
(* evalGenericCommand for EVALSHA: the function run is the one cached for  *)
(* the digest the client sent (spec 4.2: a hit returns the cached unit).   *)
(***************************************************************************)
EvalShaRunsRequested ==
    (phase = "running" /\ req.sha) => cur = req.body

(***************************************************************************)
(* updateFakeClient: every command the script runs through the fake        *)
(* session runs in the database the invoking client selected, whatever a   *)
(* previous caller of this engine selected.                                *)
(***************************************************************************)
FakeDbMatchesCaller ==
    phase = "running" => fake.db = sess.db

(***************************************************************************)
(* updateFakeClient: the fake session is authenticated exactly when the    *)
(* invoking client is (spec 3: auth state resynchronised on every call).   *)
(***************************************************************************)
FakeAuthMatchesCaller ==
    phase = "running" => fake.authed = sess.authed

(***************************************************************************)
(* The script registry: global f_<sha1(b)> is nil or the function compiled *)
(* from b (spec 3: a ScriptUnit is never mutated).                         *)
(***************************************************************************)
CacheCoherent ==
    \A b \in Bodies : fns[b] \in {NoFn, b}

(***************************************************************************)
(* Spec 7: guest-script misbehaviour never crashes the host process.  The  *)
(* engine aborts the server at serverAssert (evalGenericCommand) and by    *)
(* dereferencing the pointer getLuaStateFromLua recovers from lua_state.   *)
(***************************************************************************)
NeverAborts == phase # "down"

(***************************************************************************)
(* The engine implements AtomicScript: every step of evalGenericCommand,   *)
(* luaRedisGenericCommand, the hook and the guest is a step of the         *)
(* abstract engine or leaves its state alone, also when hostile scripts    *)
(* inject, overwrite and crash.                                            *)
(***************************************************************************)
ImplementsAtomicScript == AS!ASpec

(***************************************************************************)
(* Spec 6: the caller's READONLY capability reaches the fake session       *)
(* before each delegated command in cluster mode (luaRedisGenericCommand   *)
(* syncs CLIENT_READONLY).                                                 *)
(***************************************************************************)
FakeReadonlyMatchesCaller ==
    (ClusterOn /\ phase = "running" /\ ran # <<>>) => fake.readonly = sess.readonly

(***************************************************************************)
(* What the cluster block of luaRedisGenericCommand does in fact: it only  *)
(* ever copies a cleared READONLY bit, and updateFakeClient creates the    *)
(* fake session with no flags, so the fake session never holds            *)
(* CLIENT_READONLY, whichever callers use the engine (the reverse of what  *)
(* spec 6 asks of FakeReadonlyMatchesCaller).                              *)
(***************************************************************************)
FakeNeverReadonly == fake \in Fake => ~fake.readonly

(***************************************************************************)
(* Spec 4.4.1 and 8: the recursion guard of luaRedisGenericCommand is     *)
(* cleared on every exit path, error paths included, so between gateway    *)
(* calls it is 0 and no later redis.call, of this run or of a later one,   *)
(* is refused as a recursive call.                                         *)
(***************************************************************************)
InuseReleased == inuse = 0

(***************************************************************************)
(* Spec 5 and 7: cancellation is cooperative but bounded; once SCRIPT KILL *)
(* is requested or the server stops while guest code runs, in the chunk    *)
(* luaCreateFunction runs or in the script lua_pcall runs, the engine      *)
(* eventually returns to idle, infinite loops included.                    *)
(***************************************************************************)
KillTerminates ==
    (phase \in {"loading", "running"} /\ (killReq \/ stopping)) ~> (phase = "idle")

=============================================================================
