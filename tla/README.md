# TLA+ models of the Tendis Lua scripting engine

This directory models `src/src/tendisplus/script/lua_state.cpp`. That file is
the engine behind EVAL and EVALSHA: a `LuaState` with one Lua interpreter, run
by one worker at a time. SCRIPT KILL and shutdown reach it from other threads
through the script manager's `luaKill()` and `stopped()` flags.

## The system

| Part (spec 2) | Code | State it changes |
|---|---|---|
| Reply Translator | `redisProtocolToLuaType*` (46-131), `luaReplyToRedisReply` (854-938) | none (pure) |
| Script Registry | `luaCreateFunction` (202-236), lookup in `evalGenericCommand` (1031-1063) | the `f_<sha1>` globals |
| Sandbox Installer | `initLua` (693-827), `pushThisToLua` (829-834), `scriptingEnableGlobalsProtection` (642-669) | the initial globals (`lua_state` included), the protection metatable |
| Command Execution Gateway | `luaRedisGenericCommand` (299-479), `getLuaStateFromLua` (836-848) | `inuse`, `lua_random_dirty`, `lua_write_dirty`, the fake session (its READONLY flag in cluster mode), the database |
| Script Runner | `evalGenericCommand` (1001-1135), `luaMaskCountHook` (961-995) | `_sess`, key locks, the hook, `lua_timedout` |
| Fake session | `updateFakeClient` (1137-1150) | `_fakeSess` (created once, reused) |

How the parts interact:

1. The runner resolves or compiles the function (registry) and synchronises
   the fake session.
2. It locks the declared keys, installs the count hook and calls `lua_pcall`.
3. While the script runs, every `redis.call` or `redis.pcall` goes through
   the gateway. The gateway runs the command on the fake session and decodes
   the reply (translator).
4. The hook checks for a kill every 100000 instructions.
5. The runner encodes the script's return value (translator).

The hard behaviours in this code:

- **Stack residue.** EVALSHA never writes `funcname[2..42]`, so what it looks
  up is stack residue.
- **Shared fake session.** One fake session is reused for every caller.
- **Chunk injection.** The script body is pasted into a Lua chunk as text.
- **Weak globals protection.** It guards only the creation of new globals.
- **Replication gate.** Replication safety rests on the write-after-random
  gate.
- **Kill depends on the hook.** A kill takes effect only through the hook,
  and the hook is installed only after `luaCreateFunction` has run the
  chunk, so the chunk itself cannot be killed.
- **Errors that skip C++ cleanup.** Lua is built as C, so a Lua error is a
  `longjmp`. One raised inside `luaSortArray`'s unprotected `lua_call` jumps
  past the `MakeGuard` of `luaRedisGenericCommand`.
- **Early returns.** `evalGenericCommand` has several early returns, each of
  which leaves different state behind.
- **Guest code inside host invariants.** The chunk run by `luaCreateFunction`
  can clear the global the following `serverAssert` reads back, and a script
  can overwrite `lua_state`, the string from which every callback recovers
  the engine pointer.

## Modules

- **`LuaEngine`**: registry, runner, gateway and fake session in one state
  machine. The parts share `_sess`, `_fakeSess`, the flags and the globals,
  so splitting them into separate modules would only add glue.
  - Variables: `fns` (the `f_` globals), `funcbuf` (the `funcname` stack
    buffer), `phase`, `req`, `cur`, `sess`, `fake`, `locked`, the dirty and
    replication flags, `inuse`, `timedout`, `hooked`, `killReq`, `stopping`,
    `ran` (the commands executed in this run) and `reply`.
  - **`Eval`**: the whole of `evalGenericCommand` up to `lua_pcall`. It is
    the prologue plus one of these outcomes: bad numkeys, NOSCRIPT, compile
    error, a chunk that raises after it loaded (`EvalChunkError`, whose
    definitions stay), a chunk that never returns (`EvalChunkLoops`, phase
    `"loading"`, then only `ChunkLoop` and `ScriptKill`), lock failure, or
    start of the run.
  - The prologue's `phase = "idle"` guard is not a test in the code. It is
    the calling discipline the code relies on: each worker owns its
    `LuaState` (spec 5) and runs one command at a time.
  - **`Call`**: one `luaRedisGenericCommand`. Its inputs are the shape of
    the arguments, the command named, and the command's result: a reply, a
    multi-bulk holding a nil (`"falsearray"`), an error reply, or a failure.
    - A CMD_SORT_FOR_SCRIPT reply holding a nil is re-sorted with the Lua
      comparator through an unprotected `lua_call` (`SortedWithHelper`).
    - The count hook can fire inside that sort and, with a kill or a
      shutdown pending, raise. The error then escapes the call: the run
      ends as killed, and `InuseAfterCall` leaves `inuse` raised.
  - **`CallRefused`**: the gateway while `inuse` is raised (303-323). It
    pushes an error table and returns, even for `redis.call`.
  - **`Tamper`**: a hostile script assigning an existing `f_` global.
  - **Ends of a run**: `Return`, `Raise`, `HookTimeout` and `HookAbort`.
  - **Crashes**: `EvalAssertAbort` (the `serverAssert` at 1062 after a chunk
    cleared its own global), `CorruptLuaState` (a script assigns
    `lua_state`; the variable `stateOk` records whether it still holds the
    engine's address), then `GatewayCrash` and `HookCrash` (the unchecked
    dereferences at 300 and 962). They set `phase` to `"down"`, after which
    nothing changes.
  - **Cluster READONLY sync**: `SyncReadonly`, the block at 424-439, applied
    in `Call` to a command that passed the gates.
  - **Environment**: `ScriptKill` and `ServerStop`, modelled from the spec
    because the script manager is not under `src/`.
  - Constants: `Bodies`, `Malformed` (bodies that do not compile),
    `Failing` (chunks that raise once loaded), `Looping` (chunks that never
    return), and `Injects[b]` (the other `f_` functions the chunk of `b`
    defines).
  - More constants: `Hostile` (bodies that overwrite globals), `Cmds` with
    `Flags`, `Keys`, `DbIds`, and the bounds `MaxArgs` and `MaxCalls`.
- **`ReplyLines`**: the line layer of the codec, with no recursion:
  - the CR search (`FindCR`) and the header parse (`string2ll`, whose digit
    loop is a recursive function, not a RECURSIVE operator);
  - the integer, bulk, status and error decoders (46-110);
  - `strmapchars` and `ErrorLine`, the line `luaReplyToRedisReply` writes
    for an `err` table (885-894).
- **`ReplyCodec`** extends `ReplyLines` with the nested multi-bulk decoder
  and the encoder, one operator per C function. They are RECURSIVE, so
  `ReplyCodec` is used by TLC only.
- **`ReplyTranslation`**: the two places the codec is used:
  - decoding a command reply (line 462);
  - encoding the return value (line 1131), either the decoded reply
    returned unchanged or a value the script built.

  It also holds the spec 4.1 grammar (`Wire`, `LuaOf`) as the reference the
  codec is checked against.
- **`AtomicScript`**: the abstract engine, what EVAL promises its callers.
  Its state is `running`, `caller` and `log` (the commands run so far in
  this run). `Start(c)` begins a run for caller `c`, `Refuse` turns a
  request away, `Execute(cmd, last)` runs a permitted command (no write
  after a random one), and `Finish` ends a run.
- **Refinement mapping** (`Acting` and `AS` in `LuaEngine`): `running` is
  `phase = "running"`; `caller` is the invoking session with the database of
  the fake session (`Acting`), so a fake session in the wrong database
  breaks it; `log` is `ran`.

  | LuaEngine step | AtomicScript step |
  |---|---|
  | `Eval` reaching `lua_pcall` | `Start(c)` |
  | `Eval` early returns, failing or looping chunk, lock failure, `EvalAssertAbort` | `Refuse` |
  | `Call` that executes the command | `Execute(cmd, last)`, `last` when the run ends |
  | `Call` rejected, redis.call | `Finish` |
  | `Call` rejected, redis.pcall | stutter |
  | `Return`, `Raise`, `HookAbort`, `GatewayCrash`, `HookCrash` | `Finish` |
  | `Tamper`, `CorruptLuaState`, `HookTimeout`, `ScriptKill`, `ServerStop`, `CallRefused`, `ChunkLoop` | stutter |
- **`MC_LuaEngine`** and **`MC_ReplyTranslation`**: the TLC instances.
- **`LuaEngineProofs`**, **`LuaEngineRefinement`**,
  **`LuaEngineBenignProofs`** and **`ReplyLinesProofs`**: the TLAPS proofs.

## Runs

| Run | Expect | Checks | What it shows |
|---|---|---|---|
| engine_safety | pass | `TypeOK`, `NoWriteAfterRandom`, `FakeDbMatchesCaller`, `EvalRunsItsOwnScript` | With benign scripts (b1's chunk raises after loading, b2 does not compile, b3's chunk loops) and sorted SMEMBERS replies under kills: no write follows a random command in a run, delegated commands use the caller's database, and EVAL runs the body it was sent. |
| engine_kill | violation | `KillTerminates` | A chunk that loops cannot be killed, even under weak fairness of the hook (finding). |
| inuse_leak | violation | `InuseReleased` | A kill delivered during the sort of a reply leaves `inuse` raised, and later `redis.call`s are refused (finding). |
| codec | pass | `DecodeConsumesWholeReply`, `DecodeMatchesSpec`, `EncodeIsFramed` | The decoder stops exactly after the reply and yields the spec's value. Every encoded return value is a single framed reply. |
| evalsha_residue | violation | `EvalShaRunsRequested` | EVALSHA can run the wrong script (finding). |
| fake_auth | violation | `FakeAuthMatchesCaller` | The fake session stays authenticated (finding). |
| cache_poison | violation | `CacheCoherent` | A body can define another script's function (finding). |
| status_roundtrip | violation | `RoundTrip` | A status reply comes back as a bulk reply (finding). |
| engine_refines | pass | `ImplementsAtomicScript` | With injecting, overwriting, self-erasing and `lua_state`-corrupting bodies, sorted replies, kills and cluster mode on, the engine implements `AtomicScript`. |
| assert_abort | violation | `NeverAborts` | EVAL of a self-erasing body aborts the server (finding). |
| state_global_abort | violation | `NeverAborts` | A script that assigns `lua_state` crashes the server (finding). |
| readonly_sync | violation | `FakeReadonlyMatchesCaller` | A READONLY caller's flag never reaches the fake session (finding). |

Bounds for the engine runs:

- **Two or three bodies.** One body can inject or overwrite the other, and
  the EVALSHA residue can name the other body. `engine_safety` gives each
  chunk outcome a body of its own. A body EVAL runs there is one an earlier
  failing chunk defined, which is still looked up under its own digest.
- **Five commands.** Each flag combination appears: write, random,
  write+random, noscript, and sort-for-script (SMEMBERS). An unknown
  command name is also used.
- **Two callers' databases and both auth values.** A reused fake session
  can carry stale data only when two callers differ.
- **Two keys, two arguments.** numkeys ranges from -1 to 3, which covers
  both rejected ends and every valid count.
- **`MaxCalls = 2`.** A run can execute a random command and then try a
  write, the shortest sequence the gate must stop.

`engine_refines` uses one key and one argument, so that the two bodies, the
five commands and every crash path fit in under three minutes (1,011,712
states).
`b1` injects `b2`, overwrites globals and corrupts `lua_state`; `b2` erases
the `f_` globals. Deadlock checking is off in this run only: once the
process has aborted nothing happens any more, which is the real behaviour.
The other engine runs keep all these constants empty, so they check
deadlock and see no crash.

Bounds for the codec run: replies are nested two deep, with one negative
integer and one bulk payload that contains CR LF. The returned values include
err and ok strings that contain CR/LF, tables with holes, and a non-string
`err`.

Fairness: only `WF_vars(HookAbort)` is assumed. The hook is registered with
`LUA_MASKCOUNT` every 100000 instructions, so while the script runs it fires
again and again and sees the flag. No fairness forces a script or a chunk to
return, because a guest may loop. `engine_kill` sets `TimeLimitOn = TRUE`,
the favourable setting. Even then, a chunk that loops is never stopped,
because no hook is installed while it runs. `ChunkLoop` is that chunk going
on; it changes nothing.

The clearing of the kill request at the end of a run (in `EndRun`) is taken
from the spec, because the script manager is not under `src/`.

## Findings

1. **EVALSHA runs stack residue** (`lua_state.cpp:1033`).
   - Example: EVAL b1 fails to lock its keys, so `f_<sha(b1)>` stays in
     `funcname`. A following EVALSHA for b2 then runs b1.
   - It can also return NOSCRIPT for a script that is cached.
2. **The fake session's auth is sticky** (1142). The spec says it is
   resynchronised on every call.
3. **Script units can be changed** (211, 650).
   - A body such as `return 1 end function f_<other>() ...` defines the
     other script's function.
   - A running script can assign to any existing `f_` global.
   - The spec says a script unit is never mutated.
4. **A status return is encoded as a bulk reply** (905). Spec 8 expects
   `+OK`.
5. **A chunk can make `serverAssert` abort the server** (1062). Globals
   protection lets a chunk assign nil to existing globals, its own `f_`
   included. One EVAL is enough. The spec says guest misbehaviour never
   crashes the host.
6. **A script can crash the server through `lua_state`** (836, 300, 962).
   `getLuaStateFromLua` returns nullptr when the global does not parse, and
   both callers dereference it.
7. **The cluster READONLY flag is never copied** (429). The sync runs only
   when the caller's flags are all zero, so a READONLY caller's flag is
   skipped. The spec says capability flags are synchronised before each
   delegated call.
8. **A kill during a reply sort leaks the recursion guard** (196).
   - SMEMBERS and other CMD_SORT_FOR_SCRIPT commands have their reply
     sorted. A reply holding a nil is re-sorted by `lua_call` with the
     Lua comparator, which is unprotected.
   - With a time limit set, the hook fires inside the comparator. On
     SCRIPT KILL or shutdown it raises, and the error `longjmp`s past the
     `MakeGuard` at 367, so `inuse` stays 1.
   - Every later `redis.call` on this engine gets "recursive call
     detected" and runs nothing. Spec 4.4.1 and 8 say a delegated call
     runs its command.
9. **A chunk that loops cannot be killed** (227, 1096).
   `luaCreateFunction` runs the whole chunk, including any guest statements
   after the function definition, with `lua_pcall`. The count hook is
   installed only afterwards, so SCRIPT KILL and shutdown never reach such a
   loop. Spec 7 says a runaway script can be interrupted.

## Proofs

The proofs hold for every value of the constants that satisfies
`ConstAssumption` and `MarkerAssumption`. `MarkerAssumption` says that the
nil marker and the garbage `funcname` bytes are not script bodies. In the
runs, bodies are model values, so TLC checks this on every run.

`LuaEngineProofs` proves these:

- **`TypeCorrect`**: `Spec => []TypeOK`.
  - The inductive invariant is `TypeInv`. It adds "while running, `sess` is
    a caller, the fake session exists and has the caller's database". `Call`
    needs those conjuncts to type the fake session.
  - There is one lemma per action group, built on lemmas for the helpers
    `UpdateFake`, `DefineChunk` and `KeysOf`.
- **`FakeDbSynced`**: `Spec => []FakeDbMatchesCaller`, directly from
  `TypeInv`. `UpdateFake` copies the caller's db, and `SyncReadonly` leaves
  the db alone (lemmas `UpdateFakeType` and `SyncReadonlyType`).
- **`WriteAfterRandomRejected`**: `Spec => []NoWriteAfterRandom`.
  - The property on its own is not inductive, because the gate reads
    `lua_random_dirty` and not the history.
  - `IInv` strengthens it: `RandomDirtyTracksRan` says the flag is TRUE
    exactly when a random command has run in this run. Also,
    `replicateCommands` is always FALSE, because `redis.replicate_commands`
    is not registered.
  - `Eval` clears the flag and the history together. A `Call` that executes
    a write saw the flag FALSE, so no random command came before it.

- **`EngineRefinesAtomicScript`** (in `LuaEngineRefinement`):
  `Spec => ImplementsAtomicScript`.
  - `InitRefines` maps the initial state to `AInit`.
  - `NextRefines` shows that each step, under `IInv` and `IInv'`, is a step
    of `AtomicScript` or a stutter, following the table above.
  - `Acting` equals the caller because of the db conjunct of `TypeInv`
    (lemma `ActingIsCaller`).
  - `Permitted` holds for an executed command because of
    `RandomDirtyTracksRan` and `replicateCommands = FALSE`.
  - An error escaping the sort ends the run like a raised error: the
    command already ran, so the step is `Execute(cmd, TRUE)`.

`LuaEngineBenignProofs` proves what holds when the scripts are benign:

- **`BenignEvalRunsItsOwnScript`**. Its hypotheses are `NoInjection` (no
  chunk defines another script's function) and `NoTampering`
  (`Hostile = {}`). Chunks may fail, loop or erase.
  - The inductive invariant is `RegistryInv`: `TypeInv` plus
    `CacheCoherent` (every `f_` global is nil or its own body) plus
    `EvalRunsItsOwnScript`.
  - `DefineChunkCoherent`: compiling a body keeps the registry coherent.
  - `DefinedIsOwn`: a defined global in a coherent registry holds its own
    body, so `cur' = fns'[sha1(body)] = body`.
  - EVALSHA's stack residue does not matter for EVAL.

The hypotheses describe a class of scripts, not the code. The cache_poison
run drops them and shows EVALSHA then running another script's code.

Back in `LuaEngineProofs`:

- **`FakeReadonlyNeverSet`**:
  `Spec => []FakeNeverReadonly`, for every caller, db and cluster setting.
  - It generalises finding 7: the readonly_sync run shows one instance,
    and the theorem shows that the fake session never holds
    CLIENT_READONLY in any run.
  - The inductive invariant is `ROInv`, which is `TypeInv` plus the
    property. `Call` needs the fake session to be a record before the sync
    is applied.
  - `UpdateFakeNotReadonly`: `updateFakeClient` creates the session with
    no flags and keeps the flag it had.
  - `SyncReadonlyNotReadonly`: the sync copies the caller's bit only when
    that bit is clear.

`ReplyLinesProofs` proves the framing of one reply line for all inputs, over
any alphabet `U` that holds the marker characters:

- **`StatusLineDecoded`**, **`ErrorLineDecoded`** and **`IntLineDecoded`**:
  - The input is `+s CR LF t`, `-s CR LF t` or `:ds CR LF t`, where the line
    holds no CR.
  - The decoder pushes `{ok = s}`, `{err = s}` or the number `string2ll`
    reads.
  - It resumes right after the LF, whatever `t` is.
  - The lemma `LineLayout` places the CR. `FindCRFirst` shows that
    `strchr` stops at the first CR.
- **`ErrorReplyFramed`**: for any string `s`, CR and LF included, the error
  line `luaReplyToRedisReply` writes decodes back to
  `{err = strmapchars(s)}` and is consumed exactly.
  - The lemma `StrmapcharsBlanks` shows that `strmapchars` leaves no CR, so
    the CR search stops at the line's own terminator. The mutant
    `strmapcharsOmitted` breaks exactly this.
- **`BulkDecoded`**: the input is `$ds CR LF s CR LF t`, where the header
  `ds` holds no CR and reads as `Len(s)`.
  - The bulk decoder pushes `s` whole, even when `s` holds CR or LF.
  - It resumes right after `s`'s trailing CR LF.
  - The hypothesis on the header is stated as `string2ll(...) = Len(s)`,
    not as "ds is the decimal form of Len(s)". That the printed length
    parses back needs induction over the digits (see below).

Left to TLC only:

- the liveness property `KillTerminates`, which TLAPS cannot check (it is
  violated anyway, finding 9);
- the codec's whole-reply properties `DecodeConsumesWholeReply`,
  `DecodeMatchesSpec` and `EncodeIsFramed`. They are about nested
  multi-bulk replies, so they need `ReplyCodec`'s RECURSIVE operators
  (`redisProtocolToLuaType`, `DecodeItems`, `luaReplyToRedisReply`,
  `EncodeItems`). A module that reaches a RECURSIVE operator cannot hold a
  theorem. Restating them as recursive functions would not help: a proof
  would need induction over the nesting depth, with the property as the
  induction predicate, and the installed provers cannot instantiate the
  library's induction theorems. `ReplyLinesProofs` proves the base cases,
  one line of each kind; the run checks the nesting;
- that `IntChars`/`NatChars` (`fmtLongLong`) and `string2ll` are inverse.
  This is induction over the digit string, so `BulkDecoded` takes the
  header's value as a hypothesis;
- the violation runs, which are counterexamples.

## Not modelled

- **Library contents, `redis.log`, `sha1hex`, `math.random`.** They are pure
  functions or logging. The PRNG is reseeded on every run.
- **The order of a sorted reply.** `luaSortArray` is modelled only for its
  control flow (the unprotected re-sort). The other cluster flags are
  abstracted away: the model has only READONLY.
- **`redis.call` from inside a chunk.** It would run before the keys are
  locked and before the run's flags are reset. The gateway is modelled
  only while a script runs.
- **Storage effects, and the missing rollback on error.** Storage is an
  external collaborator.
- **Several engines competing for key locks.** The lock attempt is a
  nondeterministic success or failure. A composition with a lock manager is
  planned.
- **The hook's unpushed shutdown error** (992). The error handler turns it
  into "error in error handling", and the reply text is abstracted anyway.
