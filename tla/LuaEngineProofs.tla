--------------------------- MODULE LuaEngineProofs ---------------------------
(***************************************************************************)
(* Proofs about LuaEngine for every value of its constants: type           *)
(* correctness, that the fake session runs delegated commands in the       *)
(* caller's database, that the gateway never runs a write command after a  *)
(* non-deterministic one in the same script run, and that the engine       *)
(* implements the abstract AtomicScript specification.                     *)
(***************************************************************************)
EXTENDS LuaEngine, TLAPS

(***************************************************************************)
(* TypeOK alone is not inductive: the gateway reads the invoking session   *)
(* and the fake session (updateFakeClient dereferences both), so a running *)
(* script must have them, and the fake session must already carry the      *)
(* caller's database for a later Call to keep FakeDbMatchesCaller.         *)
(***************************************************************************)
TypeInv ==
    /\ TypeOK
    /\ phase = "running" => /\ sess \in Callers
                            /\ fake \in Fake
                            /\ fake.db = sess.db

USE ConstAssumption

LEMMA UpdateFakeType ==
    ASSUME NEW f \in Fake \cup {NoSession}, NEW c \in Callers
    PROVE  /\ UpdateFake(f, c) \in Fake
           /\ UpdateFake(f, c).db = c.db
BY DEF UpdateFake, Fake, Callers

LEMMA SyncReadonlyType ==
    ASSUME NEW f \in Fake, NEW c \in Callers
    PROVE  /\ SyncReadonly(f, c) \in Fake
           /\ SyncReadonly(f, c).db = f.db
BY DEF SyncReadonly, Fake, Callers

LEMMA DefineChunkType ==
    ASSUME NEW f \in [Bodies -> Bodies \cup {NoFn}], NEW b \in Bodies
    PROVE  DefineChunk(f, b) \in [Bodies -> Bodies \cup {NoFn}]
BY DEF DefineChunk

LEMMA KeysOfType ==
    ASSUME NEW args \in ArgSeqs, NEW n \in 0..Len(args)
    PROVE  KeysOf(args, n) \subseteq Keys
<1>1. PICK m \in 0..MaxArgs : args \in [1..m -> Keys]
  BY DEF ArgSeqs
<1>2. Len(args) = m
  BY <1>1
<1>. QED
  BY <1>1, <1>2 DEF KeysOf

LEMMA InitTypeInv == Init => TypeInv
<1> SUFFICES ASSUME Init PROVE TypeInv
  OBVIOUS
<1>1. fns \in [Bodies -> Bodies \cup {NoFn}]
  BY DEF Init
<1>2. calls \in 0..MaxCalls /\ ran \in Seq(Cmds) /\ inuse \in Nat
  BY DEF Init
<1>3. reply \in Outcome /\ sess \in Callers \cup {NoSession}
      /\ fake \in Fake \cup {NoSession}
  BY DEF Init, Outcome
<1>. QED
  BY <1>1, <1>2, <1>3 DEF Init, TypeInv, TypeOK

\* The steps that end a run keep the type.
LEMMA EndRunType ==
    ASSUME TypeInv, NEW out \in Outcome, EndRun(out)
    PROVE  /\ phase' \in {"idle", "running", "down"} /\ phase' # "running"
           /\ cur' \in Bodies \cup {NoFn}
           /\ sess' \in Callers \cup {NoSession}
           /\ locked' \subseteq Keys
           /\ timedout' \in BOOLEAN /\ hooked' \in BOOLEAN
           /\ killReq' \in BOOLEAN /\ reply' \in Outcome
BY DEF EndRun

LEMMA EvalTypeInv ==
    ASSUME TypeInv, NEW c \in Callers, NEW r \in Request, NEW n \in NumkeysIn,
           NEW args \in ArgSeqs, Eval(c, r, n, args)
    PROVE  TypeInv'
<1>. USE DEF TypeInv, TypeOK
<1>0. EvalPrologue(c, r)
  BY DEF Eval
<1>a. /\ req' \in Request /\ randomDirty' \in BOOLEAN /\ writeDirty' \in BOOLEAN
      /\ replicateCommands' \in BOOLEAN /\ phase = "idle"
  BY <1>0 DEF EvalPrologue
<1>b. ran' \in Seq(Cmds) /\ calls' \in 0..MaxCalls
  BY <1>0 DEF EvalPrologue
<1>c. inuse' \in Nat /\ killReq' \in BOOLEAN /\ stopping' \in BOOLEAN
      /\ timedout' \in BOOLEAN /\ stateOk' \in BOOLEAN
  BY <1>0 DEF EvalPrologue
<1>1. /\ req' \in Request /\ randomDirty' \in BOOLEAN /\ writeDirty' \in BOOLEAN
      /\ replicateCommands' \in BOOLEAN /\ ran' \in Seq(Cmds) /\ calls' \in 0..MaxCalls
      /\ inuse' \in Nat /\ killReq' \in BOOLEAN /\ stopping' \in BOOLEAN
      /\ timedout' \in BOOLEAN /\ stateOk' \in BOOLEAN /\ phase = "idle"
  BY <1>a, <1>b, <1>c
<1>2. CASE EvalBadNumkeys(c, n, args)
  BY <1>1, <1>2 DEF EvalBadNumkeys, Outcome
<1>3. CASE /\ n \in 0..Len(args)
           /\ \E name \in LookupNames(r) :
                 /\ funcbuf' = name
                 /\ \/ EvalNoScript(c, r, name)
                    \/ EvalCompileError(c, r, name)
                    \/ EvalChunkError(c, r, name)
                    \/ EvalChunkLoops(c, r, name)
                    \/ EvalAssertAbort(c, r, name)
                    \/ EvalRun(c, r, n, args, name)
  <2>1. PICK name \in LookupNames(r) :
               /\ funcbuf' = name
               /\ \/ EvalNoScript(c, r, name)
                  \/ EvalCompileError(c, r, name)
                  \/ EvalChunkError(c, r, name)
                  \/ EvalChunkLoops(c, r, name)
                  \/ EvalAssertAbort(c, r, name)
                  \/ EvalRun(c, r, n, args, name)
    BY <1>3
  <2>2. funcbuf' \in Bodies \cup {Garbage}
    BY <2>1 DEF LookupNames, Request
  <2>3. CASE EvalNoScript(c, r, name)
    BY <1>1, <2>2, <2>3 DEF EvalNoScript, Outcome
  <2>4. CASE EvalCompileError(c, r, name)
    BY <1>1, <2>2, <2>4 DEF EvalCompileError, Outcome
  <2>7. CASE EvalChunkError(c, r, name)
    <3>1. fns' \in [Bodies -> Bodies \cup {NoFn}]
      BY <2>7, DefineChunkType DEF EvalChunkError, Request
    <3>. QED
      BY <1>1, <2>2, <2>7, <3>1 DEF EvalChunkError, Outcome
  <2>8. CASE EvalChunkLoops(c, r, name)
    <3>1. fns' \in [Bodies -> Bodies \cup {NoFn}]
      BY <2>8 DEF EvalChunkLoops, Request
    <3>. QED
      BY <1>1, <2>2, <2>8, <3>1 DEF EvalChunkLoops
  <2>5. CASE EvalAssertAbort(c, r, name)
    <3>1. fns' \in [Bodies -> Bodies \cup {NoFn}]
      BY <2>5, DefineChunkType DEF EvalAssertAbort, Request
    <3>. QED
      BY <1>1, <2>2, <2>5, <3>1 DEF EvalAssertAbort
  <2>6. CASE EvalRun(c, r, n, args, name)
    <3>1. fns' \in [Bodies -> Bodies \cup {NoFn}]
      BY <2>6, DefineChunkType DEF EvalRun, Request
    <3>2. fake' \in Fake /\ fake'.db = c.db
      BY <2>6, UpdateFakeType DEF EvalRun
    <3>3. name \in Bodies
      BY <2>1, <2>6 DEF EvalRun, Found, Defined, LookupNames, Request
    <3>4. KeysOf(args, n) \subseteq Keys
      BY <1>3, KeysOfType
    <3>5. CASE /\ phase' = "running"
               /\ sess' = c
               /\ locked' = KeysOf(args, n)
               /\ hooked' = InstallHook
               /\ cur' = fns'[name]
               /\ UNCHANGED reply
      BY <1>1, <2>2, <3>1, <3>2, <3>3, <3>4, <3>5 DEF InstallHook
    <3>6. CASE /\ sess' = NoSession
               /\ reply' = "lock"
               /\ UNCHANGED <<phase, cur, locked, hooked>>
      BY <1>1, <2>2, <3>1, <3>2, <3>6 DEF Outcome
    <3>. QED
      BY <2>6, <3>5, <3>6 DEF EvalRun
  <2>. QED
    BY <2>1, <2>3, <2>4, <2>5, <2>6, <2>7, <2>8
<1>. QED
  BY <1>2, <1>3 DEF Eval

(***************************************************************************)
(* The gateway step: updateFakeClient copies the caller's database into    *)
(* the fake session, and the cluster READONLY sync leaves it alone.        *)
(***************************************************************************)
LEMMA CallTypeInv ==
    ASSUME TypeInv, NEW raise \in BOOLEAN, NEW argk \in ArgKinds,
           NEW cmd \in Cmds \cup {UnknownCmd}, NEW res \in CmdResults,
           Call(raise, argk, cmd, res)
    PROVE  TypeInv'
<1>. USE DEF TypeInv, TypeOK
<1>1. sess \in Callers /\ fake \in Fake
  BY DEF Call
<1>2. fake' \in Fake /\ fake'.db = sess.db
  <2>1. UpdateFake(fake, sess) \in Fake /\ UpdateFake(fake, sess).db = sess.db
    BY <1>1, UpdateFakeType
  <2>2. /\ SyncReadonly(UpdateFake(fake, sess), sess) \in Fake
        /\ SyncReadonly(UpdateFake(fake, sess), sess).db = sess.db
    BY <1>1, <2>1, SyncReadonlyType
  <2>. QED
    BY <2>1, <2>2 DEF Call
<1>3. calls' \in 0..MaxCalls
  BY DEF Call
<1>4. ran' \in Seq(Cmds)
  BY DEF Call, Executes
<1>5. randomDirty' \in BOOLEAN /\ writeDirty' \in BOOLEAN
  BY DEF Call
<1>6. /\ UNCHANGED <<fns, funcbuf, req, replicateCommands, stopping, stateOk>>
      /\ inuse' \in Nat
  BY DEF Call, InuseAfterCall
<1>7. \/ EndRun("killed") \/ EndRun("runtime")
      \/ UNCHANGED <<phase, hooked, timedout, locked, sess, cur, killReq, reply>>
  BY DEF Call
<1>8. CASE EndRun("killed") \/ EndRun("runtime")
  BY <1>2, <1>3, <1>4, <1>5, <1>6, <1>8 DEF EndRun, Outcome
<1>9. CASE UNCHANGED <<phase, hooked, timedout, locked, sess, cur, killReq, reply>>
  BY <1>1, <1>2, <1>3, <1>4, <1>5, <1>6, <1>9
<1>. QED
  BY <1>7, <1>8, <1>9

(***************************************************************************)
(* The steps of the hook, of other clients, of a corrupting script and of  *)
(* a crash change only flags and may end the run: they keep the type.      *)
(***************************************************************************)
LEMMA FlagStepType ==
    ASSUME TypeInv,
           UNCHANGED <<fns, funcbuf, req, cur, sess, fake, locked, randomDirty,
                       writeDirty, replicateCommands, inuse, ran, calls, reply>>,
           phase' \in {"idle", "loading", "running", "down"},
           phase' = "running" => phase = "running",
           timedout' \in BOOLEAN, hooked' \in BOOLEAN, killReq' \in BOOLEAN,
           stopping' \in BOOLEAN, stateOk' \in BOOLEAN
    PROVE  TypeInv'
BY DEF TypeInv, TypeOK

LEMMA NextTypeInv == TypeInv /\ [Next]_vars => TypeInv'
<1> SUFFICES ASSUME TypeInv, [Next]_vars PROVE TypeInv'
  OBVIOUS
<1>. USE DEF TypeInv, TypeOK
<1>1. CASE \E c \in Callers, r \in Request, n \in NumkeysIn, args \in ArgSeqs :
              Eval(c, r, n, args)
  BY <1>1, EvalTypeInv
<1>2. CASE \E raise \in BOOLEAN, argk \in ArgKinds, cmd \in Cmds \cup {UnknownCmd},
              res \in CmdResults : Call(raise, argk, cmd, res)
  BY <1>2, CallTypeInv
<1>3. CASE \E x \in Bodies, v \in Bodies \cup {NoFn} : Tamper(x, v)
  BY <1>3 DEF Tamper
<1>4. CASE Return \/ Raise \/ HookAbort
  BY <1>4 DEF Return, Raise, HookAbort, EndRun, RunEndUnchanged, Outcome
<1>5. CASE HookTimeout \/ ScriptKill
  BY <1>5, FlagStepType DEF HookTimeout, ScriptKill
<1>8. CASE ServerStop \/ CorruptLuaState
  BY <1>8, FlagStepType DEF ServerStop, CorruptLuaState
<1>6. CASE GatewayCrash \/ HookCrash
  <2>1. Abort
    BY <1>6 DEF GatewayCrash, HookCrash
  <2>. QED
    BY <2>1, FlagStepType DEF Abort
<1>9. CASE CallRefused
  <2>1. sess \in Callers /\ fake \in Fake
    BY <1>9 DEF CallRefused
  <2>2. fake' \in Fake /\ fake'.db = sess.db
    BY <1>9, <2>1, UpdateFakeType DEF CallRefused
  <2>. QED
    BY <1>9, <2>2 DEF CallRefused
<1>7. CASE UNCHANGED vars \/ ChunkLoop
  BY <1>7 DEF vars, ChunkLoop
<1>. QED
  BY <1>1, <1>2, <1>3, <1>4, <1>5, <1>6, <1>7, <1>8, <1>9 DEF Next

(***************************************************************************)
(* Every state the engine reaches is well typed.                           *)
(***************************************************************************)
THEOREM TypeCorrect == Spec => []TypeOK
<1>1. Init => TypeInv
  BY InitTypeInv
<1>2. TypeInv /\ [Next]_vars => TypeInv'
  BY NextTypeInv
<1>3. TypeInv => TypeOK
  BY DEF TypeInv
<1>. QED
  BY <1>1, <1>2, <1>3, PTL DEF Spec

(***************************************************************************)
(* updateFakeClient: in every state of every run, while a script runs, the *)
(* fake session that executes its redis.call/pcall commands has the        *)
(* invoking client's database, whichever caller used the engine before.    *)
(***************************************************************************)
THEOREM FakeDbSynced == Spec => []FakeDbMatchesCaller
<1>1. TypeInv => FakeDbMatchesCaller
  BY DEF TypeInv, FakeDbMatchesCaller
<1>. QED
  BY <1>1, InitTypeInv, NextTypeInv, PTL DEF Spec

-----------------------------------------------------------------------------
(***************************************************************************)
(* NoWriteAfterRandom is not inductive by itself: the gateway decides from *)
(* lua_random_dirty, not from the commands already run.  The               *)
(* strengthening says that the flag records exactly whether a CMD_RANDOM   *)
(* command has run in this script run, and that single-command            *)
(* replication is never on (redis.replicate_commands is not registered).   *)
(***************************************************************************)
RandomDirtyTracksRan ==
    randomDirty = (\E i \in 1..Len(ran) : "random" \in Flags[ran[i]])

IInv ==
    /\ TypeInv
    /\ replicateCommands = FALSE
    /\ RandomDirtyTracksRan
    /\ NoWriteAfterRandom

LEMMA InitIInv == Init => IInv
<1> SUFFICES ASSUME Init PROVE IInv
  OBVIOUS
<1>1. TypeInv
  BY InitTypeInv
<1>2. ran = <<>> /\ randomDirty = FALSE /\ replicateCommands = FALSE
  BY DEF Init
<1>3. 1..Len(ran) = {}
  BY <1>2
<1>. QED
  BY <1>1, <1>2, <1>3 DEF IInv, RandomDirtyTracksRan, NoWriteAfterRandom

\* A step that starts a run clears the history and the flags.
LEMMA EvalIInv ==
    ASSUME IInv, NEW c \in Callers, NEW r \in Request, NEW n \in NumkeysIn,
           NEW args \in ArgSeqs, Eval(c, r, n, args)
    PROVE  /\ replicateCommands' = FALSE
           /\ RandomDirtyTracksRan'
           /\ NoWriteAfterRandom'
<1>1. ran' = <<>> /\ randomDirty' = FALSE /\ replicateCommands' = FALSE
  BY DEF Eval, EvalPrologue
<1>2. 1..Len(ran') = {}
  BY <1>1
<1>. QED
  BY <1>1, <1>2 DEF RandomDirtyTracksRan, NoWriteAfterRandom

(***************************************************************************)
(* The gateway step: a command that executes is appended to the history;   *)
(* when it is a write, the guard of luaRedisGenericCommand saw             *)
(* lua_random_dirty false, so no CMD_RANDOM command precedes it.           *)
(***************************************************************************)
LEMMA CallIInv ==
    ASSUME IInv, NEW raise \in BOOLEAN, NEW argk \in ArgKinds,
           NEW cmd \in Cmds \cup {UnknownCmd}, NEW res \in CmdResults,
           Call(raise, argk, cmd, res)
    PROVE  /\ replicateCommands' = FALSE
           /\ RandomDirtyTracksRan'
           /\ NoWriteAfterRandom'
<1>. USE DEF IInv, TypeInv, TypeOK
<1>1. replicateCommands' = FALSE
  BY DEF Call
<1>2. CASE ~Executes(argk, cmd)
  <2>1. ran' = ran /\ randomDirty' = randomDirty
    BY <1>2 DEF Call
  <2>. QED
    BY <1>1, <2>1 DEF RandomDirtyTracksRan, NoWriteAfterRandom
<1>3. CASE Executes(argk, cmd)
  <2>1. cmd \in Cmds /\ ~("write" \in Flags[cmd] /\ randomDirty)
    BY <1>3 DEF Executes
  <2>2. ran' = Append(ran, cmd)
        /\ randomDirty' = (randomDirty \/ "random" \in Flags[cmd])
    BY <1>3 DEF Call
  <2>3. /\ Len(ran') = Len(ran) + 1
        /\ ran'[Len(ran) + 1] = cmd
        /\ \A i \in 1..Len(ran) : ran'[i] = ran[i]
    BY <2>1, <2>2
  <2>4. RandomDirtyTracksRan'
    <3>1. (\E i \in 1..Len(ran') : "random" \in Flags[ran'[i]])
          <=> \/ \E i \in 1..Len(ran) : "random" \in Flags[ran[i]]
              \/ "random" \in Flags[cmd]
      <4>1. 1..Len(ran') = 1..Len(ran) \cup {Len(ran) + 1}
        BY <2>3
      <4>. QED
        BY <2>3, <4>1
    <3>. QED
      BY <2>2, <3>1 DEF RandomDirtyTracksRan
  <2>5. NoWriteAfterRandom'
    <3> SUFFICES ASSUME NEW i \in 1..Len(ran'), NEW j \in 1..Len(ran'),
                        i < j, "random" \in Flags[ran'[i]]
                 PROVE  "write" \notin Flags[ran'[j]]
      BY DEF NoWriteAfterRandom
    <3>1. i \in 1..Len(ran)
      BY <2>3
    <3>2. "random" \in Flags[ran[i]]
      BY <2>3, <3>1
    <3>3. CASE j \in 1..Len(ran)
      BY <2>3, <3>1, <3>2, <3>3 DEF NoWriteAfterRandom
    <3>4. CASE j = Len(ran) + 1
      BY <2>1, <2>3, <3>1, <3>2, <3>4 DEF RandomDirtyTracksRan
    <3>. QED
      BY <2>3, <3>3, <3>4
  <2>. QED
    BY <1>1, <2>4, <2>5
<1>. QED
  BY <1>2, <1>3

LEMMA NextIInv == IInv /\ [Next]_vars => IInv'
<1> SUFFICES ASSUME IInv, [Next]_vars PROVE IInv'
  OBVIOUS
<1>1. TypeInv'
  BY NextTypeInv DEF IInv
<1>2. CASE \E c \in Callers, r \in Request, n \in NumkeysIn, args \in ArgSeqs :
              Eval(c, r, n, args)
  BY <1>1, <1>2, EvalIInv DEF IInv
<1>3. CASE \E raise \in BOOLEAN, argk \in ArgKinds, cmd \in Cmds \cup {UnknownCmd},
              res \in CmdResults : Call(raise, argk, cmd, res)
  BY <1>1, <1>3, CallIInv DEF IInv
<1>4. CASE \/ \E x \in Bodies, v \in Bodies \cup {NoFn} : Tamper(x, v)
           \/ Return \/ Raise \/ HookAbort \/ HookTimeout \/ ScriptKill
           \/ ServerStop \/ CorruptLuaState \/ GatewayCrash \/ HookCrash
           \/ CallRefused \/ ChunkLoop \/ UNCHANGED vars
  <2>1. UNCHANGED <<ran, randomDirty, replicateCommands>>
    BY <1>4 DEF Tamper, Return, Raise, HookAbort, RunEndUnchanged, HookTimeout,
                ScriptKill, ServerStop, CorruptLuaState, GatewayCrash,
                HookCrash, Abort, CallRefused, ChunkLoop, vars
  <2>. QED
    BY <1>1, <2>1 DEF IInv, RandomDirtyTracksRan, NoWriteAfterRandom
<1>. QED
  BY <1>2, <1>3, <1>4 DEF Next

(***************************************************************************)
(* Whole-script replication stays sound: in no run of the engine does the  *)
(* gateway execute a CMD_WRITE command after a CMD_RANDOM one of the same  *)
(* script run, whatever the commands, scripts and callers.                 *)
(***************************************************************************)
THEOREM WriteAfterRandomRejected == Spec => []NoWriteAfterRandom
<1>1. Init => IInv
  BY InitIInv
<1>2. IInv /\ [Next]_vars => IInv'
  BY NextIInv
<1>3. IInv => NoWriteAfterRandom
  BY DEF IInv
<1>. QED
  BY <1>1, <1>2, <1>3, PTL DEF Spec

-----------------------------------------------------------------------------
(***************************************************************************)
(* The READONLY flag of the fake session.  FakeNeverReadonly needs the     *)
(* type invariant beside it: the gateway's sync is applied to the fake     *)
(* session updateFakeClient returns, which is a session record only        *)
(* because a running script has one (TypeInv).                             *)
(***************************************************************************)
ROInv == TypeInv /\ FakeNeverReadonly

\* updateFakeClient creates the session with no flags and keeps the flag it had.
LEMMA UpdateFakeNotReadonly ==
    ASSUME NEW f \in Fake \cup {NoSession}, NEW c \in Callers,
           f \in Fake => ~f.readonly
    PROVE  ~UpdateFake(f, c).readonly
<1>1. CASE f = NoSession
  BY <1>1 DEF UpdateFake
<1>2. CASE f # NoSession
  BY <1>2 DEF UpdateFake, Fake
<1>. QED
  BY <1>1, <1>2

\* The cluster sync copies the caller's bit only when that bit is clear.
LEMMA SyncReadonlyNotReadonly ==
    ASSUME NEW f \in Fake, NEW c \in Callers, ~f.readonly
    PROVE  ~SyncReadonly(f, c).readonly
BY DEF SyncReadonly, Fake, Callers

\* EVAL leaves the fake session alone or passes it through updateFakeClient.
LEMMA EvalFake ==
    ASSUME NEW c \in Callers, NEW r \in Request, NEW n \in NumkeysIn,
           NEW args \in ArgSeqs, Eval(c, r, n, args)
    PROVE  fake' = fake \/ fake' = UpdateFake(fake, c)
BY Zenon DEF Eval, EvalBadNumkeys, EvalNoScript, EvalCompileError,
             EvalChunkError, EvalChunkLoops, EvalAssertAbort, EvalRun

LEMMA NextROInv == ROInv /\ [Next]_vars => ROInv'
<1> SUFFICES ASSUME ROInv, [Next]_vars PROVE ROInv'
  OBVIOUS
<1>1. TypeInv'
  BY NextTypeInv DEF ROInv
<1>0. fake \in Fake \cup {NoSession} /\ (fake \in Fake => ~fake.readonly)
  BY DEF ROInv, TypeInv, TypeOK, FakeNeverReadonly
<1>2. CASE \E c \in Callers, r \in Request, n \in NumkeysIn, args \in ArgSeqs :
              Eval(c, r, n, args)
  <2>1. PICK c \in Callers, r \in Request, n \in NumkeysIn, args \in ArgSeqs :
               Eval(c, r, n, args)
    BY <1>2
  <2>2. ~UpdateFake(fake, c).readonly
    BY <1>0, UpdateFakeNotReadonly
  <2>. QED
    BY <1>0, <1>1, <2>1, <2>2, EvalFake DEF ROInv, FakeNeverReadonly
<1>3. CASE \E raise \in BOOLEAN, argk \in ArgKinds, cmd \in Cmds \cup {UnknownCmd},
              res \in CmdResults : Call(raise, argk, cmd, res)
  <2>1. PICK raise \in BOOLEAN, argk \in ArgKinds, cmd \in Cmds \cup {UnknownCmd},
             res \in CmdResults : Call(raise, argk, cmd, res)
    BY <1>3
  <2>2. sess \in Callers /\ fake \in Fake
    BY <2>1 DEF Call, ROInv, TypeInv
  <2>3. UpdateFake(fake, sess) \in Fake /\ ~UpdateFake(fake, sess).readonly
    BY <1>0, <2>2, UpdateFakeType, UpdateFakeNotReadonly
  <2>4. ~SyncReadonly(UpdateFake(fake, sess), sess).readonly
    BY <2>2, <2>3, SyncReadonlyNotReadonly
  <2>5. fake' = SyncReadonly(UpdateFake(fake, sess), sess)
        \/ fake' = UpdateFake(fake, sess)
    BY <2>1 DEF Call
  <2>. QED
    BY <1>1, <2>3, <2>4, <2>5 DEF ROInv, FakeNeverReadonly
<1>5. CASE CallRefused
  <2>1. sess \in Callers /\ fake \in Fake
    BY <1>5 DEF CallRefused, ROInv, TypeInv
  <2>2. ~UpdateFake(fake, sess).readonly
    BY <1>0, <2>1, UpdateFakeNotReadonly
  <2>. QED
    BY <1>1, <1>5, <2>2 DEF CallRefused, ROInv, FakeNeverReadonly
<1>4. CASE \/ \E x \in Bodies, v \in Bodies \cup {NoFn} : Tamper(x, v)
           \/ Return \/ Raise \/ HookAbort \/ HookTimeout \/ ScriptKill
           \/ ServerStop \/ CorruptLuaState \/ GatewayCrash \/ HookCrash
           \/ ChunkLoop \/ UNCHANGED vars
  <2>1. fake' = fake
    BY <1>4 DEF Tamper, Return, Raise, HookAbort, RunEndUnchanged, HookTimeout,
                ScriptKill, ServerStop, CorruptLuaState, GatewayCrash,
                HookCrash, Abort, ChunkLoop, vars
  <2>. QED
    BY <1>0, <1>1, <2>1 DEF ROInv, FakeNeverReadonly
<1>. QED
  BY <1>2, <1>3, <1>4, <1>5 DEF Next

(***************************************************************************)
(* luaRedisGenericCommand's cluster block never gives the fake session     *)
(* CLIENT_READONLY: in every state of every run, for all callers, dbs and  *)
(* flag values, the fake session that runs a script's commands is not      *)
(* READONLY.  So a READONLY caller's commands in cluster mode always run   *)
(* without the flag, which the readonly_sync run shows on one instance.    *)
(***************************************************************************)
THEOREM FakeReadonlyNeverSet == Spec => []FakeNeverReadonly
<1>1. Init => ROInv
  <2>1. Init => fake = NoSession /\ NoSession \notin Fake
    BY DEF Init, Fake
  <2>. QED
    BY <2>1, InitTypeInv DEF ROInv, FakeNeverReadonly
<1>2. ROInv => FakeNeverReadonly
  BY DEF ROInv
<1>. QED
  BY <1>1, <1>2, NextROInv, PTL DEF Spec


=============================================================================
