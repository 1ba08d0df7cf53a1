------------------------ MODULE LuaEngineBenignProofs ------------------------
(***************************************************************************)
(* What LuaEngine guarantees when the scripts are benign, for every value  *)
(* of the other constants.  The violation run cache_poison shows what a    *)
(* script that defines or assigns another script's f_ global breaks; the   *)
(* theorem here shows that such scripts are the only cause: when no chunk  *)
(* defines another script's function and no script assigns globals, EVAL   *)
(* runs the script it was sent, whatever chunks fail, loop or erase.       *)
(***************************************************************************)
EXTENDS LuaEngineProofs

USE ConstAssumption

\* luaCreateFunction's chunk of every body defines only that body's function.
NoInjection == \A b \in Bodies : Injects[b] = {}

\* No script assigns an existing global (scriptingEnableGlobalsProtection's gap unused).
NoTampering == Hostile = {}

-----------------------------------------------------------------------------
(***************************************************************************)
(* EvalRunsItsOwnScript is not inductive alone: EVAL runs fns'[sha1(body)] *)
(* and that is the body itself only while the registry is coherent (every  *)
(* f_ global nil or its own script), which holds together with the type    *)
(* invariant.                                                              *)
(***************************************************************************)
RegistryInv == TypeInv /\ CacheCoherent /\ EvalRunsItsOwnScript

Coherent(f) == \A x \in Bodies : f[x] \in {NoFn, x}

LEMMA DefineChunkCoherent ==
    ASSUME NoInjection, NEW f \in [Bodies -> Bodies \cup {NoFn}],
           NEW b \in Bodies, Coherent(f)
    PROVE  Coherent(DefineChunk(f, b))
BY DEF DefineChunk, NoInjection, Coherent

LEMMA DefinedIsOwn ==
    ASSUME NEW f, NEW name, Defined(f, name), Coherent(f)
    PROVE  f[name] = name
BY DEF Defined, Coherent

LEMMA InitRegistry == Init => RegistryInv
<1> SUFFICES ASSUME Init PROVE RegistryInv
  OBVIOUS
<1>1. TypeInv
  BY InitTypeInv
<1>. QED
  BY <1>1 DEF Init, RegistryInv, CacheCoherent, EvalRunsItsOwnScript

LEMMA EvalRegistry ==
    ASSUME NoInjection, RegistryInv, NEW c \in Callers, NEW r \in Request,
           NEW n \in NumkeysIn, NEW args \in ArgSeqs, Eval(c, r, n, args)
    PROVE  CacheCoherent' /\ EvalRunsItsOwnScript'
<1>. USE DEF RegistryInv, TypeInv, TypeOK
<1>0. EvalPrologue(c, r)
  BY DEF Eval
<1>1. req' = r /\ phase = "idle"
  BY <1>0 DEF EvalPrologue
<1>c. Coherent(fns)
  BY DEF CacheCoherent, Coherent
<1>2. CASE EvalBadNumkeys(c, n, args)
  BY <1>1, <1>2 DEF EvalBadNumkeys, CacheCoherent, EvalRunsItsOwnScript
<1>3. CASE /\ n \in 0..Len(args)
           /\ \E name \in LookupNames(r) :
                 /\ funcbuf' = name
                 /\ \/ EvalNoScript(c, r, name)
                    \/ EvalCompileError(c, r, name)
                    \/ EvalChunkError(c, r, name)
                    \/ EvalChunkLoops(c, r, name)
                    \/ EvalAssertAbort(c, r, name)
                    \/ EvalRun(c, r, n, args, name)
  <2>1. PICK name \in LookupNames(r) :
               \/ EvalNoScript(c, r, name)
               \/ EvalCompileError(c, r, name)
               \/ EvalChunkError(c, r, name)
               \/ EvalChunkLoops(c, r, name)
               \/ EvalAssertAbort(c, r, name)
               \/ EvalRun(c, r, n, args, name)
    BY <1>3
  <2>2. CASE EvalNoScript(c, r, name) \/ EvalCompileError(c, r, name)
    BY <1>1, <2>2 DEF EvalNoScript, EvalCompileError, CacheCoherent,
                      EvalRunsItsOwnScript
  <2>5. CASE EvalChunkError(c, r, name)
    <3>1. Coherent(fns')
      BY <1>c, <2>5, DefineChunkCoherent DEF EvalChunkError, Request
    <3>. QED
      BY <1>1, <2>5, <3>1 DEF EvalChunkError, CacheCoherent, Coherent,
                        EvalRunsItsOwnScript
  <2>6. CASE EvalChunkLoops(c, r, name)
    <3>1. Coherent(fns')
      BY <1>c, <2>6 DEF EvalChunkLoops, Request, Coherent
    <3>. QED
      BY <2>6, <3>1 DEF EvalChunkLoops, CacheCoherent, Coherent,
                        EvalRunsItsOwnScript
  <2>3. CASE EvalAssertAbort(c, r, name)
    <3>1. Coherent(fns')
      BY <1>c, <2>3, DefineChunkCoherent DEF EvalAssertAbort, Request
    <3>. QED
      BY <2>3, <3>1 DEF EvalAssertAbort, CacheCoherent, Coherent,
                        EvalRunsItsOwnScript
  <2>4. CASE EvalRun(c, r, n, args, name)
    <3>1. Coherent(fns')
      <4>1. CASE Found(name)
        BY <1>c, <2>4, <4>1 DEF EvalRun
      <4>2. CASE ~Found(name)
        BY <1>c, <2>4, <4>2, DefineChunkCoherent DEF EvalRun, Request
      <4>. QED
        BY <4>1, <4>2
    <3>2. fns'[name] = name
      BY <2>4, <3>1, DefinedIsOwn DEF EvalRun
    <3>3. ~r.sha => name = r.body
      BY <2>1 DEF LookupNames
    <3>4. CASE phase' = "running" /\ cur' = fns'[name]
      BY <1>1, <3>1, <3>2, <3>3, <3>4 DEF CacheCoherent, Coherent,
                                          EvalRunsItsOwnScript
    <3>5. CASE UNCHANGED phase
      BY <1>1, <3>1, <3>5 DEF CacheCoherent, Coherent, EvalRunsItsOwnScript
    <3>. QED
      BY <2>4, <3>4, <3>5 DEF EvalRun
  <2>. QED
    BY <2>1, <2>2, <2>3, <2>4, <2>5, <2>6
<1>. QED
  BY <1>2, <1>3 DEF Eval

LEMMA NextRegistry ==
    ASSUME NoInjection, NoTampering
    PROVE  RegistryInv /\ [Next]_vars => RegistryInv'
<1> SUFFICES ASSUME RegistryInv, [Next]_vars PROVE RegistryInv'
  OBVIOUS
<1>1. TypeInv'
  BY NextTypeInv DEF RegistryInv
<1>2. CASE \E c \in Callers, r \in Request, n \in NumkeysIn, args \in ArgSeqs :
              Eval(c, r, n, args)
  BY <1>1, <1>2, EvalRegistry DEF RegistryInv
<1>3. CASE \E raise \in BOOLEAN, argk \in ArgKinds, cmd \in Cmds \cup {UnknownCmd},
              res \in CmdResults : Call(raise, argk, cmd, res)
  <2>1. UNCHANGED <<fns, req>> /\ (phase' = "idle" \/ UNCHANGED <<phase, cur>>)
    BY <1>3 DEF Call, EndRun
  <2>. QED
    BY <1>1, <2>1 DEF RegistryInv, CacheCoherent, EvalRunsItsOwnScript
<1>4. CASE \E x \in Bodies, v \in Bodies \cup {NoFn} : Tamper(x, v)
  BY <1>4 DEF Tamper, NoTampering
<1>5. CASE Return \/ Raise \/ HookAbort
  <2>1. UNCHANGED <<fns, req>> /\ phase' = "idle"
    BY <1>5 DEF Return, Raise, HookAbort, EndRun, RunEndUnchanged
  <2>. QED
    BY <1>1, <2>1 DEF RegistryInv, CacheCoherent, EvalRunsItsOwnScript
<1>6. CASE GatewayCrash \/ HookCrash
  <2>1. UNCHANGED <<fns, req>> /\ phase' = "down"
    BY <1>6 DEF GatewayCrash, HookCrash, Abort
  <2>. QED
    BY <1>1, <2>1 DEF RegistryInv, CacheCoherent, EvalRunsItsOwnScript
<1>7. CASE \/ HookTimeout \/ ScriptKill \/ ServerStop \/ CorruptLuaState
           \/ CallRefused \/ ChunkLoop \/ UNCHANGED vars
  <2>1. UNCHANGED <<fns, req, phase, cur>>
    BY <1>7 DEF HookTimeout, ScriptKill, ServerStop, CorruptLuaState,
                CallRefused, ChunkLoop, vars
  <2>. QED
    BY <1>1, <2>1 DEF RegistryInv, CacheCoherent, EvalRunsItsOwnScript
<1>. QED
  BY <1>2, <1>3, <1>4, <1>5, <1>6, <1>7 DEF Next

(***************************************************************************)
(* evalGenericCommand for EVAL: with benign scripts, the function that     *)
(* lua_pcall runs is the one compiled from the body the client sent, for   *)
(* any earlier sequence of EVAL and EVALSHA calls and any stack residue.   *)
(***************************************************************************)
THEOREM BenignEvalRunsItsOwnScript ==
    ASSUME NoInjection, NoTampering
    PROVE  Spec => []EvalRunsItsOwnScript
<1>1. RegistryInv => EvalRunsItsOwnScript
  BY DEF RegistryInv
<1>. QED
  BY <1>1, InitRegistry, NextRegistry, PTL DEF Spec

=============================================================================
