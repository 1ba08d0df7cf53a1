------------------------- MODULE LuaEngineRefinement -------------------------
(***************************************************************************)
(* Proof that LuaEngine implements AtomicScript under the mapping Acting / *)
(* AS of LuaEngine: every step of evalGenericCommand, of the gateway, of   *)
(* the hook and of a hostile script is a step of the abstract engine or    *)
(* leaves its state alone.  The argument rests on the inductive invariant  *)
(* IInv of LuaEngineProofs: the fake session carries the caller's database *)
(* (so Acting is the caller) and lua_random_dirty records whether a random *)
(* command ran (so the gate is the abstract Permitted).                    *)
(***************************************************************************)
EXTENDS LuaEngineProofs

USE ConstAssumption

\* The mapped caller is the caller itself while the fake session agrees.
LEMMA ActingIsCaller ==
    ASSUME NEW s \in Callers, NEW f \in Fake, f.db = s.db
    PROVE  [s EXCEPT !.db = f.db] = s
BY DEF Callers, Fake

LEMMA InitRefines == Init => AS!AInit
BY DEF Init, AS!AInit, Acting

(***************************************************************************)
(* evalGenericCommand: a request that reaches lua_pcall starts a run for   *)
(* its caller; every early return (bad numkeys, NOSCRIPT, compile error,   *)
(* a chunk that raises, lock failure, the serverAssert abort) refuses it,  *)
(* and so does a chunk that never returns.                                 *)
(***************************************************************************)
LEMMA EvalRefines ==
    ASSUME IInv, IInv', NEW c \in Callers, NEW r \in Request,
           NEW n \in NumkeysIn, NEW args \in ArgSeqs, Eval(c, r, n, args)
    PROVE  AS!Start(c) \/ AS!Refuse
<1>0. EvalPrologue(c, r)
  BY DEF Eval
<1>1. phase = "idle" /\ ran' = <<>>
  BY <1>0 DEF EvalPrologue
<1>2. phase' = "running" => sess' = c
  BY <1>1 DEF Eval, EvalBadNumkeys, EvalNoScript, EvalCompileError,
         EvalChunkError, EvalChunkLoops, EvalAssertAbort, EvalRun
<1>3. CASE phase' = "running"
  <2>1. sess' = c /\ fake' \in Fake /\ fake'.db = c.db
    BY <1>2, <1>3 DEF IInv, TypeInv
  <2>2. Acting' = c
    BY <1>3, <2>1, ActingIsCaller DEF Acting
  <2>. QED
    BY <1>1, <1>3, <2>2 DEF AS!Start
<1>4. CASE phase' # "running"
  BY <1>1, <1>4 DEF AS!Refuse, Acting
<1>. QED
  BY <1>3, <1>4

(***************************************************************************)
(* luaRedisGenericCommand: a command that passes the gates is an abstract  *)
(* Execute, the last one of the run when redis.call raises on its failure; *)
(* a rejected command ends the run when it raises and is invisible when    *)
(* redis.pcall returns the error to the script.                            *)
(***************************************************************************)
LEMMA CallRefines ==
    ASSUME IInv, IInv', NEW raise \in BOOLEAN, NEW argk \in ArgKinds,
           NEW cmd \in Cmds \cup {UnknownCmd}, NEW res \in CmdResults,
           Call(raise, argk, cmd, res)
    PROVE  [AS!ANext]_AS!avars
<1> DEFINE ex == Executes(argk, cmd)
<1>1. /\ phase = "running" /\ sess \in Callers /\ fake \in Fake
      /\ fake.db = sess.db
  BY DEF Call, IInv, TypeInv
<1>2. Acting = sess
  BY <1>1, ActingIsCaller DEF Acting
<1>3. ex => /\ cmd \in Cmds /\ ran' = Append(ran, cmd)
            /\ AS!Permitted(cmd)
  BY DEF Call, Executes, IInv, RandomDirtyTracksRan, AS!Permitted, AS!RandomRan
<1>4. ~ex => ran' = ran
  BY DEF Call
<1>5. \/ EndRun("killed") \/ EndRun("runtime")
      \/ UNCHANGED <<phase, hooked, timedout, locked, sess, cur, killReq, reply>>
  BY DEF Call
\* A raised error, or one escaping the sort, ends the run.
<1>6. CASE EndRun("killed") \/ EndRun("runtime")
  <2>1. phase' = "idle" /\ Acting' = NoSession
    BY <1>6 DEF EndRun, Acting
  <2>2. CASE ex
    BY <1>1, <1>3, <2>1, <2>2 DEF AS!Execute, AS!ANext
  <2>3. CASE ~ex
    BY <1>1, <1>4, <2>1, <2>3 DEF AS!Finish, AS!ANext
  <2>. QED
    BY <2>2, <2>3
<1>7. CASE UNCHANGED <<phase, hooked, timedout, locked, sess, cur, killReq, reply>>
  <2>1. fake' \in Fake /\ fake'.db = sess.db
    BY <1>1, <1>7 DEF IInv, TypeInv
  <2>2. Acting' = Acting
    BY <1>1, <1>2, <1>7, <2>1, ActingIsCaller DEF Acting
  <2>3. CASE ex
    BY <1>1, <1>3, <1>7, <2>2, <2>3 DEF AS!Execute, AS!ANext
  <2>4. CASE ~ex
    <3>1. phase' = phase /\ ran' = ran
      BY <1>4, <1>7, <2>4
    <3>. QED
      BY <2>2, <3>1 DEF AS!avars
  <2>. QED
    BY <2>3, <2>4
<1>. QED
  BY <1>5, <1>6, <1>7

\* A refused recursive call runs nothing and keeps the fake session's database.
LEMMA CallRefusedRefines ==
    ASSUME IInv, IInv', CallRefused
    PROVE  UNCHANGED AS!avars
<1>1. /\ phase = "running" /\ sess \in Callers /\ fake \in Fake
      /\ fake.db = sess.db
  BY DEF CallRefused, IInv, TypeInv
<1>2. fake' \in Fake /\ fake'.db = sess.db
  BY DEF CallRefused, IInv, TypeInv
<1>. QED
  BY <1>1, <1>2, ActingIsCaller DEF CallRefused, AS!avars, Acting

\* The script returns or raises, the hook aborts it, or the process crashes.
LEMMA EndRefines ==
    ASSUME Return \/ Raise \/ HookAbort \/ GatewayCrash \/ HookCrash
    PROVE  AS!Finish
BY DEF Return, Raise, HookAbort, GatewayCrash, HookCrash, Abort, EndRun,
       RunEndUnchanged, AS!Finish, Acting

\* Steps of a hostile script, the hook and other clients that the caller cannot see.
LEMMA HiddenRefines ==
    ASSUME \/ \E x \in Bodies, v \in Bodies \cup {NoFn} : Tamper(x, v)
           \/ CorruptLuaState \/ HookTimeout \/ ScriptKill \/ ServerStop
           \/ ChunkLoop \/ UNCHANGED vars
    PROVE  UNCHANGED AS!avars
BY DEF Tamper, CorruptLuaState, HookTimeout, ScriptKill, ServerStop, ChunkLoop,
       vars, AS!avars, Acting

LEMMA NextRefines == IInv /\ IInv' /\ [Next]_vars => [AS!ANext]_AS!avars
<1> SUFFICES ASSUME IInv, IInv', [Next]_vars PROVE [AS!ANext]_AS!avars
  OBVIOUS
<1>1. CASE \E c \in Callers, r \in Request, n \in NumkeysIn, args \in ArgSeqs :
              Eval(c, r, n, args)
  BY <1>1, EvalRefines DEF AS!ANext
<1>2. CASE \E raise \in BOOLEAN, argk \in ArgKinds, cmd \in Cmds \cup {UnknownCmd},
              res \in CmdResults : Call(raise, argk, cmd, res)
  BY <1>2, CallRefines
<1>3. CASE Return \/ Raise \/ HookAbort \/ GatewayCrash \/ HookCrash
  BY <1>3, EndRefines DEF AS!ANext
<1>4. CASE \/ \E x \in Bodies, v \in Bodies \cup {NoFn} : Tamper(x, v)
           \/ CorruptLuaState \/ HookTimeout \/ ScriptKill \/ ServerStop
           \/ ChunkLoop \/ UNCHANGED vars
  BY <1>4, HiddenRefines
<1>5. CASE CallRefused
  BY <1>5, CallRefusedRefines
<1>. QED
  BY <1>1, <1>2, <1>3, <1>4, <1>5 DEF Next

(***************************************************************************)
(* The engine implements its abstract specification: one script run at a  *)
(* time, acting as its caller, whose executed commands never put a write   *)
(* after a random command, whatever the scripts, callers and failures.     *)
(***************************************************************************)
THEOREM EngineRefinesAtomicScript == Spec => ImplementsAtomicScript
<1>1. Spec => []IInv
  BY InitIInv, NextIInv, PTL DEF Spec
<1>. QED
  BY <1>1, InitRefines, NextRefines, PTL DEF Spec, ImplementsAtomicScript, AS!ASpec

=============================================================================
