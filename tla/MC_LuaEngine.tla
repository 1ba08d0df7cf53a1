---------------------------- MODULE MC_LuaEngine ----------------------------
(***************************************************************************)
(* Instances of LuaEngine for TLC.  Commands are named after the Redis     *)
(* commands whose flags they carry: SET (write), SRANDMEMBER (random),     *)
(* SPOP (write and random), EVAL (noscript), SMEMBERS (sort-for-script).   *)
(***************************************************************************)
EXTENDS LuaEngine, TLC

CONSTANTS b1, b2, b3, set, srandmember, spop, evalcmd, smembers

MCCmds == {set, srandmember, spop, evalcmd, smembers}

MCFlags == (set :> {"write"}) @@ (srandmember :> {"random"})
           @@ (spop :> {"write", "random"}) @@ (evalcmd :> {"noscript"})
           @@ (smembers :> {"sortforscript"})

\* Benign bodies: each chunk defines only its own function.
NoInjects == [b \in Bodies |-> {}]

\* Body b1's text closes its function early and defines f_<sha1(b2)>.
B1InjectsB2 == (b1 :> {b2}) @@ [b \in Bodies |-> {}]

=============================================================================
