----------------------------- MODULE AtomicScript -----------------------------
(***************************************************************************)
(* What the scripting engine promises its callers (spec 4.4, 4.5 and 5),   *)
(* with the interpreter and the command executor abstracted away: one      *)
(* script run at a time; a request either starts a run on behalf of its   *)
(* caller or is refused; during a run the script's commands execute one    *)
(* after another, acting as the caller (its database), and a write is      *)
(* never executed after a non-deterministic command of the same run        *)
(* (whole-script replication); a run ends, after its last command or       *)
(* without one.                                                            *)
(***************************************************************************)
EXTENDS Integers, Sequences

CONSTANTS
    Cmds,       \* the commands
    Flags,      \* Flags[c]: the flags of command c
    Callers,    \* the identities a run can act as
    NoSession   \* no caller

VARIABLES
    running,    \* a run is in progress
    caller,     \* the identity the run acts as, NoSession between runs
    log         \* the commands executed by the current (or last) run

avars == <<running, caller, log>>

\* A non-deterministic command has executed in this run.
RandomRan == \E i \in 1..Len(log) : "random" \in Flags[log[i]]

\* Commands the run may still execute: no write after a random command.
Permitted(cmd) == ~("write" \in Flags[cmd] /\ RandomRan)

AInit ==
    /\ running = FALSE
    /\ caller = NoSession
    /\ log = <<>>

\* A request starts a run that acts as caller c.
Start(c) ==
    /\ ~running
    /\ running' = TRUE
    /\ caller' = c
    /\ log' = <<>>

\* A request is refused before its script runs.
Refuse ==
    /\ ~running
    /\ log' = <<>>
    /\ UNCHANGED <<running, caller>>

\* The run executes a command, and goes on or ends right after it.
Execute(cmd, last) ==
    /\ running
    /\ Permitted(cmd)
    /\ log' = Append(log, cmd)
    /\ IF last THEN running' = FALSE /\ caller' = NoSession
               ELSE UNCHANGED <<running, caller>>

\* The run ends without executing another command.
Finish ==
    /\ running
    /\ running' = FALSE
    /\ caller' = NoSession
    /\ UNCHANGED log

ANext ==
    \/ \E c \in Callers : Start(c)
    \/ Refuse
    \/ \E cmd \in Cmds, last \in BOOLEAN : Execute(cmd, last)
    \/ Finish

ASpec == AInit /\ [][ANext]_avars

=============================================================================
