---------------------------- MODULE MCSubprocess ----------------------------
(***************************************************************************)
(* Scenes for TLC: a child that Lisp writes to, by a pipe or by a pty; one *)
(* whose output is torn within a character and whose stderr is read apart; *)
(* a pipe process; and a child and a pipe process beside each other.  To   *)
(* keep the last one small, the pipe process ends within a character, if   *)
(* it writes at all.                                                       *)
(***************************************************************************)
EXTENDS Subprocess

CONSTANTS
    Talkers,   \* the processes Lisp writes to, in a scene each
    Readers    \* the sets of processes that are read together

Only(alive, input) ==
    \A p \in Procs : proc[p] = IF p \in alive
                               THEN Fresh(p, input \/ p \in Terminals) ELSE Gone(p)

MCInit ==
    /\ Init
    /\ \/ \E p \in Talkers : Only({p}, TRUE)
       \/ \E alive \in Readers : Only(alive, FALSE)

Alone(p) == \A q \in Procs \ {p} : proc[q].dead

MCPrograms ==
    \E p \in Procs :
        \/ \E form \in {"whole", "part"} :
             /\ p \in Pipes => Alone(p) \/ form = "part"
             /\ Write(p, "out", form)
        \/ Write(p, "err", "whole")
        \/ ReadInput(p) \/ Echo(p) \/ Finish(p)

MCNext == Emacs \/ QuitSend \/ MCPrograms

MCSpec == MCInit /\ [][MCNext]_vars /\ Fairness
=============================================================================
