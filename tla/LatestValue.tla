---------------------------- MODULE LatestValue ----------------------------
(***************************************************************************)
(* What a mailbox that keeps only the newest value promises: a value that  *)
(* is offered replaces the one before it, whether or not that one was ever *)
(* shown, and what is shown is always the newest value of the moment.      *)
(***************************************************************************)
CONSTANT Value
VARIABLES offered, shown

Init == offered \in Value /\ shown = offered

Offer == offered' \in Value /\ UNCHANGED shown

Show == shown # offered /\ shown' = offered /\ UNCHANGED offered

Next == Offer \/ Show

Safety == Init /\ [][Next]_<<offered, shown>>

\* No offer waits for ever.
Spec == Safety /\ WF_<<offered, shown>>(Show)
=============================================================================
