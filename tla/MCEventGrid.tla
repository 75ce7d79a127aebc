---------------------------- MODULE MCEventGrid ----------------------------
(***************************************************************************)
(* Small instances of EventGrid for TLC.                                   *)
(***************************************************************************)
EXTENDS EventGrid, TLC

\* Subscriptions share only the backlog.
Symmetric == Permutations(Sub)
=============================================================================
