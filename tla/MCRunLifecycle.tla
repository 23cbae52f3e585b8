--------------------------- MODULE MCRunLifecycle ---------------------------
(***************************************************************************)
(* Run and the terminal modes. Run sees one command result of each class   *)
(* run.go tells apart, and enough signals for one to be queued, one to be  *)
(* dropped and one to arrive after the subscription is gone; the terminal  *)
(* is used twice. The two share no state, so that one run explores each    *)
(* with the other at rest.                                                 *)
(***************************************************************************)
EXTENDS RunLifecycle, TTYModes

MCResults ==
  { Nil,
    [exit |-> 9, cause |-> "none"],           \* unknown outcome
    [exit |-> 3, cause |-> "none"],           \* local failure
    [exit |-> 3, cause |-> "canceled"],       \* a read that was cancelled
    [exit |-> 7, cause |-> "canceled"],       \* a request that was not sent
    [exit |-> 130, cause |-> "interrupted"] } \* Ctrl-C at a prompt

MCInit == Init /\ TTYInit

MCNext ==
  \/ command = "idle" /\ use = NoUse /\ emergency = "none" /\ Next /\ UNCHANGED ttyVars
  \/ main = "start" /\ signals = 0 /\ TTYNext /\ UNCHANGED runVars

MCSpec == MCInit /\ [][MCNext]_<<runVars, ttyVars>>
=============================================================================
