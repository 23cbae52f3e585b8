--------------------------- MODULE SingleAttempt ---------------------------
(***************************************************************************)
(* What one burnerpad invocation promises about the one server-side effect *)
(* it may cause (create, claim or revoke), whatever the transport does:    *)
(*   - the effect happens at most once;                                    *)
(*   - "confirmed" is reported only after it happened;                     *)
(*   - "refused" is reported only if it did not happen and never will;     *)
(*   - in every other case the report is "unknown".                        *)
(* MutationRequest is shown to implement this specification.               *)
(***************************************************************************)
VARIABLES effect,   \* has the server performed the mutation?
          verdict   \* what the caller has been told

vars == <<effect, verdict>>

Verdicts == {"none", "confirmed", "refused", "unknown"}

TypeOK == effect \in BOOLEAN /\ verdict \in Verdicts

Init == effect = FALSE /\ verdict = "none"

\* The server may act on a request whose sender has already given up on it,
\* but not on one whose sender was told that nothing happened.
Execute ==
  /\ ~effect
  /\ verdict # "refused"
  /\ effect' = TRUE
  /\ UNCHANGED verdict

Report(v) ==
  /\ verdict = "none"
  /\ v = "confirmed" => effect
  /\ v = "refused" => ~effect
  /\ verdict' = v
  /\ UNCHANGED effect

Next == Execute \/ \E v \in Verdicts \ {"none"} : Report(v)

Spec == Init /\ [][Next]_vars
=============================================================================
