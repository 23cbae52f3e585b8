------------------------- MODULE MCMutationRequest -------------------------
(* Model values for MutationRequest: one status of every class the code and *)
(* the documented contract tell apart, the contract as documented.          *)
EXTENDS MutationRequest

MCStatuses == {200, 204, 307, 400, 404, 413, 429, 500, 503}

\* The server promises no more than its contract documents.
MCNoEffect == DocumentedRefusals
=============================================================================
