------------------------- MODULE MCHandoffCommands -------------------------
(* Model values for HandoffCommands: create with a generated and a supplied *)
(* passphrase, on a terminal, in a pipe and with --json; burn with a receipt*)
(* that fits its link and one that does not, with a share URL against the   *)
(* selected server, and with a bare identifier.                             *)
EXTENDS HandoffCommands

MCStatuses == {200, 400, 404, 503, 500}

MCNoEffect == ({"create"} \X {400, 503}) \union ({"claim", "revoke"} \X {404, 503})

Create(json, tty, supplied, clamps) ==
  [op |-> "create", json |-> json, tty |-> tty, supplied |-> supplied, clamps |-> clamps,
   target |-> "none", origin |-> "none", selected |-> "a"]

Burn(json, target, origin, selected) ==
  [op |-> "revoke", json |-> json, tty |-> target # "receipt", supplied |-> FALSE, clamps |-> FALSE,
   target |-> target, origin |-> origin, selected |-> selected]

MCSettings ==
  { Create(FALSE, TRUE, FALSE, TRUE), Create(FALSE, FALSE, FALSE, FALSE),
    Create(FALSE, FALSE, TRUE, FALSE), Create(TRUE, FALSE, FALSE, FALSE),
    Burn(TRUE, "receipt", "a", "a"), Burn(FALSE, "receipt", "b", "a"),
    Burn(FALSE, "url", "b", "a"), Burn(FALSE, "id", "none", "a") }
=============================================================================
