-------------------------- MODULE MutationRequest --------------------------
(***************************************************************************)
(* One mutation request of internal/api: Client.Create, Reveal and Burn on *)
(* top of Client.do, together with the goroutine of net/http that writes   *)
(* the request, the server, and the connection between them.               *)
(*                                                                         *)
(* The hazard is the race in Client.do: the request is written by another  *)
(* goroutine, which reports through httptrace.WroteHeaders, while hc.Do    *)
(* may return at any time because the context was cancelled, the client    *)
(* timeout expired or the connection broke. The flag `wrote` is loaded     *)
(* only after hc.Do has returned, and it alone decides between "the server *)
(* could not be reached" and "the outcome is unknown".                     *)
(***************************************************************************)
EXTENDS Naturals

CONSTANTS
  Statuses,   \* final HTTP statuses a server or a gateway may answer with
  NoEffect    \* pairs <<operation, status>> that promise nothing was changed

Ops == {"create", "claim", "revoke"}

Refusals == {"unavailable", "rateLimited", "temporary", "rejected", "network"}

Outcomes == {"none", "ok", "unknown"} \union Refusals

\* As above, but a 404 is trusted whatever the operation was.
ClassifyTrustingAnyNotFound(o, s) ==
  CASE s = 404 -> "unavailable"
    [] s = 429 -> "rateLimited"
    [] s = 503 -> "temporary"
    [] OTHER -> "unknown"

\* classifyStatus: only the documented definitive failures of each operation
\* are trusted; any other status proves nothing about the side effect.
classifyStatus(o, s) ==
  CASE s = 404 /\ o \in {"claim", "revoke"} -> "unavailable"
    [] s = 429 -> "rateLimited"
    [] s = 503 -> "temporary"
    [] s \in {400, 413} /\ o = "create" -> "rejected"
    [] OTHER -> "unknown"

\* The server's side of the HTTP contract: the statuses it documents as having
\* had no effect. Under any other status the mutation may have happened.
DocumentedRefusals ==
  ({"create"} \X {400, 413, 429, 503}) \union ({"claim", "revoke"} \X {404, 429, 503})

\* What the client relies on: such a status, and 200, mean what they say.
Contract ==
  /\ 0 \notin Statuses
  /\ NoEffect \subseteq Ops \X (Statuses \ {200})
  /\ DocumentedRefusals \intersect (Ops \X Statuses) \subseteq NoEffect

ASSUME ContractAssumption == Contract

VARIABLES
  op,        \* the operation of this invocation
  phase,     \* where the caller is in Client.do and after it
  writer,    \* the transport goroutine that writes the request
  wrote,     \* the atomic flag set by the WroteHeaders callback
  open,      \* is the connection usable by both sides?
  sent,      \* has the complete request left the client?
  served,    \* what the server has decided
  reply,     \* the response on its way, if any
  canceled,  \* is the invocation's context cancelled?
  outcome    \* what Create, Reveal or Burn returned

vars == <<op, phase, writer, wrote, open, sent, served, reply, canceled, outcome>>

NoReply == [status |-> 0, body |-> "none"]

Replies == [status : Statuses, body : {"valid", "invalid"}]

TypeOK ==
  /\ op \in Ops
  /\ phase \in {"ready", "dialing", "waiting", "failed", "reading", "returned"}
  /\ writer \in {"idle", "headers", "done"}
  /\ wrote \in BOOLEAN /\ open \in BOOLEAN /\ sent \in BOOLEAN
  /\ served \in {"pending", "executed", "refused"}
  /\ reply \in Replies \union {NoReply}
  /\ canceled \in BOOLEAN
  /\ outcome \in Outcomes

Init ==
  /\ op \in Ops
  /\ phase = "ready" /\ writer = "idle" /\ wrote = FALSE
  /\ open = FALSE /\ sent = FALSE
  /\ served = "pending" /\ reply = NoReply
  /\ canceled = FALSE /\ outcome = "none"
-----------------------------------------------------------------------------
(* The caller. *)

\* hc.Do begins: a context that is already cancelled fails before a dial.
Begin ==
  /\ phase = "ready"
  /\ phase' = IF canceled THEN "failed" ELSE "dialing"
  /\ UNCHANGED <<op, writer, wrote, open, sent, served, reply, canceled, outcome>>

DialSucceeds ==
  /\ phase = "dialing"
  /\ phase' = "waiting" /\ open' = TRUE
  /\ UNCHANGED <<op, writer, wrote, sent, served, reply, canceled, outcome>>

DialFails ==
  /\ phase = "dialing"
  /\ phase' = "failed"
  /\ UNCHANGED <<op, writer, wrote, open, sent, served, reply, canceled, outcome>>

\* As GiveUp, but with no client timeout: only cancellation ends the wait.
GiveUpWithoutTimeout ==
  /\ phase = "waiting" /\ canceled
  /\ phase' = "failed" /\ open' = FALSE
  /\ UNCHANGED <<op, writer, wrote, sent, served, reply, canceled, outcome>>

\* Cancellation, client timeout or a broken connection: the transport gives the
\* connection up before hc.Do returns its error.
GiveUp ==
  /\ phase = "waiting"
  /\ phase' = "failed" /\ open' = FALSE
  /\ UNCHANGED <<op, writer, wrote, sent, served, reply, canceled, outcome>>

\* As ReturnError, but a cancelled request is taken for one that was not sent.
ReturnErrorTrustingCancel ==
  /\ phase = "failed"
  /\ outcome' = IF wrote /\ ~canceled THEN "unknown" ELSE "network"
  /\ phase' = "returned"
  /\ UNCHANGED <<op, writer, wrote, open, sent, served, reply, canceled>>

\* hc.Do returned an error: load the flag and apply mutationError.
ReturnError ==
  /\ phase = "failed"
  /\ outcome' = IF wrote THEN "unknown" ELSE "network"
  /\ phase' = "returned"
  /\ UNCHANGED <<op, writer, wrote, open, sent, served, reply, canceled>>

\* hc.Do returns the response: its status line and headers have arrived.
ReceiveHeaders ==
  /\ phase = "waiting" /\ open /\ reply # NoReply
  /\ phase' = "reading"
  /\ UNCHANGED <<op, writer, wrote, open, sent, served, reply, canceled, outcome>>

\* As ReturnResponse, but the status line alone is taken for success.
ReturnResponseByStatus ==
  /\ phase = "reading"
  /\ outcome' = IF reply.status # 200 THEN classifyStatus(op, reply.status) ELSE "ok"
  /\ phase' = "returned"
  /\ UNCHANGED <<op, writer, wrote, open, sent, served, reply, canceled>>

\* A success status needs a body that decodes; any read or format error after
\* the request was sent leaves the outcome unknown. Other statuses are
\* classified without reading the body.
ReturnResponse ==
  /\ phase = "reading"
  /\ \E readable \in BOOLEAN :
       outcome' = IF reply.status # 200 THEN classifyStatus(op, reply.status)
                  ELSE IF readable /\ reply.body = "valid" THEN "ok"
                  ELSE "unknown"
  /\ phase' = "returned"
  /\ UNCHANGED <<op, writer, wrote, open, sent, served, reply, canceled>>

Caller ==
  \/ Begin \/ DialSucceeds \/ DialFails \/ GiveUp
  \/ ReturnError \/ ReceiveHeaders \/ ReturnResponse
-----------------------------------------------------------------------------
(* The transport goroutine, the server and the network. *)

\* Headers enter the write buffer, which works even on a dead connection; the
\* trace callback stores the flag before anything is flushed.
WriteHeaders ==
  /\ writer = "idle" /\ phase \notin {"ready", "dialing"}
  /\ open \/ phase = "failed"
  /\ writer' = "headers" /\ wrote' = TRUE
  /\ UNCHANGED <<op, phase, open, sent, served, reply, canceled, outcome>>

\* The body and the final flush: they reach the wire only on a live connection.
FlushRequest ==
  /\ writer = "headers"
  /\ writer' = "done" /\ sent' = open
  /\ UNCHANGED <<op, phase, wrote, open, served, reply, canceled, outcome>>

\* The server performs the mutation, even if the client has gone meanwhile.
ServerExecutes ==
  /\ sent /\ served = "pending"
  /\ served' = "executed"
  /\ UNCHANGED <<op, phase, writer, wrote, open, sent, reply, canceled, outcome>>

\* An answer: a refusal settles the request; a valid success follows execution;
\* anything else (a gateway error, a captive page) says nothing about it.
ServerReplies ==
  /\ open /\ reply = NoReply
  /\ reply' \in Replies
  /\ IF <<op, reply'.status>> \in NoEffect
       THEN served = "pending" /\ served' = "refused"
       ELSE /\ reply'.status = 200 /\ reply'.body = "valid" => served = "executed"
            /\ UNCHANGED served
  /\ UNCHANGED <<op, phase, writer, wrote, open, sent, canceled, outcome>>

\* Run cancels the invocation's context after the first signal.
Cancel ==
  /\ ~canceled
  /\ canceled' = TRUE
  /\ UNCHANGED <<op, phase, writer, wrote, open, sent, served, reply, outcome>>

Environment ==
  WriteHeaders \/ FlushRequest \/ ServerExecutes \/ ServerReplies \/ Cancel

Next == Caller \/ Environment

\* hc.Timeout is positive (api.New refuses anything else), so the caller never
\* waits for ever: it gives up, and then runs to its return.
Fairness == WF_vars(Caller)

Spec == Init /\ [][Next]_vars

FairSpec == Spec /\ Fairness
-----------------------------------------------------------------------------
(* Properties *)

\* Client.do and classifyStatus: an outcome that tells the user that nothing
\* happened (exit 4, 6 or 7) is never contradicted by the server, not even by
\* work it finishes after the client has exited.
RefusalIsFinal == outcome \in Refusals => served # "executed"

\* Create, Reveal, Burn: success is returned only for a mutation the server has
\* performed.
SuccessIsReal == outcome = "ok" => served = "executed"

\* The abstract promise, with the outcomes grouped into verdicts.
VerdictOf(o) ==
  CASE o = "none" -> "none"
    [] o = "ok" -> "confirmed"
    [] o = "unknown" -> "unknown"
    [] OTHER -> "refused"

Promise == INSTANCE SingleAttempt
             WITH effect <- (served = "executed"), verdict <- VerdictOf(outcome)

\* Every behaviour of a request is one that SingleAttempt allows.
ImplementsSingleAttempt == Promise!Spec

\* Whatever the server and the network do, the call returns.
AlwaysReturns == <>(phase = "returned")
=============================================================================
