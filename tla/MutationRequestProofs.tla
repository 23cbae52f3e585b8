----------------------- MODULE MutationRequestProofs -----------------------
(***************************************************************************)
(* Proofs about MutationRequest, for every set of statuses and every       *)
(* server that keeps the documented contract.                              *)
(*                                                                         *)
(* RefusalIsFinal is not inductive. What makes it so is the order of the   *)
(* events the code relies on: the flag is set before anything complete can *)
(* be flushed (FlagCoversTheWire), the connection is given up before the   *)
(* flag is loaded (GivenUp), and a verdict taken from the flag keeps the   *)
(* request off the wire for good (NetworkMeansUnsent).                     *)
(***************************************************************************)
EXTENDS MutationRequest, TLAPS

FlagCoversTheWire ==
  /\ wrote <=> writer # "idle"
  /\ sent => writer = "done"
  /\ phase \in {"ready", "dialing"} => writer = "idle" /\ ~open

GivenUp == phase = "failed" => ~open

NetworkMeansUnsent == outcome = "network" => ~open /\ ~sent

ServerKeepsContract ==
  /\ served = "executed" => sent
  /\ reply # NoReply /\ <<op, reply.status>> \in NoEffect => served = "refused"
  /\ reply # NoReply /\ reply.status = 200 /\ reply.body = "valid" => served = "executed"

OutcomeJustified ==
  /\ phase = "reading" => reply # NoReply
  /\ phase # "returned" => outcome = "none"
  /\ outcome \in Refusals \ {"network"} => served = "refused"
  /\ outcome = "ok" => served = "executed"

IInv ==
  /\ TypeOK
  /\ FlagCoversTheWire
  /\ GivenUp
  /\ NetworkMeansUnsent
  /\ ServerKeepsContract
  /\ OutcomeJustified

-----------------------------------------------------------------------------
\* A classified refusal is a documented one: classifyStatus never trusts a
\* status the contract does not list for the operation.
LEMMA ClassifyTrustsOnlyDocumented ==
  ASSUME NEW o \in Ops, NEW s \in Statuses,
         classifyStatus(o, s) \in Refusals
  PROVE  <<o, s>> \in NoEffect /\ classifyStatus(o, s) # "network"
<1>1. <<o, s>> \in DocumentedRefusals /\ classifyStatus(o, s) # "network"
  BY DEF Ops, classifyStatus, Refusals, DocumentedRefusals
<1> QED
  BY <1>1, ContractAssumption DEF Contract

LEMMA ClassifyType ==
  ASSUME NEW o \in Ops, NEW s \in Statuses
  PROVE  classifyStatus(o, s) \in Refusals \union {"unknown"}
BY DEF classifyStatus, Refusals

LEMMA InitIInv == Init => IInv
BY ContractAssumption
   DEF Contract, Init, IInv, TypeOK, FlagCoversTheWire, GivenUp, NetworkMeansUnsent,
       ServerKeepsContract, OutcomeJustified, Refusals, Outcomes, NoReply

LEMMA CallerKeepsIInv == IInv /\ Caller => IInv'
<1> SUFFICES ASSUME IInv, Caller PROVE IInv'
  OBVIOUS
<1> USE DEF IInv, TypeOK, FlagCoversTheWire, GivenUp, NetworkMeansUnsent,
            ServerKeepsContract, OutcomeJustified, Refusals, Outcomes
<1>1. CASE Begin
  BY <1>1 DEF Begin
<1>2. CASE DialSucceeds
  BY <1>2 DEF DialSucceeds
<1>3. CASE DialFails
  BY <1>3 DEF DialFails
<1>4. CASE GiveUp
  BY <1>4 DEF GiveUp
<1>5. CASE ReturnError
  BY <1>5 DEF ReturnError
<1>6. CASE ReceiveHeaders
  BY <1>6 DEF ReceiveHeaders
<1>7. CASE ReturnResponse
  <2>1. reply \in Replies /\ reply.status \in Statuses
    BY <1>7 DEF ReturnResponse, Replies
  <2>2. CASE reply.status = 200
    BY <1>7, <2>1, <2>2 DEF ReturnResponse
  <2>3. CASE reply.status # 200
    <3>1. outcome' = classifyStatus(op, reply.status)
      BY <1>7, <2>3 DEF ReturnResponse
    <3>2. /\ outcome' \in Refusals \union {"unknown"}
          /\ outcome' \in Refusals => <<op, reply.status>> \in NoEffect /\ outcome' # "network"
      BY <2>1, <3>1, ClassifyTrustsOnlyDocumented, ClassifyType
    <3> QED
      BY <1>7, <2>1, <3>2 DEF ReturnResponse
  <2> QED
    BY <2>2, <2>3
<1> QED
  BY <1>1, <1>2, <1>3, <1>4, <1>5, <1>6, <1>7 DEF Caller

LEMMA EnvironmentKeepsIInv == IInv /\ Environment => IInv'
<1> SUFFICES ASSUME IInv, Environment PROVE IInv'
  OBVIOUS
<1> USE DEF IInv, TypeOK, FlagCoversTheWire, GivenUp, NetworkMeansUnsent,
            ServerKeepsContract, OutcomeJustified, Refusals, Outcomes
<1>1. CASE WriteHeaders
  BY <1>1 DEF WriteHeaders
<1>2. CASE FlushRequest
  BY <1>2 DEF FlushRequest
<1>3. CASE ServerExecutes
  BY <1>3 DEF ServerExecutes
<1>4. CASE ServerReplies
  <2>1. reply' \in Replies /\ reply' # NoReply
    BY <1>4, ContractAssumption DEF Contract, ServerReplies, Replies, NoReply
  <2>2. <<op, 200>> \notin NoEffect
    BY ContractAssumption DEF Contract
  <2>3. CASE <<op, reply'.status>> \in NoEffect
    BY <1>4, <2>1, <2>2, <2>3 DEF ServerReplies
  <2>4. CASE <<op, reply'.status>> \notin NoEffect
    BY <1>4, <2>1, <2>4 DEF ServerReplies
  <2> QED
    BY <2>3, <2>4
<1>5. CASE Cancel
  BY <1>5 DEF Cancel
<1> QED
  BY <1>1, <1>2, <1>3, <1>4, <1>5 DEF Environment

LEMMA NextKeepsIInv == IInv /\ [Next]_vars => IInv'
<1>1. IInv /\ UNCHANGED vars => IInv'
  BY DEF vars, IInv, TypeOK, FlagCoversTheWire, GivenUp, NetworkMeansUnsent,
         ServerKeepsContract, OutcomeJustified
<1> QED
  BY <1>1, CallerKeepsIInv, EnvironmentKeepsIInv DEF Next

\* The strengthened invariant holds in every reachable state.
THEOREM Invariance == Spec => []IInv
BY InitIInv, NextKeepsIInv, PTL DEF Spec

\* Every variable keeps its type.
THEOREM TypeCorrect == Spec => []TypeOK
<1>1. IInv => TypeOK
  BY DEF IInv
<1> QED
  BY <1>1, Invariance, PTL

\* A caller that was told the server could not be reached, is unavailable or
\* refused (exit 4, 6 or 7) is never contradicted, not even later.
THEOREM RefusalIsFinalAlways == Spec => []RefusalIsFinal
<1>1. IInv => RefusalIsFinal
  BY DEF IInv, RefusalIsFinal, NetworkMeansUnsent, ServerKeepsContract,
         OutcomeJustified, Refusals
<1> QED
  BY <1>1, Invariance, PTL

\* A caller that was told of success has the server's mutation behind it.
THEOREM SuccessIsRealAlways == Spec => []SuccessIsReal
<1>1. IInv => SuccessIsReal
  BY DEF IInv, SuccessIsReal, OutcomeJustified
<1> QED
  BY <1>1, Invariance, PTL

-----------------------------------------------------------------------------
(* MutationRequest implements SingleAttempt. *)

LEMMA InitRefines == Init => Promise!Init
BY DEF Init, Promise!Init, VerdictOf

\* The return of the call is the abstract report; it is allowed because the
\* invariant justifies the outcome.
LEMMA CallerRefines ==
  ASSUME IInv, IInv', Caller
  PROVE  [Promise!Next]_(Promise!vars)
<1> USE DEF Promise!vars, VerdictOf
<1>1. CASE UNCHANGED <<served, outcome>>
  BY <1>1
<1>2. CASE ReturnError \/ ReturnResponse
  <2>1. /\ outcome = "none" /\ outcome' \in Outcomes \ {"none"}
        /\ UNCHANGED served
    <3>1. outcome = "none" /\ UNCHANGED served
      BY <1>2 DEF ReturnError, ReturnResponse, IInv, OutcomeJustified
    <3>2. outcome' # "none"
      <4>1. CASE ReturnError
        BY <4>1 DEF ReturnError
      <4>2. CASE ReturnResponse
        BY <4>2 DEF ReturnResponse, classifyStatus
      <4> QED
        BY <1>2, <4>1, <4>2
    <3> QED
      BY <3>1, <3>2 DEF IInv, TypeOK
  <2>2. /\ outcome' \in Refusals => served # "executed"
        /\ outcome' = "ok" => served = "executed"
    BY <2>1 DEF IInv, NetworkMeansUnsent, ServerKeepsContract, OutcomeJustified,
                Refusals
  <2>3. VerdictOf(outcome') \in {"confirmed", "refused", "unknown"}
    BY <2>1
  <2>4. Promise!Report(VerdictOf(outcome'))
    BY <2>1, <2>2 DEF Promise!Report, Outcomes, Refusals
  <2> QED
    BY <2>3, <2>4 DEF Promise!Next, Promise!Verdicts
<1>3. CASE ~(ReturnError \/ ReturnResponse)
  BY <1>1, <1>3 DEF Caller, Begin, DialSucceeds, DialFails, GiveUp, ReceiveHeaders
<1> QED
  BY <1>2, <1>3

\* The server's execution is the abstract effect; it is allowed because no
\* refusal was reported. Every other step of the environment stutters.
LEMMA EnvironmentRefines ==
  ASSUME IInv, IInv', Environment
  PROVE  [Promise!Next]_(Promise!vars)
<1> USE DEF Promise!vars, VerdictOf
<1>1. CASE ServerExecutes
  <2>1. served = "pending" /\ served' = "executed" /\ UNCHANGED outcome
    BY <1>1 DEF ServerExecutes
  <2>2. outcome \notin Refusals
    BY <1>1, <2>1 DEF IInv, NetworkMeansUnsent, OutcomeJustified, ServerExecutes, Refusals
  <2> QED
    BY <2>1, <2>2 DEF Promise!Next, Promise!Execute, IInv, TypeOK, Outcomes
<1>2. CASE ServerReplies
  BY <1>2 DEF ServerReplies
<1>3. CASE WriteHeaders \/ FlushRequest \/ Cancel
  BY <1>3 DEF WriteHeaders, FlushRequest, Cancel
<1> QED
  BY <1>1, <1>2, <1>3 DEF Environment

\* Every behaviour of a request, under any server that keeps the contract, is a
\* behaviour of SingleAttempt: at most one effect, and a truthful report of it.
THEOREM Refinement == Spec => ImplementsSingleAttempt
<1>1. IInv /\ IInv' /\ [Next]_vars => [Promise!Next]_(Promise!vars)
  <2>1. UNCHANGED vars => UNCHANGED Promise!vars
    BY DEF vars, Promise!vars, VerdictOf
  <2> QED
    BY <2>1, CallerRefines, EnvironmentRefines DEF Next
<1> QED
  BY <1>1, InitRefines, Invariance, PTL DEF Spec, Promise!Spec, ImplementsSingleAttempt
=============================================================================
