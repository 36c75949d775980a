----------------------------- MODULE RpcErrors -----------------------------
(***************************************************************************)
(* What a client is told about a request that fails: eth_call,             *)
(* eth_estimateGas and eth_sendRawTransaction, from the arguments of the   *)
(* request through the gateway and the endorser back to a JSON-RPC code.   *)
(*                                                                         *)
(* An argument is abstracted to what its decoding tells apart, an outcome  *)
(* of the endorser to its status and whether it carries data.              *)
(***************************************************************************)
EXTENDS Integers

VARIABLES
  method,        \* "call", "estimate" or "send"
  args,          \* the call arguments, or the raw transaction
  cause,         \* what happens behind the JSON-RPC layer
  stage,         \* "args", "block", "backend", "classify" or "done"
  err,           \* the Go error that travels up
  reply          \* the JSON-RPC answer

vars == <<method, args, cause, stage, err, reply>>

CodeInvalidParams == -32602
CodeInternal == -32603
CodeTxRejected == -32003
CodeExecutionReverted == -32000
CodeDefault == -32000        \* go-ethereum's code for an error that has none
Ok == 0

\* A JSON value in a call argument.
Value == {"absent", "null", "number", "badHex", "hex"}
Fields == {"from", "gas", "value", "input", "data", "maxFeePerGas"}
CallArgs == [Fields -> Value]

\* The statuses of a CallError, and a failure that is none: a transport fault.
Outcomes ==
  {[kind |-> "ok", data |-> FALSE], [kind |-> "transport", data |-> FALSE],
   [kind |-> "notFound", data |-> FALSE]}
  \cup [kind : {"reverted"}, data : BOOLEAN]
  \cup [kind : {"execFailure", "txRejected", "serverError"}, data : {FALSE}]

\* ValidateTx: the replay protection, geth's stateless checks, the sender.
ValidateErrors == {"errUnprotectedTx", "ErrTxTypeNotSupported", "ErrIntrinsicGas", "ErrInvalidSender"}

\* The pending check, the nonce gate and the queue.
DomainErrors == {"ErrTransactionAlreadyPending", "ErrNonceLookup", "ErrQueueFull", "ErrQueueClosed"}

SendCauses == {"ok", "malformed", "ErrNonceTooLow"} \cup ValidateErrors \cup DomainErrors

None == [type |-> "nil", data |-> FALSE]
Pending == [code |-> Ok, data |-> FALSE]

Init ==
  /\ \/ method \in {"call", "estimate"} /\ args \in CallArgs /\ cause \in Outcomes
     \/ /\ method = "send" /\ args = [f \in Fields |-> "absent"]
        /\ cause \in [kind : SendCauses, data : {FALSE}]
  /\ stage = "args" /\ err = None /\ reply = Pending

-----------------------------------------------------------------------------
(* Typed JSON-RPC errors *)

Error(code) == [code |-> code, data |-> FALSE]
DataError(code) == [code |-> code, data |-> TRUE]

InvalidParams == Error(CodeInvalidParams)
Internal == Error(CodeInternal)
TxRejected == Error(CodeTxRejected)
ExecutionReverted == DataError(CodeExecutionReverted)
ExecutionError == Error(CodeExecutionReverted)

Reply(r) ==
  /\ reply' = r /\ stage' = "done"
  /\ UNCHANGED <<method, args, cause, err>>

Proceed(s) ==
  /\ stage' = s /\ UNCHANGED <<method, args, cause, err, reply>>

-----------------------------------------------------------------------------
(* Arguments *)

\* Mutant: the type assertion and the decoding are lenient.
Lenient(v) == v = "number"

\* hexArg and the decoders: a value that is not a hex string is refused.
Refused(v) == v \in {"number", "badHex"}

\* "input" is canonical, "data" its alias: read only when there is no "input".
InputKey(a) == IF a["input"] = "absent" /\ a["data"] # "absent" THEN "data" ELSE "input"

\* The arguments that argsToCallMsg decodes; absent and null ones are left out.
Decoded(a) == {f \in (Fields \ {"input", "data"}) \cup {InputKey(a)} : a[f] \notin {"absent", "null"}}

argsToCallMsg ==
  /\ stage = "args" /\ method \in {"call", "estimate"}
  /\ IF \E f \in Decoded(args) : Refused(args[f]) THEN Reply(InvalidParams) ELSE Proceed("block")

\* UnmarshalBinary of the raw transaction.
UnmarshalBinary ==
  /\ stage = "args" /\ method = "send"
  /\ IF cause.kind = "malformed" THEN Reply(InvalidParams) ELSE Proceed("backend")

\* A hash that names no block ends the request with an untyped error.
BlockRef ==
  /\ stage = "block"
  /\ IF cause.kind = "notFound" THEN Reply(Error(CodeDefault)) ELSE Proceed("backend")

-----------------------------------------------------------------------------
(* The gateway and the endorsement client *)

GoError(t, d) == [type |-> t, data |-> d]

\* EndorsementClient.call: an empty revert is an empty answer.
call(o) ==
  CASE o.kind = "ok" -> None
    [] o.kind = "transport" -> GoError("wrapped", FALSE)
    [] o.kind = "reverted" /\ ~ o.data -> None
    [] o.kind = "reverted" /\ o.data -> GoError("RevertError", TRUE)
    [] o.kind \in {"execFailure", "txRejected"} -> GoError("ExecutionError", FALSE)
    [] OTHER -> GoError("wrapped", FALSE)

\* Mutant: the estimate shares the query path of eth_call.
LikeCall(o) == call(o)

\* EstimateGas, when the probe at the ceiling has outcome o: all but a revert with
\* data and a transport fault end as "gas required exceeds allowance".
EstimateGas(o) ==
  CASE o.kind = "ok" -> None
    [] o.kind = "reverted" /\ o.data -> GoError("RevertError", TRUE)
    [] OTHER -> GoError("wrapped", FALSE)

\* SendTransaction returns the first error it meets as it is.
SendTransaction(kind) == IF kind = "ok" THEN None ELSE GoError(kind, FALSE)

Backend ==
  /\ stage = "backend"
  /\ err' = CASE method = "call" -> call(cause)
              [] method = "estimate" -> EstimateGas(cause)
              [] method = "send" -> SendTransaction(cause.kind)
  /\ stage' = "classify" /\ UNCHANGED <<method, args, cause, reply>>

-----------------------------------------------------------------------------
(* Classification *)

\* Mutant: every failure of a submission is the transaction's.
AllRejected(e) == IF e = None THEN Pending ELSE TxRejected

classifyValidationError(e) ==
  IF e = None THEN Pending ELSE IF e.type = "ErrNonceLookup" THEN Internal ELSE TxRejected

\* Mutant: a failed execution falls through to the backend failures.
RevertsOnly(e) ==
  IF e = None THEN Pending ELSE IF e.type = "RevertError" THEN ExecutionReverted ELSE Internal

classifyCallError(e) ==
  IF e = None THEN Pending
  ELSE IF e.type = "RevertError" THEN ExecutionReverted
  ELSE IF e.type = "ExecutionError" THEN ExecutionError
  ELSE Internal

Classify ==
  /\ stage = "classify"
  /\ Reply(IF method = "send" THEN classifyValidationError(err) ELSE classifyCallError(err))

Next == argsToCallMsg \/ UnmarshalBinary \/ BlockRef \/ Backend \/ Classify

Spec == Init /\ [][Next]_vars

-----------------------------------------------------------------------------
(* Properties *)

Done(m) == stage = "done" /\ method = m

\* An argument that is not well-formed hex never reaches the endorser: eth_call and
\* eth_estimateGas refuse it with -32602, unless it is a "data" that "input" hides.
MalformedIsRefused ==
  (\E f \in Fields : args[f] \in {"number", "badHex"} /\ (f = "data" => args["input"] = "absent"))
    => stage \in {"args", "done"} /\ (stage = "done" => reply = InvalidParams)

Reached == \A f \in Fields : args[f] \in {"absent", "hex"}

\* eth_call tells apart who is to blame: the contract (-32000, with the payload of a
\* revert, and only then), or the backend (-32603); a revert without payload is an
\* empty answer, as the tools that probe contracts expect.
CallTellsWhy ==
  Done("call") /\ Reached =>
    /\ reply.data <=> (cause.kind = "reverted" /\ cause.data)
    /\ cause.kind \in {"execFailure", "txRejected"} => reply = ExecutionError
    /\ cause.kind \in {"transport", "serverError"} => reply.code = CodeInternal
    /\ reply.code = Ok <=> (cause.kind = "ok" \/ (cause.kind = "reverted" /\ ~ cause.data))

\* An estimate is never made of a call that failed: unlike eth_call, an empty revert
\* is a failure, since it may be an inner call that ran out of gas.
NoEstimateOfAFailure == Done("estimate") /\ reply.code = Ok => cause.kind = "ok"

\* eth_sendRawTransaction tells a bad transaction from a fault of the node: a wallet
\* drops the former and retries the latter.
SendTellsWhy ==
  Done("send") =>
    /\ cause.kind = "malformed" => reply.code = CodeInvalidParams
    /\ cause.kind = "ErrNonceLookup" => reply.code = CodeInternal
    /\ cause.kind \in ValidateErrors \cup {"ErrNonceTooLow", "ErrTransactionAlreadyPending"} =>
         reply.code = CodeTxRejected
    /\ reply.code = Ok <=> cause.kind = "ok"

=============================================================================
