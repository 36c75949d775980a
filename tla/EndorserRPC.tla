----------------------------- MODULE EndorserRPC -----------------------------
(***************************************************************************)
(* The endorsement API on the wire: endorser/client adapts a remote        *)
(* endorser to the interface of a local one, endorser/server adapts it     *)
(* back.  A request is encoded, decoded, answered by the endorser, and the *)
(* answer makes the same way back.                                         *)
(*                                                                         *)
(* Absent stands for a nil pointer in a message and for a field that the   *)
(* wire message does not set; an integer is sent as its bytes, so that     *)
(* zero and an absent number are the same on the wire.                     *)
(***************************************************************************)
EXTENDS Integers

CONSTANTS
  Absent,
  Addr,          \* an address
  Zero           \* the zero address

VARIABLES
  request,       \* what the gateway asks
  answer,        \* what the endorser will answer
  hop,           \* "client", "server", "endorser", "replied" or "done"
  wire,          \* the message on the wire
  asked,         \* what the endorser is asked
  got            \* what the gateway is told

vars == <<request, answer, hop, wire, asked, got>>

Number == {Absent, 0, 1}
Blocks == {Absent, -2, 0, 1}    \* -2: a block tag that was not resolved

Calls == [op : {"call"}, from : {Zero, Addr}, to : {Absent, Addr}, gas : {0, 1},
          gasPrice : Number, value : Number, block : Blocks]
Reads == [op : {"balance", "storage", "code", "nonce"}, account : {Addr}, block : Blocks]
Executes == [op : {"execute"}, time : {0, 1}]

\* A call that did not succeed has a status and may carry data; a read has a value or fails.
CallAnswers == [status : {200, 201, 202, 400, 500}, data : {Absent, 1}, gas : {0, 1}]
ReadAnswers == [value : {0, 1}] \cup {[fails |-> TRUE]}
\* A proposal response; one that carries a fault has no payload and no endorsement.
ExecuteAnswers ==
  [version : {1}, status : {200, 201, 202}, payload : {1}, endorsement : {1}]
    \cup [version : {1}, status : {400, 500}, payload : {Absent}, endorsement : {Absent}]

Init ==
  /\ \/ request \in Calls /\ answer \in CallAnswers
     \/ request \in Reads /\ answer \in ReadAnswers
     \/ request \in Executes /\ answer \in ExecuteAnswers
  /\ hop = "client"
  /\ wire = Absent /\ asked = Absent /\ got = Absent

-----------------------------------------------------------------------------
(* The way there *)

\* Mutant: the sign of the selector is not looked at, and Uint64 is an absolute value.
Magnitude(bn) == IF bn = Absent THEN Absent ELSE IF bn < 0 THEN -bn ELSE bn

\* A negative selector is a tag and means the latest block.
blockNumberProto(bn) == IF bn = Absent \/ bn < 0 THEN Absent ELSE bn

\* The bytes of an integer.
Bytes(n) == IF n = 0 THEN Absent ELSE n

\* callRequest, and the requests of the reads.
Encode(r) ==
  IF r.op = "call"
  THEN [r EXCEPT !.from = IF @ = Zero THEN Absent ELSE @,
                 !.gasPrice = Bytes(@), !.value = Bytes(@), !.block = blockNumberProto(@)]
  ELSE IF r.op = "execute" THEN r
  ELSE [r EXCEPT !.block = blockNumberProto(@)]

\* callMsg, blockNumber and the timestamp: what the wire leaves out is left unset.
Decode(w) ==
  IF w.op = "call" THEN [w EXCEPT !.from = IF @ = Absent THEN Zero ELSE @]
  ELSE IF w.op = "execute" THEN [w EXCEPT !.time = IF @ = 0 THEN Absent ELSE @]
  ELSE w

ClientSends ==
  /\ hop = "client"
  /\ wire' = Encode(request) /\ hop' = "server"
  /\ UNCHANGED <<request, answer, asked, got>>

ServerReceives ==
  /\ hop = "server"
  /\ asked' = Decode(wire) /\ hop' = "endorser"
  /\ UNCHANGED <<request, answer, wire, got>>

-----------------------------------------------------------------------------
(* The way back *)

\* executeResponse, and the responses of the reads.  A fault of a call or of a
\* transaction rides in the response; one of a read is a gRPC error.
EncodeAnswer(a) ==
  IF asked.op = "call" THEN a
  ELSE IF asked.op = "execute"
  THEN [status |-> a.status, readWriteSet |-> a.payload, signature |-> a.endorsement]
  ELSE IF a = [fails |-> TRUE] THEN [grpc |-> "internal"]
  ELSE [value |-> IF asked.op = "balance" THEN Bytes(a.value) ELSE a.value]

\* Mutant: a call that did not succeed is taken for one that did.
StatusIgnored(status) == TRUE

Succeeded(status) == status = 200

\* An endorsement without endorser and signature.
Empty == 0

\* proposalResponse always has an endorsement, and no version.
DecodeAnswer(w) ==
  IF asked.op = "call"
  THEN IF Succeeded(w.status) THEN [data |-> w.data, gas |-> w.gas]
       ELSE [callError |-> w.status, data |-> w.data, gas |-> w.gas]
  ELSE IF asked.op = "execute"
  THEN [version |-> 0, status |-> w.status, payload |-> w.readWriteSet,
        endorsement |-> IF w.signature = Absent THEN Empty ELSE w.signature]
  ELSE IF w = [grpc |-> "internal"] THEN [fails |-> TRUE]
  ELSE [value |-> IF w.value = Absent THEN 0 ELSE w.value]

EndorserAnswers ==
  /\ hop = "endorser"
  /\ wire' = EncodeAnswer(answer) /\ hop' = "replied"
  /\ UNCHANGED <<request, answer, asked, got>>

ClientReceives ==
  /\ hop = "replied"
  /\ got' = DecodeAnswer(wire) /\ hop' = "done"
  /\ UNCHANGED <<request, answer, wire, asked>>

Next == ClientSends \/ ServerReceives \/ EndorserAnswers \/ ClientReceives

Spec == Init /\ [][Next]_vars

-----------------------------------------------------------------------------
(* What an endorser makes of a request (callMsgToMessage, execute, *)
(* resolveStateBlockRef): gas prices are dropped, no value is zero. *)

Latest == -1
ValueOf(n) == IF n = Absent THEN 0 ELSE n
resolveStateBlockRef(bn) == IF bn = Absent \/ bn < 0 THEN Latest ELSE bn
DefaultGas(gas) == IF gas = 0 THEN 5 ELSE gas

Meaning(r) ==
  IF r.op = "call"
  THEN [from |-> r.from, to |-> r.to, gas |-> DefaultGas(r.gas), value |-> ValueOf(r.value),
        block |-> resolveStateBlockRef(r.block)]
  ELSE IF r.op = "execute" THEN [time |-> ValueOf(r.time)]
  ELSE [op |-> r.op, account |-> r.account, block |-> resolveStateBlockRef(r.block)]

\* The endorser in the process itself.
InProcess(r, a) ==
  IF r.op # "call" THEN a
  ELSE IF a.status = 200 THEN [data |-> a.data, gas |-> a.gas]
  ELSE [callError |-> a.status, data |-> a.data, gas |-> a.gas]

\* What ExecuteTransaction and the packager look at: the status, and if it is accepted
\* what was endorsed and the endorsement.
Accepted == {200, 201, 202}
LookedAt(r, a) ==
  IF r.op # "execute" THEN a
  ELSE IF a.status \in Accepted
  THEN [status |-> a.status, payload |-> a.payload, endorsement |-> a.endorsement]
  ELSE [status |-> a.status]

-----------------------------------------------------------------------------
(* Properties *)

\* A remote endorser is asked for what the gateway asked: zero values, absent fields and
\* block tags keep their meaning over the wire.
AskedTheSame == hop \in {"endorser", "replied", "done"} => Meaning(asked) = Meaning(request)

\* The gateway is told what a local endorser would have told it; of a proposal response
\* that is what ExecuteTransaction and the packager look at, for the version and the nil
\* endorsement of a refusal are lost on the way (executeResponse, proposalResponse).
ToldTheSame ==
  hop = "done" => LookedAt(request, got) = LookedAt(request, InProcess(request, answer))
=============================================================================
