---------------------------- MODULE AppLifecycle ----------------------------
(***************************************************************************)
(* The life of a process: the gateway with its embedded endorser           *)
(* (gateway/app/app.go, wiring.go) or the standalone endorser              *)
(* (endorser/app/standalone.go). It is built step by step, each of which   *)
(* may fail; Run waits for the first synchronisation, serves, and is shut  *)
(* down while requests are answered and a block is being handled.          *)
(*                                                                         *)
(* What the parts do is modelled elsewhere; here they are open or closed,  *)
(* and a handler or a request that finds its store closed fails.           *)
(***************************************************************************)
EXTENDS Integers, Sequences, SequencesExt

CONSTANTS
  Kind,         \* "gateway" or "standalone"
  GrpcServer,   \* whether endorser.server is configured, as a standalone one's is
  MaxBlocks     \* bound: blocks the synchronizer delivers

VARIABLES
  step,        \* the construction step that comes next
  phase,       \* "build", "failed", "waiting", "serving", "returned", "crashed"
  open,        \* the parts that are open
  cancelled,   \* the context of the errgroup is done
  workers,     \* gateway workers: "none", "running", "stopped"
  sync,        \* Synchronizer.Start: "none", "running", "returned"
  live,        \* blocks come from the notification stream
  ready,       \* Ready was nil
  at,          \* the handler at work on a block, 0 if none is
  blocks,      \* blocks delivered
  http, grpc,  \* "none", "serving", "draining", "returned"
  httpReq, grpcReq, \* a request is being answered
  timedOut,    \* the 10 seconds for HTTP requests were over
  shutdown,    \* how far Shutdown is
  panicked,    \* what took the process down in a handler, "" if nothing did
  starved      \* an accepted gRPC request found the store closed

buildVars == <<step, open>>
syncVars == <<sync, live, ready, at, blocks, panicked>>
serverVars == <<http, grpc, httpReq, grpcReq, timedOut, starved>>
vars == <<buildVars, phase, cancelled, workers, syncVars, serverVars, shutdown>>

-----------------------------------------------------------------------------
(* New, newApp, buildApp, BuildGateway *)

\* What each step of the construction opens: newApp and buildApp of the
\* gateway, New of the standalone endorser, which asks the committer for its
\* height if its store is the query service.
GatewaySteps ==
  <<"conns", "signer", "kvs">> \o
  <<"submitters", "chain", "batch", "filter", "synchronizer", "rpcServer">>
EndorserSteps == <<"signer", "kvs", "height", "synchronizer">>
Steps == IF Kind = "gateway" THEN GatewaySteps ELSE EndorserSteps

\* The parts that have to be closed.
Closable == {"conns", "kvs", "submitters", "chain", "batch", "filter"}

\* The order in which a block passes through them.
Handlers ==
  IF Kind = "gateway" THEN <<"kvs", "chain", "filter", "gateway">> ELSE <<"kvs">>

Init ==
  /\ step = 1 /\ phase = "build" /\ open = {} /\ cancelled = FALSE
  /\ workers = "none"
  /\ sync = "none" /\ live = FALSE /\ ready = FALSE /\ at = 0 /\ blocks = 0
  /\ http = "none" /\ grpc = "none" /\ httpReq = FALSE /\ grpcReq = FALSE
  /\ timedOut = FALSE /\ shutdown = "no" /\ panicked = "" /\ starved = FALSE

\* One step succeeds.
Build ==
  /\ phase = "build" /\ step <= Len(Steps)
  /\ step' = step + 1
  /\ open' = open \union ({Steps[step]} \cap Closable)
  /\ UNCHANGED <<phase, cancelled, workers, syncVars, serverVars, shutdown>>

\* Mutant: the connections are closed only if buildApp fails.
ConnsKept == IF step > 3 THEN {"conns", "filter"} ELSE {}

\* What a failed construction closes again: newApp's closeAll and the deferred
\* call of buildApp.
ClosedOnFailure == {"conns", "filter"}

\* One step fails; NewFilterAPI cannot.
BuildFails ==
  /\ phase = "build" /\ step <= Len(Steps) /\ Steps[step] # "filter"
  /\ phase' = "failed"
  /\ open' = (open \union (IF Steps[step] = "conns" THEN {"conns"} ELSE {}))
             \ ClosedOnFailure
  /\ UNCHANGED <<step, cancelled, workers, syncVars, serverVars, shutdown>>

-----------------------------------------------------------------------------
(* Run *)

Run ==
  /\ phase = "build" /\ step > Len(Steps)
  /\ phase' = "waiting" /\ sync' = "running"
  /\ UNCHANGED <<buildVars, cancelled, workers, live, ready, at, blocks,
                 panicked, serverVars, shutdown>>

\* WaitUntilSynced gives up, after its timeout or because the context is done:
\* Run returns, which cancels the context, and nothing is shut down.
NotSynced ==
  /\ phase = "waiting"
  /\ phase' = "returned" /\ cancelled' = TRUE
  /\ UNCHANGED <<buildVars, workers, syncVars, serverVars, shutdown>>

\* It saw Ready: workers and servers start, and a goroutine that waits for the
\* context to be done.
Serve ==
  /\ phase = "waiting" /\ ready
  /\ phase' = "serving"
  /\ workers' = IF Kind = "gateway" THEN "running" ELSE "none"
  /\ http' = IF Kind = "gateway" THEN "serving" ELSE "none"
  /\ grpc' = IF GrpcServer THEN "serving" ELSE "none"
  /\ shutdown' = "waiting"
  /\ UNCHANGED <<buildVars, cancelled, syncVars, httpReq, grpcReq, timedOut, starved>>

\* A signal, or an error of the synchronizer or of a server, such as a listen
\* address that is in use.
Cancel ==
  /\ phase \in {"waiting", "serving"} /\ ~cancelled
  /\ cancelled' = TRUE
  /\ UNCHANGED <<buildVars, phase, workers, syncVars, serverVars, shutdown>>

\* g.Wait(): all goroutines of the group have returned.
Wait ==
  /\ phase = "serving" /\ shutdown = "done"
  /\ sync = "returned" /\ http # "serving" /\ http # "draining"
  /\ grpc \in {"none", "returned"}
  /\ phase' = "returned"
  /\ UNCHANGED <<buildVars, cancelled, workers, syncVars, serverVars, shutdown>>

-----------------------------------------------------------------------------
(* The synchronizer and its handlers *)

BecomesReady ==
  /\ sync = "running" /\ ~ready
  /\ ready' = TRUE
  /\ UNCHANGED <<buildVars, phase, cancelled, workers, sync, live, at, blocks,
                 panicked, serverVars, shutdown>>

SwitchToLive ==
  /\ sync = "running" /\ ~live /\ at = 0 /\ ~cancelled
  /\ live' = TRUE
  /\ UNCHANGED <<buildVars, phase, cancelled, workers, sync, ready, at, blocks,
                 panicked, serverVars, shutdown>>

\* A block arrives and the first handler is called.
Deliver ==
  /\ sync = "running" /\ at = 0 /\ blocks < MaxBlocks /\ ~cancelled
  /\ at' = 1 /\ blocks' = blocks + 1
  /\ UNCHANGED <<buildVars, phase, cancelled, workers, sync, live, ready,
                 panicked, serverVars, shutdown>>

\* Handlers work on parts that may be closed meanwhile; the gateway's own
\* queue and gate are never closed to it.
HandlerOpen == Handlers[at] = "gateway" \/ Handlers[at] \in open

\* The handler is done, and the next one is called.
HandlerDone ==
  /\ at # 0
  /\ HandlerOpen \/ Handlers[at] = "filter"
  /\ at' = IF at = Len(Handlers) THEN 0 ELSE at + 1
  /\ UNCHANGED <<buildVars, phase, cancelled, workers, sync, live, ready, blocks,
                 panicked, serverVars, shutdown>>

\* Mutant: every error of a handler is fatal.
AlwaysFatal == TRUE

\* "graceful shutdown": an error is fatal unless the context is done.
Fatal == ~cancelled

\* Why a handler fails: it cannot convert the block or write it (LightKVS.Handle,
\* Chain.Handle, Gateway.Handle), or its store was closed, or its transaction was
\* rolled back because the context is done.  FilterAPI.Handle never fails.
Failures ==
  {"block"} \union
  (IF ~HandlerOpen \/ (cancelled /\ Handlers[at] = "chain") THEN {"store"} ELSE {})

\* A panic on the goroutine of a handler ends the process as it is.
Dies(why) ==
  /\ panicked' = why /\ phase' = "crashed"
  /\ open' = {} /\ workers' = "none" /\ sync' = "none" /\ shutdown' = "no"
  /\ http' = "none" /\ grpc' = "none" /\ httpReq' = FALSE /\ grpcReq' = FALSE
  /\ UNCHANGED <<step, cancelled, live, ready, blocks, timedOut, starved>>

HandlerFails ==
  /\ at # 0 /\ Handlers[at] # "filter"
  /\ at' = 0
  /\ \/ Fatal /\ \E why \in Failures : Dies(why)
     \/ /\ ~Fatal
        /\ UNCHANGED <<buildVars, phase, cancelled, workers, sync, live, ready, blocks,
                       panicked, serverVars, shutdown>>

\* Start returns when the notification goroutine has ended. It does not wait
\* for the delivery goroutine, which may still be at work on a block.
SyncReturns ==
  /\ sync = "running" /\ cancelled /\ (live => at = 0)
  /\ sync' = "returned"
  /\ UNCHANGED <<buildVars, phase, cancelled, workers, live, ready, at, blocks,
                 panicked, serverVars, shutdown>>

-----------------------------------------------------------------------------
(* Requests *)

HttpRequest ==
  /\ http = "serving" /\ ~httpReq
  /\ httpReq' = TRUE
  /\ UNCHANGED <<buildVars, phase, cancelled, workers, syncVars, http, grpc,
                 grpcReq, timedOut, starved, shutdown>>

HttpAnswer ==
  /\ httpReq
  /\ httpReq' = FALSE
  /\ UNCHANGED <<buildVars, phase, cancelled, workers, syncVars, http, grpc,
                 grpcReq, timedOut, starved, shutdown>>

\* The health service reports NOT_SERVING when the context is done, and the
\* server drains.
GrpcRequest ==
  /\ grpc = "serving" /\ ~grpcReq
  /\ grpcReq' = TRUE
  /\ UNCHANGED <<buildVars, phase, cancelled, workers, syncVars, http, grpc,
                 httpReq, timedOut, starved, shutdown>>

\* A request reads the endorser's store.
GrpcAnswer ==
  /\ grpcReq
  /\ grpcReq' = FALSE
  /\ starved' = (starved \/ "kvs" \notin open)
  /\ UNCHANGED <<buildVars, phase, cancelled, workers, syncVars, http, grpc,
                 httpReq, timedOut, shutdown>>

\* Mutant: the server begins to drain when it has nothing to do.
DrainWhenIdle ==
  /\ grpc = "serving" /\ cancelled /\ ~grpcReq
  /\ grpc' = "draining"
  /\ UNCHANGED <<buildVars, phase, cancelled, workers, syncVars, http, httpReq,
                 grpcReq, timedOut, starved, shutdown>>

GrpcDrain ==
  /\ grpc = "serving" /\ cancelled
  /\ grpc' = "draining"
  /\ UNCHANGED <<buildVars, phase, cancelled, workers, syncVars, http, httpReq,
                 grpcReq, timedOut, starved, shutdown>>

GrpcReturns ==
  /\ grpc = "draining" /\ ~grpcReq
  /\ grpc' = "returned"
  /\ UNCHANGED <<buildVars, phase, cancelled, workers, syncVars, http, httpReq,
                 grpcReq, timedOut, starved, shutdown>>

-----------------------------------------------------------------------------
(* Shutdown *)

\* Mutant: the chain is closed before the gateway is stopped.
ChainFirst == <<"http", "chain", "gateway", "filter", "conns">>

\* Mutant: HTTP requests are waited for last.
HttpLast == <<"gateway", "chain", "filter", "conns", "http">>

\* Mutant: the store of the embedded endorser is closed too.
KvsToo == <<"http", "gateway", "chain", "filter", "conns", "kvs">>

\* What Shutdown closes, in order.
GatewayShutdown == <<"http", "gateway", "chain", "filter", "conns">>
EndorserShutdown == <<"kvs">>
ShutdownOrder == IF Kind = "gateway" THEN GatewayShutdown ELSE EndorserShutdown

\* Where Shutdown goes after it has dealt with s.
After(s) ==
  IF s = Last(ShutdownOrder) THEN "done"
  ELSE ShutdownOrder[1 + CHOOSE i \in DOMAIN ShutdownOrder : ShutdownOrder[i] = s]

\* <-gctx.Done(); ListenAndServe returns as soon as Shutdown was called.
ShutdownBegins ==
  /\ shutdown = "waiting" /\ cancelled
  /\ shutdown' = ShutdownOrder[1]
  /\ http' = IF Kind = "gateway" THEN "draining" ELSE http
  /\ UNCHANGED <<buildVars, phase, cancelled, workers, syncVars, grpc, httpReq,
                 grpcReq, timedOut, starved>>

\* Mutant: Shutdown waits as long as the requests take.
NeverExpires == FALSE

\* The context of Shutdown ends after 10 seconds.
Expires == TRUE

ShutdownHttp ==
  /\ shutdown = "http"
  /\ \/ ~httpReq /\ UNCHANGED timedOut
     \/ httpReq /\ Expires /\ timedOut' = TRUE
  /\ http' = "returned"
  /\ shutdown' = After("http")
  /\ UNCHANGED <<buildVars, phase, cancelled, workers, syncVars, grpc, httpReq,
                 grpcReq, starved>>

\* Gateway.Stop waits for the workers, stops the batch submitter and closes its
\* connections.
ShutdownGateway ==
  /\ shutdown = "gateway"
  /\ workers' = "stopped"
  /\ open' = open \ {"batch", "submitters"}
  /\ shutdown' = After("gateway")
  /\ UNCHANGED <<step, phase, cancelled, syncVars, serverVars>>

\* The other parts are just closed.
ShutdownPart ==
  /\ shutdown \in Range(ShutdownOrder) \ {"http", "gateway"}
  /\ open' = open \ {shutdown}
  /\ shutdown' = After(shutdown)
  /\ UNCHANGED <<step, phase, cancelled, workers, syncVars, serverVars>>

ShutdownNext == ShutdownBegins \/ ShutdownHttp \/ ShutdownGateway \/ ShutdownPart

Next ==
  \/ Build \/ BuildFails \/ Run \/ NotSynced \/ Serve \/ Cancel \/ Wait
  \/ BecomesReady \/ SwitchToLive \/ Deliver \/ HandlerDone \/ HandlerFails
  \/ SyncReturns
  \/ HttpRequest \/ HttpAnswer
  \/ GrpcRequest \/ GrpcAnswer \/ GrpcDrain \/ GrpcReturns
  \/ ShutdownNext

Spec == Init /\ [][Next]_vars

-----------------------------------------------------------------------------
(* Properties *)

\* Stores are closed while a block is on its way through the handlers, and the
\* error this causes never takes the process down (the "graceful shutdown"
\* case of hybridx), whichever path delivers the block and even if Run has
\* already returned.  A block that cannot be handled does, by design.
ShutdownNeverPanics == panicked # "store"

\* Gateway workers never run without the store they report to, the connections
\* to remote endorsers and the submitters.
WorkersHaveTheirParts ==
  workers = "running" => {"chain", "conns", "submitters", "batch"} \subseteq open

\* An HTTP request that is being answered finds the chain open, unless it took
\* longer than the 10 seconds Shutdown waits.
RequestsHaveTheChain == httpReq => "chain" \in open \/ timedOut

\* A construction that fails at any step leaves no connection to a remote
\* endorser and no filter goroutine behind (newApp's closeAll, buildApp's
\* deferred Close).  The chain, the endorser's store, the submitters and the
\* batch queue stay open: nothing closes them, and the process exits.
FailureCleansUp == phase = "failed" => {"conns", "filter"} \cap open = {}

\* The health service reports NOT_SERVING "so clients drain before the server
\* stops": requests that were accepted are answered from an open store.
DrainingIsServed == ~starved

=============================================================================
