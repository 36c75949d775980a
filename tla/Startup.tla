------------------------------- MODULE Startup -------------------------------
(***************************************************************************)
(* From a configuration file to a running process: fxevm start and fxevm   *)
(* testnode --config load and validate the configuration, then build the   *)
(* parts one after the other, each reading its own fields of it.  An       *)
(* operator edits a sample configuration, starts the process, and after a  *)
(* failure may edit it and start again on the same endorser store.  A      *)
(* field is one of the values the code tells apart.                        *)
(***************************************************************************)
EXTENDS Naturals

CONSTANTS MaxEdits,    \* bound: fields changed in the sample configuration
          MaxStarts    \* bound: times the process is started

VARIABLES cfg,       \* the configuration file
          edits,     \* fields changed so far
          cmd,       \* "start" or "testnode"
          starts,    \* times started so far
          step,      \* what is built next
          outcome,   \* "", "refused", "error" or "panic"
          cause,     \* of an error: "config" or "environment"
          parts,     \* part -> the protocol it was built for
          store,     \* the directory of the pebble store: "fresh", "used", "funded" or
                     \* "funded, used"
          invoked    \* the result of the last invocation built

vars == <<cfg, edits, cmd, starts, step, outcome, cause, parts, store, invoked>>

Fields == [protocol  |-> {"", "fabric", "fabric-x", "other"},
           channel   |-> {"", "set"},
           namespace |-> {"", "set"},
           nsVersion |-> {"", "integer", "zero decimal", "fraction", "label"},
           committer |-> {"ok", "no endpoint", "no file", "bad TLS"},
           logging   |-> {"ok", "bad"},
           gateway   |-> {"nil", "set"},
           listen    |-> {"", "ok", "bad"},
           gwIdentity |-> {"ok", "bad"},
           gwConnString |-> {"", "set"},
           orderers  |-> {"none", "ok", "no endpoint", "no file", "bad TLS"},
           endorsers |-> {"none", "ok", "no endpoint", "no file", "bad TLS"},
           filters   |-> {"nil", "ok", "negative"},
           endorser  |-> {"nil", "set"},
           name      |-> {"", "set"},
           identity  |-> {"ok", "bad"},
           database  |-> {"", "sqlite", "memory", "pebble", "query-service", "other"},
           connString |-> {"", "set"},
           historySize |-> {"zero", "positive", "negative"},
           queryService |-> {"nil", "ok", "no endpoint", "no file", "bad TLS"},
           server    |-> {"nil", "ok", "no endpoint", "no file", "bad TLS"}]

Parts == {"endorser", "submitters", "invocations", "synchronizer", "primer"}
Unbuilt == "none"

\* A gateway with its endorser, and an endorser on its own.
GatewaySample ==
  [protocol |-> "", channel |-> "set", namespace |-> "set", nsVersion |-> "zero decimal",
   committer |-> "ok", logging |-> "ok", gateway |-> "set", listen |-> "ok", gwIdentity |-> "ok",
   gwConnString |-> "set", orderers |-> "ok", endorsers |-> "ok", filters |-> "nil",
   endorser |-> "set", name |-> "set", identity |-> "ok", database |-> "memory",
   connString |-> "set", historySize |-> "zero", queryService |-> "nil", server |-> "nil"]

StandaloneSample ==
  [GatewaySample EXCEPT !.gateway = "nil", !.database = "query-service",
                        !.queryService = "ok", !.server = "ok"]

-----------------------------------------------------------------------------
(* Reading the configuration *)

NormalizeProtocol(p) == CASE p = "" -> "fabric-x"
                          [] p \in {"fabric", "fabric-x"} -> p
                          [] OTHER -> "invalid"

NsVersionParses == cfg.nsVersion \in {"", "integer", "zero decimal"}

\* ClientConfig.Validate: an endpoint, and certificate files that exist.  The TLS
\* mode, and whether it has the certificates it needs, is not looked at.
ClientValid(c) == c \notin {"no endpoint", "no file"}

\* validateServerConfig: the same for the endorser's own server.
ServerValid == cfg.server \notin {"no endpoint", "no file"}

\* Mutant: the query service's configuration is not required.
EndorserWithoutQuery ==
  /\ cfg.name # "" /\ cfg.identity = "ok" /\ cfg.database # ""
  /\ cfg.database \in {"sqlite", "pebble"} => cfg.connString # ""
  /\ cfg.database = "query-service" => NormalizeProtocol(cfg.protocol) = "fabric-x"
  /\ ServerValid

\* Endorser.Validate.
EndorserValid ==
  /\ cfg.name # "" /\ cfg.identity = "ok" /\ cfg.database # ""
  /\ cfg.database \in {"sqlite", "pebble"} => cfg.connString # ""
  /\ cfg.database = "query-service" =>
       /\ NormalizeProtocol(cfg.protocol) = "fabric-x"
       /\ cfg.queryService # "nil" /\ ClientValid(cfg.queryService)
  /\ ServerValid

GatewayValid ==
  /\ cfg.endorser = "set"
  /\ cfg.listen = "ok" /\ cfg.gwIdentity = "ok" /\ cfg.gwConnString # ""
  /\ cfg.orderers # "none" /\ ClientValid(cfg.orderers) /\ ClientValid(cfg.endorsers)
  /\ cfg.filters # "negative"

\* Config.Validate.
Valid ==
  /\ cfg.channel # "" /\ cfg.namespace # ""
  /\ NormalizeProtocol(cfg.protocol) # "invalid"
  /\ NormalizeProtocol(cfg.protocol) = "fabric-x" => NsVersionParses
  /\ ClientValid(cfg.committer)
  /\ cfg.gateway = "set" => GatewayValid
  /\ cfg.gateway = "nil" => cfg.endorser = "set"
  /\ cfg.endorser = "set" => EndorserValid
  /\ cfg.gateway = "nil" => cfg.server # "nil"

-----------------------------------------------------------------------------
(* The operator *)

Init ==
  /\ cfg \in {GatewaySample, StandaloneSample}
  /\ edits = 0 /\ starts = 0
  /\ cmd = "start" /\ step = "stopped"
  /\ outcome = "" /\ cause = ""
  /\ parts = [p \in Parts |-> Unbuilt]
  /\ store \in {"fresh", "used"}
  /\ invoked = ""

Edit ==
  /\ step = "stopped" /\ edits < MaxEdits
  /\ \E f \in DOMAIN Fields : \E v \in Fields[f] \ {cfg[f]} : cfg' = [cfg EXCEPT ![f] = v]
  /\ edits' = edits + 1
  /\ outcome' = "" /\ cause' = ""
  /\ UNCHANGED <<cmd, starts, step, parts, store, invoked>>

\* runStart and runTestNodeWithConfig, which sets no log levels: the
\* configuration is loaded and validated.
Run(c) ==
  /\ step = "stopped" /\ starts < MaxStarts
  /\ cmd' = c /\ starts' = starts + 1
  /\ outcome' = IF Valid THEN "" ELSE "refused"
  /\ step' = CASE ~Valid -> "stopped"
               [] Valid /\ c = "start" -> "logging"
               [] OTHER -> "gateway signer"
  /\ cause' = "" /\ invoked' = ""
  /\ parts' = [p \in Parts |-> Unbuilt]
  /\ UNCHANGED <<cfg, edits, store>>

-----------------------------------------------------------------------------
(* Building the parts *)

Standalone == cmd = "start" /\ cfg.gateway = "nil"

\* The step ends the process, with an error or a panic.
Stop(o, why) == outcome' = o /\ cause' = why /\ step' = "stopped"

\* A step that dereferences what may be nil, that refuses what it reads, and
\* that reads files or talks to others.
Attempt(here, panics, refuses, outside) ==
  /\ step = here
  /\ \/ panics /\ Stop("panic", "config")
     \/ ~panics /\ refuses /\ Stop("error", "config")
     \/ ~panics /\ outside /\ Stop("error", "environment")
  /\ UNCHANGED <<cfg, edits, cmd, starts, parts, store, invoked>>

Go(next) == step' = next /\ UNCHANGED <<cfg, edits, cmd, starts, outcome, cause, invoked>>

Built(part, protocol) == parts' = [parts EXCEPT ![part] = NormalizeProtocol(protocol)]

\* runStart: flogging.Init panics over a format or a specification it cannot parse.
InitLogging ==
  \/ Attempt("logging", cfg.logging = "bad", FALSE, FALSE)
  \/ /\ step = "logging" /\ cfg.logging # "bad"
     /\ Go(IF Standalone THEN "signer" ELSE "gateway signer")
     /\ UNCHANGED <<parts, store>>

\* app.New and NewTestNodeWithConfig.
GatewaySigner ==
  \/ Attempt("gateway signer", cfg.gateway = "nil", FALSE, TRUE)
  \/ /\ step = "gateway signer" /\ cfg.gateway = "set"
     /\ Go("dial")
     /\ UNCHANGED <<parts, store>>

\* newApp: an endorser is needed, and the remote ones are dialed.  Dial builds the
\* TLS credentials itself.  Whether the SDK's clients and the server, below, refuse
\* a section's TLS configuration when they are created or at first use is left open.
Dial ==
  LET missing == cfg.endorser = "nil"
      nowhere == cfg.endorsers = "no endpoint"
      badTLS == cfg.endorsers = "bad TLS"
  IN \/ Attempt("dial", nowhere /\ ~missing, missing \/ badTLS, cfg.endorsers # "none")
     \/ /\ step = "dial" /\ ~missing /\ ~nowhere /\ ~badTLS
        /\ Go("signer")
        /\ UNCHANGED <<parts, store>>

EndorserSigner ==
  \/ Attempt("signer", FALSE, cfg.endorser = "nil", TRUE)
  \/ /\ step = "signer" /\ cfg.endorser # "nil"
     /\ Go("endorser")
     /\ UNCHANGED <<parts, store>>

\* What NewEndorserCore dereferences or allocates without looking.
StorePanics == \/ cfg.database = "memory" /\ cfg.historySize = "negative"
               \/ cfg.database = "query-service" /\ cfg.queryService \in {"nil", "no endpoint"}

StoreTLS == cfg.database = "query-service" /\ cfg.queryService = "bad TLS"

StoreRefused == cfg.database \notin {"sqlite", "memory", "pebble", "query-service"}

\* Mutant: the endorser factory takes an unset protocol to be classic Fabric.
CoreOnFabric ==
  \/ Attempt("endorser", StorePanics, StoreRefused \/ StoreTLS, TRUE)
  \/ /\ step = "endorser" /\ ~StorePanics /\ ~StoreRefused
     /\ Go(IF Standalone THEN "height" ELSE "submitters")
     /\ Built("endorser", IF cfg.protocol = "" THEN "fabric" ELSE cfg.protocol)
     /\ UNCHANGED store

NewEndorserCore ==
  \/ Attempt("endorser", StorePanics, StoreRefused \/ StoreTLS, TRUE)
  \/ /\ step = "endorser" /\ ~StorePanics /\ ~StoreRefused
     /\ Go(IF Standalone THEN "height" ELSE "submitters")
     /\ Built("endorser", cfg.protocol)
     /\ UNCHANGED store

\* standalone New: a query-service endorser starts at the committer's tip.
CommitterHeight ==
  \/ Attempt("height", cfg.database = "query-service" /\ cfg.committer = "no endpoint",
             cfg.database = "query-service" /\ cfg.committer = "bad TLS",
             cfg.database = "query-service")
  \/ /\ step = "height"
     /\ cfg.database = "query-service" => cfg.committer # "no endpoint"
     /\ Go("synchronizer")
     /\ UNCHANGED <<parts, store>>

\* buildApp: the orderers are converted, then each submitter is created.
NewNetworkSubmitters ==
  \/ Attempt("submitters", cfg.orderers = "no endpoint",
             cfg.orderers \in {"none", "bad TLS"}, TRUE)
  \/ /\ step = "submitters" /\ cfg.orderers \notin {"none", "no endpoint"}
     /\ Go("chain")
     /\ Built("submitters", cfg.protocol)
     /\ UNCHANGED store

NewChain ==
  \/ Attempt("chain", FALSE, FALSE, TRUE)
  \/ /\ step = "chain"
     /\ Go("gateway")
     /\ UNCHANGED <<parts, store>>

\* newInvocationBuilder: the namespace version is read on the Fabric-X path only.
InvocationRefused == NormalizeProtocol(cfg.protocol) = "fabric-x" /\ ~NsVersionParses

BuildGateway ==
  \/ Attempt("gateway", FALSE, InvocationRefused, FALSE)
  \/ /\ step = "gateway" /\ ~InvocationRefused
     /\ Go("synchronizer")
     /\ Built("invocations", cfg.protocol)
     /\ UNCHANGED store

NewSynchronizer ==
  \/ Attempt("synchronizer", cfg.committer = "no endpoint",
             cfg.namespace = "" \/ cfg.committer = "bad TLS", TRUE)
  \/ /\ step = "synchronizer" /\ cfg.committer # "no endpoint" /\ cfg.namespace # ""
     /\ Go(IF cmd = "testnode" THEN "fund" ELSE "serve")
     /\ Built("synchronizer", cfg.protocol)
     /\ UNCHANGED store

\* The pebble store has real blocks: a synthetic block at its tip is not a replay of it.
FundingRefused == cfg.database = "pebble" /\ store \in {"used", "funded, used"}

\* FundTestAccounts writes block 0 of a fresh store.
FundTestAccounts ==
  \/ Attempt("fund", FALSE, FundingRefused, TRUE)
  \/ /\ step = "fund" /\ ~FundingRefused
     /\ Go("revertible")
     /\ store' = IF cfg.database = "pebble" THEN "funded" ELSE store
     /\ UNCHANGED <<parts>>

\* The rest of the test surface: the store must be Revertible, which only the
\* in-memory one is, then the state primer is created.
NewStatePrimer ==
  \/ Attempt("revertible", FALSE, cfg.database # "memory" \/ InvocationRefused, FALSE)
  \/ /\ step = "revertible" /\ cfg.database = "memory" /\ ~InvocationRefused
     /\ Go("serve")
     /\ Built("primer", cfg.protocol)
     /\ UNCHANGED store

\* Run: the servers are started after the first synchronization, which may
\* time out; a standalone endorser dereferences its server's configuration.
Serve ==
  \/ Attempt("serve", Standalone /\ cfg.server = "nil",
             (~Standalone /\ cfg.listen = "bad") \/ cfg.server = "bad TLS", TRUE)
  \/ /\ step = "serve"
     /\ IF Standalone THEN cfg.server # "nil" ELSE cfg.listen # "bad"
     /\ Go("running")
     /\ UNCHANGED <<parts, store>>

\* createInvocation, for every transaction, whatever the protocol.
CreateInvocation ==
  /\ step = "running" /\ ~Standalone /\ invoked = ""
  /\ invoked' = IF NsVersionParses THEN "ok" ELSE "error"
  /\ UNCHANGED <<cfg, edits, cmd, starts, step, outcome, cause, parts, store>>

\* The process is stopped by a signal: the store has the blocks it was given.
Shutdown ==
  /\ step = "running"
  /\ step' = "stopped"
  /\ store' = CASE cfg.database = "pebble" /\ store = "fresh" -> "used"
                [] cfg.database = "pebble" /\ store = "funded" -> "funded, used"
                [] OTHER -> store
  /\ UNCHANGED <<cfg, edits, cmd, starts, outcome, cause, parts, invoked>>

Next ==
  \/ Edit \/ (\E c \in {"start", "testnode"} : Run(c))
  \/ InitLogging \/ GatewaySigner \/ Dial \/ EndorserSigner \/ NewEndorserCore \/ CommitterHeight
  \/ NewNetworkSubmitters \/ NewChain \/ BuildGateway \/ NewSynchronizer
  \/ FundTestAccounts \/ NewStatePrimer \/ Serve
  \/ CreateInvocation \/ Shutdown

Spec == Init /\ [][Next]_vars

-----------------------------------------------------------------------------
(* Properties *)

\* The endorser's builder, the submitters, the invocation builder, the
\* synchronizer and the primer are all built for the same protocol, also when
\* the configuration leaves it unset (NormalizeProtocol's comment).
ProtocolsAgree ==
  \A p, q \in Parts : parts[p] # Unbuilt /\ parts[q] # Unbuilt => parts[p] = parts[q]

\* What Validate lets through and what follows does not take: a database that
\* does not exist, a negative window for the in-memory store, a TLS section whose
\* mode is unknown or lacks its certificates, log levels that do not parse, and
\* under testnode a configuration without a gateway or with another store.
Unchecked ==
  \/ cfg.database = "other"
  \/ cfg.database = "memory" /\ cfg.historySize = "negative"
  \/ "bad TLS" \in {cfg.committer, cfg.orderers, cfg.endorsers, cfg.queryService, cfg.server}
  \/ cmd = "start" /\ cfg.logging = "bad"
  \/ cmd = "testnode" /\ (cfg.gateway = "nil" \/ cfg.database # "memory")

\* Apart from those, a configuration that Validate accepts is refused by no
\* constructor and leaves none of them a nil to dereference: what newApp,
\* buildApp and the standalone New read without looking, Validate required.
ValidatedStarts == cause = "config" => Unchecked

=============================================================================
