------------------------ MODULE ObservabilityInstall ------------------------
(***************************************************************************)
(* Installing and adopting the OpenObserve backend and the OpenTelemetry   *)
(* Collector: ObservabilityPlanner.plan and apply                          *)
(* (src/src/extensions/observability-planner.ts) over what                 *)
(* detectOpenObserveRuntime and detectOtelCollectorRuntime                 *)
(* (src/src/runtime) find.  An application writes one file after the       *)
(* other, then starts containers; it may fail or end at any of its awaits, *)
(* and is asked for again.  What runs is what docker read when it started  *)
(* a container, not what the files say now.                                *)
(*                                                                         *)
(* The user edits files only while no application is in flight and leaves  *)
(* the collector's service alone, and a route that exists stays.           *)
(***************************************************************************)
EXTENDS Naturals, FiniteSets

CONSTANTS
  MaxApplies,   \* bound: applications begun
  MaxEdits      \* bound: edits of the user

ASSUME ObservabilityAssumption == MaxApplies \in Nat /\ MaxEdits \in Nat

VARIABLES
  backend,     \* the OpenObserve service of docker-compose.yml, and its id
  collector,   \* the collector service there
  config,      \* .locallink/otel-collector.yaml: absent, not LocalLink's, its own of another version or of this
  password,    \* OPENOBSERVE_PASSWORD in .env, 0 when there is none
  contract,    \* .env has the backend's and the applications' OTLP variables
  capability,  \* what is enabled, selected, to adopt, and the ids its route is recorded under
  verified,    \* a verification record for the present endpoints
  account,     \* the root password the stored data was created with, or 0
  running,     \* the container of each service runs
  loaded,      \* what its container was started with
  apply,       \* how far the application is
  noted,       \* what it found when it began
  cut,         \* history: one ended after it had changed the collector's file, before the restart
  applies, edits

diskVars == <<backend, collector, config, password, contract, capability, verified>>
dockerVars == <<account, running, loaded>>
runVars == <<apply, noted, cut>>
obsVars == <<diskVars, dockerVars, runVars, applies, edits>>

Names == {"backend", "collector"}

(* The id of a service is made of its name; one that LocalLink writes has  *)
(* the first.                                                              *)
Ids == {"openobserve", "other"}
NoBackend == [declared |-> FALSE, persistent |-> FALSE, loopback |-> FALSE, id |-> "openobserve"]

Nothing == [fresh |-> FALSE, secure |-> FALSE, writes |-> FALSE, changed |-> FALSE, password |-> 0]

(* A new workspace; or an OpenObserve of the user's, with its data; or a   *)
(* managed collector left by an earlier LocalLink.                         *)
ObservabilityInit ==
  /\ backend \in {NoBackend} \cup
       [declared : {TRUE}, persistent : BOOLEAN, loopback : BOOLEAN, id : Ids]
  /\ collector \in [by : {"none", "locallink", "user"}, contract : BOOLEAN]
  /\ collector.by = "none" => ~collector.contract
  /\ config \in IF collector.by = "locallink" THEN {"none", "other", "earlier"} ELSE {"none"}
  /\ password \in IF backend.declared THEN {0, 1} ELSE {0}
  /\ account = IF backend.declared THEN 1 ELSE 0
  /\ contract = FALSE /\ verified = FALSE
  /\ capability \in [enabled : {FALSE}, selected : BOOLEAN, owned : {{}}, live : BOOLEAN]
  /\ running \in [Names -> BOOLEAN]
  /\ running["backend"] = backend.declared
  /\ running["collector"] => collector.by = "user" \/ config # "none"
  /\ loaded = [backend |-> [loopback |-> backend.loopback],
               collector |-> [config |-> config, contract |-> collector.contract, key |-> password]]
  /\ apply = "idle" /\ noted = Nothing /\ cut = FALSE
  /\ applies = 0 /\ edits = 0

-----------------------------------------------------------------------------
(* A detection finds what runs, and probes it: the health of each service, *)
(* the authenticated API, and the live route the edge's plan looks for.    *)
Probes == [backend : BOOLEAN, api : BOOLEAN, collector : BOOLEAN, route : BOOLEAN]

Healthy(n, probe) == running[n] /\ probe[n]

CredentialState(probe) ==
  CASE password = 0 -> "missing"
    [] password # 0 /\ ~(Healthy("backend", probe) /\ probe.api) -> "unverified"
    [] password # 0 /\ Healthy("backend", probe) /\ probe.api ->
         IF password = account THEN "valid" ELSE "invalid"

CollectorConfigured == collector.contract /\ config \in {"earlier", "current"}

(* A mutant: a healthy collector is taken to deliver. *)
DeliveredUnverified(probe) == Healthy("collector", probe) /\ CollectorConfigured

Delivered(probe) == Healthy("collector", probe) /\ CollectorConfigured /\ verified

(* What stops every change: credentials that fail, data that is not        *)
(* persistent, a collector that is not LocalLink's.                        *)
Blocking(probe) ==
  \/ CredentialState(probe) = "invalid"
  \/ Healthy("backend", probe) /\ CredentialState(probe) = "unverified"
  \/ backend.declared /\ ~backend.persistent
  \/ collector.by = "user"

(* The plan and the report look the route up by this id, an application    *)
(* records it under the service's own.                                     *)
Recorded == "openobserve" \in capability.owned

RouteActive(probe) == Recorded \/ (capability.selected /\ probe.route)

(* The steps of the plan that are LocalLink's and not complete. *)
AutomaticPending(probe) ==
  \/ ~capability.enabled \/ ~capability.selected
  \/ capability.live /\ ~Recorded
  \/ ~backend.declared \/ ~contract
  \/ CredentialState(probe) \notin {"valid", "invalid"} /\ ~(backend.declared /\ password = 0)
  \/ ~backend.loopback
  \/ collector.by # "user" /\ ~Delivered(probe)
  \/ ~Healthy("backend", probe)

CanApply(probe) == AutomaticPending(probe) /\ ~Blocking(probe)

PlanState(probe) ==
  CASE Blocking(probe) -> "error"
    [] CanApply(probe) -> "ready-to-apply"
    [] ~Blocking(probe) /\ ~AutomaticPending(probe) ->
         IF ~RouteActive(probe) THEN "ready-to-route"
         ELSE IF Healthy("backend", probe) /\ CredentialState(probe) = "valid"
                 /\ Healthy("collector", probe) /\ CollectorConfigured
              THEN "healthy" ELSE "waiting-user"

(* observabilityRecord of lifecycle.ts decides once more, check by check,  *)
(* what the dashboard reports: first of the backend, then of the collector *)
(* and of the route.                                                       *)
BackendReport(probe) ==
  CASE ~backend.declared -> "waiting-configuration"
    [] backend.declared /\ ~backend.persistent -> "waiting-user"
    [] backend.persistent /\ CredentialState(probe) \in {"missing", "invalid"} -> "waiting-user"
    [] backend.persistent /\ CredentialState(probe) \in {"unverified", "valid"} ->
         IF ~running["backend"] THEN "installed"
         ELSE IF ~probe.backend THEN "error"
         ELSE IF CredentialState(probe) = "unverified" \/ ~backend.loopback
              THEN "waiting-configuration" ELSE "healthy"

CollectorReport(probe) ==
  CASE collector.by = "none" -> "waiting-configuration"
    [] collector.by = "user" -> "waiting-user"
    [] collector.by = "locallink" ->
         IF running["collector"] /\ ~probe.collector THEN "error"
         ELSE IF running["collector"] /\ CollectorConfigured /\ verified /\ Recorded
              THEN "healthy" ELSE "waiting-configuration"

Report(probe) ==
  IF ~capability.enabled THEN "available"
  ELSE IF BackendReport(probe) # "healthy" THEN BackendReport(probe) ELSE CollectorReport(probe)

-----------------------------------------------------------------------------
AfterThat(step) == apply' = step
Stops == apply' = "idle" /\ noted' = Nothing

Fails ==
  /\ Stops
  /\ cut' = (cut \/ (noted.changed /\ apply \notin {"check collector", "verify", "applied"}))

(* A mutant: a fresh service gets a fresh password. *)
PasswordForFresh(fresh) == IF fresh THEN applies + 2 ELSE password

(* The password of .env, or a generated one for a service that is not yet  *)
(* declared.                                                               *)
PasswordFor(fresh) ==
  IF password # 0 THEN password ELSE IF fresh THEN applies + 2 ELSE 0

(* apply: the plan may say no; without a password an existing data store   *)
(* is not touched.                                                         *)
BeginApply ==
  /\ apply = "idle" /\ applies < MaxApplies
  /\ applies' = applies + 1
  /\ \E probe \in Probes : CanApply(probe)
  /\ LET fresh == ~backend.declared IN
     IF PasswordFor(fresh) = 0
     THEN UNCHANGED <<apply, noted>>
     ELSE /\ noted' = [fresh |-> fresh, secure |-> backend.declared /\ ~backend.loopback,
                        writes |-> collector.by = "none" \/ collector.by = "locallink"
                                   \/ CollectorConfigured,
                        changed |-> FALSE, password |-> PasswordFor(fresh)]
          /\ AfterThat("env")
  /\ UNCHANGED <<diskVars, dockerVars, cut, edits>>

WriteEnv ==
  /\ apply = "env"
  /\ password' = noted.password
  /\ contract' = TRUE
  /\ AfterThat("backend")
  /\ UNCHANGED <<backend, collector, config, capability, verified, dockerVars, noted, cut, applies,
                 edits>>

(* The service is written when it is new or published beyond loopback, and *)
(* is named then.                                                          *)
WriteBackend ==
  /\ apply = "backend"
  /\ backend' = IF noted.fresh
                THEN [declared |-> TRUE, persistent |-> TRUE, loopback |-> TRUE, id |-> "openobserve"]
                ELSE IF noted.secure THEN [backend EXCEPT !.loopback = TRUE, !.id = "openobserve"]
                ELSE backend
  /\ AfterThat("config")
  /\ UNCHANGED <<collector, config, password, contract, capability, verified, dockerVars, noted,
                 cut, applies, edits>>

(* writeOtelCollectorConfig tells whether the file was another. *)
WriteCollectorConfig ==
  /\ apply = "config"
  /\ config' = "current"
  /\ noted' = [noted EXCEPT !.changed = config # "current"]
  /\ AfterThat("collector")
  /\ UNCHANGED <<backend, collector, password, contract, capability, verified, dockerVars, cut,
                 applies, edits>>

WriteCollector ==
  /\ apply = "collector"
  /\ collector' = IF noted.writes THEN [by |-> "locallink", contract |-> TRUE] ELSE collector
  /\ AfterThat("declare")
  /\ UNCHANGED <<backend, config, password, contract, capability, verified, dockerVars, noted,
                 cut, applies, edits>>

(* The declaration, the adoption of a route that is live, and the edge     *)
(* planner's selection, which may refuse.                                  *)
Declare ==
  /\ apply = "declare"
  /\ capability' = [capability EXCEPT !.enabled = TRUE,
                       !.owned = @ \cup {id \in {backend.id} : capability.live}]
  /\ AfterThat("select")
  /\ UNCHANGED <<backend, collector, config, password, contract, verified, dockerVars, noted, cut,
                 applies, edits>>

Select ==
  /\ apply = "select"
  /\ \/ /\ capability' = [capability EXCEPT !.selected = TRUE]
        /\ AfterThat("start backend")
        /\ UNCHANGED <<noted, cut>>
     \/ Fails /\ UNCHANGED capability
  /\ UNCHANGED <<backend, collector, config, password, contract, verified, dockerVars, applies, edits>>

-----------------------------------------------------------------------------
(* docker compose up -d: the container is started with what the files say, *)
(* docker-compose.yml, .env and the file it mounts; a new data volume is   *)
(* created with the configured password.                                   *)
UpBackend ==
  /\ running' = [running EXCEPT !["backend"] = TRUE]
  /\ loaded' = [loaded EXCEPT !["backend"] = [loopback |-> backend.loopback]]
  /\ account' = IF account = 0 THEN password ELSE account

(* The collector's service depends on the backend's, which comes with it. *)
UpCollector ==
  /\ running' = [n \in Names |-> TRUE]
  /\ loaded' = [backend |-> [loopback |-> backend.loopback],
                collector |-> [config |-> config, contract |-> collector.contract, key |-> password]]
  /\ account' = IF account = 0 THEN password ELSE account
  /\ cut' = FALSE

(* The command may fail with or without an effect.  A started service must *)
(* become healthy and take the saved credentials.                          *)
StartBackend ==
  /\ apply = "start backend"
  /\ \/ /\ ~running["backend"] \/ noted.secure
        /\ \/ UpBackend /\ AfterThat("check backend") /\ UNCHANGED <<noted, cut>>
           \/ UpBackend /\ Fails
           \/ Fails /\ UNCHANGED dockerVars
     \/ /\ running["backend"] /\ ~noted.secure
        /\ AfterThat("check backend")
        /\ UNCHANGED <<dockerVars, noted, cut>>
  /\ UNCHANGED <<diskVars, applies, edits>>

CheckBackend ==
  /\ apply = "check backend"
  /\ \E probe \in Probes :
       IF Healthy("backend", probe) /\ CredentialState(probe) = "valid"
       THEN AfterThat("start collector") /\ UNCHANGED <<noted, cut>>
       ELSE Fails
  /\ UNCHANGED <<diskVars, dockerVars, applies, edits>>

(* A mutant: a collector that runs and whose file is valid is left alone. *)
NeedsRestartIfInvalid == ~running["collector"] \/ ~CollectorConfigured

NeedsRestart == ~running["collector"] \/ ~CollectorConfigured \/ noted.changed

StartCollector ==
  /\ apply = "start collector"
  /\ \/ /\ NeedsRestart
        /\ \/ UpCollector /\ AfterThat("check collector") /\ UNCHANGED noted
           \/ UpCollector /\ Stops
           \/ Fails /\ UNCHANGED dockerVars
     \/ ~NeedsRestart /\ AfterThat("check collector") /\ UNCHANGED <<dockerVars, noted, cut>>
  /\ UNCHANGED <<diskVars, applies, edits>>

CheckCollector ==
  /\ apply = "check collector"
  /\ \/ /\ running["collector"] /\ CollectorConfigured
        /\ AfterThat("verify") /\ UNCHANGED <<noted, cut>>
     \/ Fails
  /\ UNCHANGED <<diskVars, dockerVars, applies, edits>>

(* A canary is sent through the collector and looked for in the backend:   *)
(* it can arrive only when the collector's own configuration forwards it   *)
(* with the key of the account; a container started from another contract  *)
(* may have a key and ports of its own.                                    *)
Arrives ==
  /\ running["collector"] /\ running["backend"]
  /\ loaded["collector"].config \in {"earlier", "current"}
  /\ loaded["collector"].contract => loaded["collector"].key = account

(* A mutant: the delivery is verified and not written down. *)
VerifyOnly ==
  /\ apply = "verify"
  /\ \/ Arrives /\ AfterThat("applied") /\ UNCHANGED <<noted, cut>>
     \/ Fails
  /\ UNCHANGED <<diskVars, dockerVars, applies, edits>>

VerifyDelivery ==
  /\ apply = "verify"
  /\ \/ /\ Arrives
        /\ verified' = TRUE
        /\ AfterThat("applied") /\ UNCHANGED <<noted, cut>>
     \/ Fails /\ UNCHANGED verified
  /\ UNCHANGED <<backend, collector, config, password, contract, capability, dockerVars, applies,
                 edits>>

Answered ==
  /\ apply = "applied"
  /\ Fails
  /\ UNCHANGED <<diskVars, dockerVars, applies, edits>>

-----------------------------------------------------------------------------
ApplyEnds ==
  /\ apply \notin {"idle", "applied"}
  /\ Fails
  /\ UNCHANGED <<diskVars, dockerVars, applies, edits>>

(* External: a container stops. *)
ContainerStops(n) ==
  /\ running[n] /\ edits < MaxEdits
  /\ running' = [running EXCEPT ![n] = FALSE]
  /\ edits' = edits + 1
  /\ UNCHANGED <<diskVars, account, loaded, runVars, applies>>

(* External: the user takes the service out of docker-compose.yml, whose   *)
(* volume stays; publishes its port; or loses .env.                        *)
UserEdits ==
  /\ apply = "idle" /\ edits < MaxEdits
  /\ edits' = edits + 1
  /\ \/ /\ backend' = NoBackend
        /\ running' = [running EXCEPT !["backend"] = FALSE]
        /\ UNCHANGED <<password, contract, loaded>>
     \/ /\ backend.declared
        /\ backend' = [backend EXCEPT !.loopback = FALSE]
        /\ loaded' = [loaded EXCEPT !["backend"] = [loopback |-> FALSE]]
        /\ UNCHANGED <<password, contract, running>>
     \/ /\ password' = 0 /\ contract' = FALSE
        /\ UNCHANGED <<backend, running, loaded>>
  /\ UNCHANGED <<collector, config, capability, verified, account, runVars, applies>>

ObservabilityNext ==
  \/ BeginApply \/ WriteEnv \/ WriteBackend \/ WriteCollectorConfig \/ WriteCollector
  \/ Declare \/ Select \/ StartBackend \/ CheckBackend \/ StartCollector \/ CheckCollector
  \/ VerifyDelivery \/ Answered \/ ApplyEnds \/ UserEdits
  \/ \E n \in Names : ContainerStops(n)

ObservabilitySpec == ObservabilityInit /\ [][ObservabilityNext]_obsVars

-----------------------------------------------------------------------------
(* README.md:252: the root account is never silently reset.  A password    *)
(* that opens the stored data is not replaced, whatever is missing around  *)
(* it: only the user takes it out of .env.                                 *)
AccountIsKept ==
  [][account # 0 /\ password = account => password' \in {account, 0}]_obsVars

(* observability-planner.ts:926-928: a service whose files were changed is *)
(* started again.  After an application that succeeded every container     *)
(* runs on what the files say, the collector on its configuration, its     *)
(* ports and its key, unless an earlier application was cut off between    *)
(* the write of the configuration and the restart: the next one finds that *)
(* file unchanged and leaves the container as it is.                       *)
WhatIsWrittenRuns ==
  apply = "applied" =>
    /\ (noted.fresh \/ noted.secure) /\ running["backend"] => loaded["backend"].loopback
    /\ running["collector"] /\ ~cut =>
         loaded["collector"] = [config |-> "current", contract |-> TRUE, key |-> password]

(* README.md:344: applying is idempotent.  After an application that       *)
(* succeeded a plan made while everything is up has nothing left to apply: *)
(* only the private route may still be the user's to confirm.  A live      *)
(* route of a service with another id is the exception: it is recorded     *)
(* under that id (observability-planner.ts:866-874) and looked up under    *)
(* LocalLink's (:331), so that its adoption stays pending.                 *)
AppliedPlanIsComplete ==
  apply = "applied" /\ running["backend"] /\ running["collector"]
  /\ (capability.live => backend.id = "openobserve") =>
    \A route \in BOOLEAN :
      PlanState([backend |-> TRUE, api |-> TRUE, collector |-> TRUE, route |-> route])
        \in {"ready-to-route", "healthy"}

(* The plan and the dashboard's report are decided by different code from  *)
(* the same detections: the plan never calls healthy what the report does  *)
(* not, in any state that files, containers and probes can be in, once the *)
(* route is recorded.  Before that the plan takes a live route for one     *)
(* (observability-planner.ts:346), the report does not                     *)
(* (lifecycle.ts:755-759).                                                 *)
ReportsAgree ==
  \A probe \in Probes : PlanState(probe) = "healthy" /\ Recorded => Report(probe) = "healthy"
=============================================================================
