--------------------------- MODULE AccessProfiles ---------------------------
(***************************************************************************)
(* Access profiles: AppContext.applyAccessProfileCaddy                     *)
(* (src/src/app-context.ts) plans the declared endpoints                   *)
(* (src/src/runtime/access-profiles.ts), merges their routes into the      *)
(* workspace's Caddyfile (src/src/runtime/caddy-runtime.ts) and reloads or *)
(* starts Caddy.  Private Edge writes a block of its own in the same file; *)
(* its transaction, detailed in PrivateEdgeCaddy, is one step here.        *)
(***************************************************************************)
EXTENDS Naturals

CONSTANTS
  Endpoints,       \* ids of declarations
  EndpointPorts,   \* ports of the services they lead to
  Appliers,        \* who applies: the HTTP server, the command line
  MaxDeclares,     \* bound: changes of the declarations
  MaxRuns,         \* bound: applications
  AccessFaults     \* "late": a command fails and takes effect all the same;
                   \* "edge": Private Edge acts in the middle of an application;
                   \* "absent": there is no Caddyfile at first

ASSUME AccessAssumption ==
  /\ MaxDeclares \in Nat /\ MaxRuns \in Nat
  /\ AccessFaults \subseteq {"late", "edge", "absent"}

VARIABLES
  endpoint,   \* the declaration of each endpoint
  caddyfile,  \* the workspace's Caddyfile
  caddyUp,    \* does Caddy run,
  served,     \* and with which routes of access profiles?
  edgeOwner,  \* Private Edge's record: has it routes, did it make the file?
  applying,   \* the application of each applier
  mayHold,    \* the routes the file is to hold: those of the last application
              \* answered, or of one that crashed since
  mayServe,   \* the same of Caddy, which a late command may have reloaded
  declares, runs

accessVars == <<endpoint, caddyfile, caddyUp, served, edgeOwner, applying,
                mayHold, mayServe, declares, runs>>

(* An endpoint is sound, blocked by a prerequisite (an invalid hostname, a *)
(* DNS record that is not ready), or lacks what a route is made of.        *)
(* "other" stands for tailscale-serve and direct endpoints.                *)
EndpointKinds == {"custom-domain", "lan-caddy", "tailscale-caddy", "other"}
Declared == [kind : EndpointKinds, shape : {"sound", "blocked", "unsound"}, port : EndpointPorts]
Undeclared == [kind |-> "other", shape |-> "unsound", port |-> 0]

(* What a Caddyfile holds: the user's text, Private Edge's block, and the  *)
(* two blocks of access profiles with the routes in them.                  *)
CaddyText(text, edge, blocks, routes) ==
  [text |-> text, edge |-> edge, blocks |-> blocks, routes |-> routes]
NoCaddyfile == CaddyText("absent", FALSE, FALSE, {})

Waiting == [stage |-> "idle", required |-> FALSE, profiles |-> {}, up |-> FALSE,
            previous |-> NoCaddyfile, merged |-> NoCaddyfile]

AccessInit ==
  /\ endpoint = [e \in Endpoints |-> Undeclared]
  /\ caddyfile \in {CaddyText("own", FALSE, FALSE, {})} \cup
       (IF "absent" \in AccessFaults THEN {NoCaddyfile} ELSE {})
  /\ caddyUp \in BOOLEAN /\ served = {}
  /\ edgeOwner = [routes |-> FALSE, existed |-> TRUE]
  /\ applying = [a \in Appliers |-> Waiting]
  /\ mayHold = {{}} /\ mayServe = {{}}
  /\ declares = 0 /\ runs = 0

-----------------------------------------------------------------------------
(* makePlan: an endpoint without a hostname, port, adapter or protocol has *)
(* no route, and blocks nothing.                                           *)
CaddyRequired(e) == endpoint[e].kind # "other" /\ endpoint[e].shape # "unsound"
Required == {e \in Endpoints : CaddyRequired(e)}
Blocked == \E e \in Required : endpoint[e].shape = "blocked"

(* caddyRouteBlock, for the two profiles renderAccessProfileCaddyfile has  *)
(* blocks for: the compatibility proxy of Tailscale is Private Edge's.     *)
PlannedRoutes ==
  {[id |-> e, kind |-> endpoint[e].kind, port |-> endpoint[e].port] :
     e \in {x \in Required : endpoint[x].kind # "tailscale-caddy"}}

(* A mutant: the generated file instead of the composed one. *)
MergeAll(previous, routes) == CaddyText("generated", FALSE, TRUE, routes)

(* mergeManagedCaddyfile: the two blocks, in place or at the end. *)
MergeManaged(previous, routes) ==
  CaddyText(IF previous.text \in {"absent", "empty"} THEN "generated" ELSE previous.text,
            previous.edge, TRUE, routes)

Applied(a, stage) == applying' = [applying EXCEPT ![a] = [@ EXCEPT !.stage = stage]]
Ended(a) == applying' = [applying EXCEPT ![a] = Waiting]
FileOnly == UNCHANGED <<endpoint, caddyUp, served, edgeOwner, mayHold, mayServe, declares, runs>>

(* The plan of every service with endpoints, and whether Caddy runs: a     *)
(* blocked route that needs Caddy refuses the whole, and without a route   *)
(* that needs it an application is for removing the blocks.                *)
PlanAccess(a) ==
  /\ applying[a].stage = "idle" /\ runs < MaxRuns
  /\ runs' = runs + 1
  /\ applying' = IF Blocked THEN applying
                 ELSE [applying EXCEPT ![a] =
                        [Waiting EXCEPT !.stage = "planned", !.required = (Required # {}),
                                        !.profiles = PlannedRoutes, !.up = caddyUp]]
  /\ UNCHANGED <<endpoint, caddyfile, caddyUp, served, edgeOwner, mayHold, mayServe, declares>>

(* previous is read, merged and written to the generated file.             *)
ReadCaddyfile(a) ==
  /\ applying[a].stage = "planned"
  /\ IF caddyfile.blocks \/ applying[a].required
     THEN applying' = [applying EXCEPT ![a] =
            [@ EXCEPT !.stage = "merged", !.previous = caddyfile,
                      !.merged = MergeManaged(caddyfile, applying[a].profiles)]]
     ELSE Ended(a)
  /\ UNCHANGED caddyfile /\ FileOnly

(* caddy validate accepts it, or rejects it: two addresses may be one. *)
ValidateAccess(a) ==
  /\ applying[a].stage = "merged"
  /\ Applied(a, "valid") \/ Ended(a)
  /\ UNCHANGED caddyfile /\ FileOnly

(* writeWorkspaceCaddyfile: written aside and renamed, or it fails.        *)
WriteCaddyfile(a) ==
  /\ applying[a].stage = "valid"
  /\ \/ caddyfile' = applying[a].merged /\ Applied(a, "written")
     \/ UNCHANGED caddyfile /\ Applied(a, "failed")
  /\ FileOnly

(* Caddy, as it was found, is reloaded or started with the file as it is:  *)
(* compose exec fails if it has stopped, compose up leaves one that runs.  *)
Loads(a) == IF applying[a].up THEN caddyUp ELSE ~caddyUp

Loaded(a) ==
  /\ caddyUp' = (caddyUp \/ ~applying[a].up)
  /\ served' = IF Loads(a) THEN caddyfile.routes ELSE served

ReloadCaddy(a) ==
  /\ applying[a].stage = "written"
  /\ \/ /\ applying[a].up => caddyUp
        /\ Loaded(a) /\ Ended(a)
        /\ mayHold' = {applying[a].merged.routes}
        /\ mayServe' = IF Loads(a) THEN mayHold' ELSE mayServe \cup mayHold'
     \/ UNCHANGED <<caddyUp, served, mayHold, mayServe>> /\ Applied(a, "failed")
     \/ /\ "late" \in AccessFaults /\ Loaded(a)
        /\ Applied(a, "failed")
        /\ mayServe' = mayServe \cup {served'} /\ UNCHANGED mayHold
  /\ UNCHANGED <<endpoint, caddyfile, edgeOwner, declares, runs>>

(* The catch clause: the file as it was read. *)
RestoreCaddyfile(a) ==
  /\ applying[a].stage = "failed"
  /\ caddyfile' = IF applying[a].previous.text = "absent"
                  THEN [applying[a].previous EXCEPT !.text = "empty"] ELSE applying[a].previous
  /\ Ended(a) /\ FileOnly

(* The control plane dies within an application, which leaves the file     *)
(* either way.                                                             *)
CrashApplying(a) ==
  /\ applying[a].stage # "idle"
  /\ Ended(a)
  /\ mayHold' = mayHold \cup {caddyfile.routes}
  /\ UNCHANGED <<endpoint, caddyfile, caddyUp, served, edgeOwner, mayServe, declares, runs>>

-----------------------------------------------------------------------------
Undisturbed == (\A a \in Appliers : applying[a].stage = "idle") \/ "edge" \in AccessFaults

(* Private Edge applies its routes: its block is merged, Caddy started or  *)
(* reloaded.                                                               *)
EdgeApplies ==
  /\ Undisturbed /\ ~edgeOwner.routes
  /\ caddyfile' = [caddyfile EXCEPT !.edge = TRUE, !.text = IF @ \in {"absent", "empty"} THEN "generated" ELSE @]
  /\ edgeOwner' = [routes |-> TRUE, existed |-> caddyfile.text # "absent"]
  /\ caddyUp' = TRUE /\ served' = caddyfile.routes
  /\ mayServe' = mayServe \cup mayHold
  /\ UNCHANGED <<endpoint, applying, mayHold, declares, runs>>

(* Private Edge removes its last route: its block goes, or the backup      *)
(* comes back when no other block is left; Caddy is reloaded, and stopped  *)
(* if Private Edge has started it.  A file it has made is removed.         *)
EdgeRemoves(stops) ==
  /\ Undisturbed /\ edgeOwner.routes
  /\ edgeOwner' = [routes |-> FALSE, existed |-> TRUE]
  /\ caddyfile' = IF ~edgeOwner.existed /\ (stops \/ ~caddyUp) THEN NoCaddyfile
                  ELSE [caddyfile EXCEPT !.edge = FALSE]
  /\ caddyUp' = (caddyUp /\ ~stops)
  /\ served' = caddyfile.routes
  /\ mayServe' = mayServe \cup mayHold
  /\ UNCHANGED <<endpoint, applying, mayHold, declares, runs>>

(* External: the user changes a declaration, and starts and stops Caddy.   *)
(* Started halfway through an application it may serve what that writes.   *)
UserDeclares(e) ==
  /\ declares < MaxDeclares /\ declares' = declares + 1
  /\ \E d \in Declared \cup {Undeclared} : endpoint' = [endpoint EXCEPT ![e] = d]
  /\ UNCHANGED <<caddyfile, caddyUp, served, edgeOwner, applying, mayHold, mayServe, runs>>

UserTurnsCaddy ==
  /\ caddyUp' = ~caddyUp
  /\ served' = IF caddyUp THEN served ELSE caddyfile.routes
  /\ mayServe' = IF caddyUp THEN mayServe ELSE mayServe \cup {caddyfile.routes}
  /\ UNCHANGED <<endpoint, caddyfile, edgeOwner, applying, mayHold, declares, runs>>

AccessNext ==
  \/ \E a \in Appliers :
       \/ PlanAccess(a) \/ ReadCaddyfile(a) \/ ValidateAccess(a) \/ WriteCaddyfile(a)
       \/ ReloadCaddy(a) \/ RestoreCaddyfile(a) \/ CrashApplying(a)
  \/ EdgeApplies \/ \E stops \in BOOLEAN : EdgeRemoves(stops)
  \/ (\E e \in Endpoints : UserDeclares(e)) \/ UserTurnsCaddy

AccessSpec == AccessInit /\ [][AccessNext]_accessVars

-----------------------------------------------------------------------------
(* Between applications the file has the routes of the last answered one   *)
(* and no other, whatever the refused, failed and crashed ones did and     *)
(* Private Edge added and removed meanwhile; Private Edge's block and the  *)
(* user's text are still there; and Caddy serves no other routes either,   *)
(* once it has been reloaded.                                              *)
AccessRoutesKept ==
  /\ (\A a \in Appliers : applying[a].stage = "idle") =>
       /\ caddyfile.routes \in mayHold
       /\ caddyfile.edge = edgeOwner.routes
       /\ "absent" \notin AccessFaults => caddyfile.text = "own"
  /\ caddyUp => served \in mayServe
=============================================================================
