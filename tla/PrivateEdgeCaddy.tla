-------------------------- MODULE PrivateEdgeCaddy --------------------------
(***************************************************************************)
(* Private Edge with the tailscale-caddy adapter: the transaction of       *)
(* ExtensionPlanner.applyRoutes and reconcileRoutes                        *)
(* (src/extensions/planner.ts) over a workspace's Caddyfile, the Serve     *)
(* configuration of its Tailscale sidecar, their backups, the two Compose  *)
(* services and the runtime ownership record of the workspace state.       *)
(*                                                                         *)
(* One attempt runs at a time; its steps end where a command or a durable  *)
(* write is awaited, and the process may die after each.  How listeners    *)
(* conflict and how an attempt is confirmed is in PrivateEdgeRoutes: here  *)
(* nobody else uses the listeners, and a token stands for its plan.        *)
(***************************************************************************)
EXTENDS Naturals, FiniteSets

CONSTANTS
  Services,  \* the services with a declared port
  Sidecar,   \* is Tailscale a Compose service too, or the host's CLI?
  Watched,   \* does the sidecar mount its configuration's directory and watch it?
  MaxTries,  \* the bound on the number of attempts
  Faults     \* what may go wrong besides a failing command, see below

(* "late":  docker compose up or stop times out and takes effect all the same *)
(* "plan":  the plan that ends a reconciliation throws                        *)
(* "probe": docker compose ps fails, which reads as a Caddy that is down      *)
(* "crash": the LocalLink process ends                                        *)
(* "stop":  the user stops a Compose service                                  *)
ASSUME CaddyAssumption ==
  /\ Services # {}
  /\ Sidecar \in BOOLEAN /\ Watched \in BOOLEAN
  /\ MaxTries \in Nat
  /\ Faults \subseteq {"late", "plan", "probe", "crash", "stop"}

VARIABLES
  file,      \* the configuration file of each part
  running,   \* is the Compose service of each part up?
  live,      \* services whose listener Tailscale serves
  loaded,    \* services the running Caddy proxies
  backup,    \* the backup of each file
  runtime,   \* privateEdgeRuntime of the workspace state
  owned,     \* privateEdgeRoutes of the workspace state
  selected,  \* exposedPorts of the network-edge declaration
  at,        \* the attempt's stage and the part it is at
  before,    \* what the attempt's plan saw
  done,      \* services its route commands succeeded for; later, those it cannot roll back
  changed,   \* parts whose file it has written
  begun,     \* parts it has started, or, when it applies, tried to
  stopped,   \* parts it has stopped
  broken,    \* caddy/tailscaleRollbackFailure, ...RestoreFailure
  result,    \* how the last attempt ended; "undone": it failed and claims to have restored all
  starter,   \* who started each part that is up
  clean,     \* no crash and no failing rollback so far
  tries      \* attempts so far

host == <<file, running, live, loaded, starter>>
state == <<backup, runtime, owned>>
job == <<before, done, changed, begun, stopped, broken, tries>>
vars == <<file, running, live, loaded, backup, runtime, owned, selected, at, before,
          done, changed, begun, stopped, broken, result, starter, clean, tries>>

Parts == IF Sidecar THEN {"caddy", "tailscale"} ELSE {"caddy"}

(* What a file holds: the user's text, LocalLink's routes (the managed     *)
(* block of a Caddyfile, the listeners of a Serve configuration), and the  *)
(* managed blocks of access profiles.                                      *)
Content == [text : {"absent", "empty", "own", "generated"},
            edge : SUBSET Services, access : BOOLEAN]

Blank == [text |-> "empty", edge |-> {}, access |-> FALSE]
Absent == [Blank EXCEPT !.text = "absent"]

(* What is read, with an absent file read as ''. *)
Text(c) == IF c.text = "absent" THEN Blank ELSE c

(* mergeManagedCaddyfile and buildManagedTailscaleServeConfig: our routes  *)
(* become these, the rest stays.                                           *)
Merge(c, services) ==
  [c EXCEPT !.edge = services, !.text = IF @ \in {"absent", "empty"} THEN "generated" ELSE @]

None == [status |-> "none", existed |-> [p \in Parts |-> FALSE], started |-> [p \in Parts |-> FALSE]]

Runtime == [status : {"none", "applying", "active", "rollback-failed"},
            existed : [Parts -> BOOLEAN], started : [Parts -> BOOLEAN]]

Stages == {"validate", "backup", "own", "write", "start", "reload", "publish", "verify",
           "record", "activate", "unpublish", "put back", "bring back", "settle",
           "blame", "adopt", "r-start", "r-off", "r-verify", "r-validate", "r-own", "r-write", "r-restart",
           "r-reload", "r-stop", "r-drop", "r-clear", "r-tidy", "r-activate", "r-forget", "r-plan",
           "r-put back", "r-bring back", "r-republish"}

At == {<<"idle", "caddy">>} \cup (Stages \X {"caddy", "tailscale"})

Before == [file : [Parts -> Content], running : [Parts -> BOOLEAN], runtime : Runtime,
           selected : SUBSET Services, todo : SUBSET Services, stale : SUBSET Services]

TypeOK ==
  /\ file \in [Parts -> Content]
  /\ running \in [Parts -> BOOLEAN]
  /\ live \in SUBSET Services /\ loaded \in SUBSET Services
  /\ backup \in [Parts -> Content]
  /\ runtime \in Runtime
  /\ owned \in SUBSET Services /\ selected \in SUBSET Services
  /\ at \in At
  /\ before \in Before
  /\ done \in SUBSET Services
  /\ changed \in SUBSET Parts /\ begun \in SUBSET Parts
  /\ stopped \in SUBSET Parts /\ broken \in SUBSET Parts
  /\ result \in {"none", "applied", "reconciled", "undone", "broken"}
  /\ starter \in [Parts -> {"user", "locallink"}]
  /\ clean \in BOOLEAN
  /\ tries \in 0 .. MaxTries

NoPlan == [file |-> [p \in Parts |-> Absent], running |-> [p \in Parts |-> FALSE],
           runtime |-> None, selected |-> {}, todo |-> {}, stale |-> {}]

Init ==
  /\ file \in [Parts -> {c \in Content : c.edge = {} /\ c.text \in {"absent", "own"}}]
  /\ \A p \in Parts : file[p].access => p = "caddy" /\ file[p].text = "own"
  /\ running \in [Parts -> BOOLEAN]
  /\ live = {} /\ loaded = {}
  /\ backup = [p \in Parts |-> Absent]
  /\ runtime = None
  /\ owned = {}
  /\ selected \in SUBSET Services
  /\ at = <<"idle", "caddy">>
  /\ before = NoPlan
  /\ done = {} /\ changed = {} /\ begun = {} /\ stopped = {} /\ broken = {}
  /\ result = "none"
  /\ starter = [p \in Parts |-> "user"]
  /\ clean = TRUE
  /\ tries = 0

-----------------------------------------------------------------------------
(* The read-only plan.  A stopped sidecar serves nothing; its Serve        *)
(* configuration stands in for its listeners when removals are planned.    *)
Connected == Sidecar => running["tailscale"]
Missing == selected \ live
Stale == owned \ selected
Active == Stale \cap (IF Connected THEN live ELSE file["tailscale"].edge)

Go(stage, p) == at' = <<stage, p>>

(* First the one part and then the other, then the next stage. *)
CaddyFirst(p, stage, next) ==
  IF p = "caddy" /\ Sidecar THEN Go(stage, "tailscale") ELSE at' = next

(* The services that docker compose ps finds running. *)
Probes ==
  {running} \cup (IF "probe" \in Faults THEN {[running EXCEPT !["caddy"] = FALSE]} ELSE {})

Plan(todo) ==
  /\ \E up \in Probes :
       before' = [file |-> file, running |-> up, runtime |-> runtime,
                  selected |-> selected, todo |-> todo, stale |-> Stale]
  /\ result' = "none"
  /\ tries < MaxTries /\ tries' = tries + 1
  /\ UNCHANGED <<host, state, selected, done, changed, begun, stopped, broken, clean>>

Report(r) ==
  /\ at' = <<"idle", "caddy">>
  /\ result' = r
  /\ before' = NoPlan
  /\ done' = {} /\ changed' = {} /\ begun' = {} /\ stopped' = {} /\ broken' = {}
  /\ UNCHANGED tries

(* What a command does, and what its caller sees of it. *)
Outcomes == {"ok", "fail"} \cup ({"late"} \cap Faults)

(* docker compose up -d, which does nothing to a service that is up: the   *)
(* sidecar serves what its configuration says.                             *)
Up(p, outcome) ==
  IF outcome = "fail" \/ running[p] THEN UNCHANGED host
  ELSE /\ running' = [running EXCEPT ![p] = TRUE]
       /\ starter' = [starter EXCEPT ![p] = "locallink"]
       /\ IF p = "tailscale"
          THEN live' = file[p].edge /\ UNCHANGED loaded
          ELSE loaded' = file[p].edge /\ UNCHANGED live
       /\ UNCHANGED file

(* docker compose stop *)
Down(p, outcome) ==
  IF outcome = "fail" THEN UNCHANGED host
  ELSE /\ running' = [running EXCEPT ![p] = FALSE]
       /\ IF p = "tailscale" THEN live' = {} /\ UNCHANGED loaded
                             ELSE loaded' = {} /\ UNCHANGED live
       /\ starter' = [starter EXCEPT ![p] = "user"]
       /\ UNCHANGED file

(* writeWorkspaceCaddyfile.  A running sidecar that watches its             *)
(* configuration serves it at once.                                        *)
Write(p, c) ==
  /\ file' = [file EXCEPT ![p] = c]
  /\ live' = IF p = "tailscale" /\ running[p] /\ Watched THEN c.edge ELSE live
  /\ UNCHANGED <<running, loaded, starter>>

-----------------------------------------------------------------------------
(* applyRoutes *)
ApplyRoutes ==
  /\ at[1] = "idle"
  /\ selected # {} /\ Stale = {} /\ Missing # {}
  /\ Plan(Missing)
  /\ Go("validate", "caddy")

(* A plan that is in sync completes a transaction that was cut short. *)
AdoptRoutes ==
  /\ at[1] = "idle"
  /\ selected # {} /\ Stale = {} /\ Missing = {} /\ Connected
  /\ runtime.status \in {"applying", "rollback-failed"}
  /\ Plan({})
  /\ Go("adopt", "caddy")

Adopt ==
  /\ at[1] = "adopt"
  /\ owned' = owned \cup before.selected
  /\ Go("activate", "caddy")
  /\ UNCHANGED <<host, backup, runtime, selected, job, result, clean>>

(* A mutant: the backup is made anew by every attempt. *)
ValidateAfresh ==
  /\ at[1] = "validate"
  /\ Go("backup", "caddy") \/ Go("unpublish", "caddy")
  /\ UNCHANGED <<host, state, selected, job, result, clean>>

(* caddy validate of the generated file; the original files are backed up  *)
(* unless a record says that they are already.                             *)
Validate ==
  /\ at[1] = "validate"
  /\ \/ Go(IF runtime = None THEN "backup" ELSE "own", "caddy")
     \/ Go("unpublish", "caddy")
  /\ UNCHANGED <<host, state, selected, job, result, clean>>

Backup(p) ==
  /\ at = <<"backup", p>>
  /\ backup' = [backup EXCEPT ![p] = Text(file[p])]
  /\ CaddyFirst(p, "backup", <<"own", "caddy">>)
  /\ UNCHANGED <<host, runtime, owned, selected, job, result, clean>>

(* The record is durable before the first file changes. *)
Own ==
  /\ at[1] = "own"
  /\ runtime' = [status |-> "applying",
                 existed |-> IF runtime = None THEN [p \in Parts |-> file[p].text # "absent"]
                             ELSE runtime.existed,
                 started |-> [p \in Parts |-> runtime.started[p] \/ ~before.running[p]]]
  /\ Go("write", "caddy")
  /\ UNCHANGED <<host, backup, owned, selected, job, result, clean>>

(* A mutant: only the missing routes get a proxy. *)
WriteMissing(p) ==
  /\ at = <<"write", p>>
  /\ IF p = "caddy" THEN Write(p, Merge(Text(file[p]), before.todo))
     ELSE Write(p, Merge(Text(before.file[p]), before.file[p].edge \cup before.selected))
  /\ changed' = changed \cup {p}
  /\ CaddyFirst(p, "write", <<"start", IF Sidecar THEN "tailscale" ELSE "caddy">>)
  /\ UNCHANGED <<state, selected, before, done, begun, stopped, broken, result, clean, tries>>

(* The Caddyfile is merged with what is there now; the Serve configuration *)
(* was merged when the plan was made.                                      *)
WriteConfig(p) ==
  /\ at = <<"write", p>>
  /\ IF p = "caddy" THEN Write(p, Merge(Text(file[p]), before.selected))
     ELSE Write(p, Merge(Text(before.file[p]), before.file[p].edge \cup before.selected))
  /\ changed' = changed \cup {p}
  /\ CaddyFirst(p, "write", <<"start", IF Sidecar THEN "tailscale" ELSE "caddy">>)
  /\ UNCHANGED <<state, selected, before, done, begun, stopped, broken, result, clean, tries>>

Start(p) ==
  /\ at = <<"start", p>>
  /\ LET next == IF p = "tailscale" THEN <<"start", "caddy">> ELSE <<"reload", "caddy">> IN
     IF before.running[p] THEN at' = next /\ UNCHANGED <<host, begun>>
     ELSE \E outcome \in Outcomes :
            /\ Up(p, outcome)
            /\ begun' = begun \cup {p}
            /\ IF outcome = "ok" THEN at' = next ELSE Go("unpublish", "caddy")
  /\ UNCHANGED <<state, selected, before, done, changed, stopped, broken, result, clean, tries>>

Reload ==
  /\ at[1] = "reload"
  /\ \/ running["caddy"] /\ loaded' = file["caddy"].edge /\ Go("publish", "caddy")
     \/ Go("unpublish", "caddy") /\ UNCHANGED loaded
  /\ UNCHANGED <<file, running, live, starter, state, selected, job, result, clean>>

(* tailscale serve for every missing route, until one fails. *)
Publish ==
  /\ at[1] = "publish"
  /\ \E some \in SUBSET before.todo :
       /\ Connected \/ some = {}
       /\ live' = live \cup some
       /\ done' = some
       /\ Go(IF some = before.todo THEN "verify" ELSE "unpublish", "caddy")
  /\ UNCHANGED <<file, running, loaded, starter, state, selected, before, changed, begun,
                 stopped, broken, result, clean, tries>>

(* The plan must be in sync, for what is selected now; it may also throw. *)
Verify ==
  /\ at[1] = "verify"
  /\ \/ selected # {} /\ Missing = {} /\ Go("record", "caddy")
     \/ Go("unpublish", "caddy")
  /\ UNCHANGED <<host, state, selected, job, result, clean>>

Record ==
  /\ at[1] = "record"
  /\ owned' = owned \cup done
  /\ Go("activate", "caddy")
  /\ UNCHANGED <<host, backup, runtime, selected, job, result, clean>>

(* A mutant: a status the record does not have. *)
ActivateApplied ==
  /\ at[1] = "activate"
  /\ runtime' = [runtime EXCEPT !.status = "applied"]
  /\ Report("applied")
  /\ UNCHANGED <<host, backup, owned, selected, clean>>

Activate ==
  /\ at[1] = "activate"
  /\ runtime' = [runtime EXCEPT !.status = "active"]
  /\ Report("applied")
  /\ UNCHANGED <<host, backup, owned, selected, clean>>

-----------------------------------------------------------------------------
(* The catch block of applyRoutes.  Every route of the attempt is looked   *)
(* at once the Serve configuration has changed: a watching sidecar may     *)
(* serve them all.  Routes that stay are kept in done.                     *)
Unpublish ==
  /\ at[1] = "unpublish"
  /\ LET listed == live \cap (IF "tailscale" \in changed THEN before.todo ELSE done) IN
     \E some \in SUBSET listed :
       live' = live \ some /\ done' = listed \ some
  /\ Go("put back", "caddy")
  /\ UNCHANGED <<file, running, loaded, starter, state, selected, before, changed, begun,
                 stopped, broken, result, clean, tries>>

(* A mutant: the original backup is put back, not what was there before. *)
PutBackBackup(p) ==
  /\ at = <<"put back", p>>
  /\ IF p \in changed
     THEN /\ Write(p, IF p = "caddy" THEN Text(backup[p]) ELSE before.file[p])
          /\ Go("bring back", p)
     ELSE CaddyFirst(p, "put back", <<"settle", "caddy">>) /\ UNCHANGED host
  /\ UNCHANGED <<state, selected, job, result, clean>>

(* An absent Serve configuration is removed right away, an absent          *)
(* Caddyfile after the command.                                            *)
PutBack(p) ==
  /\ at = <<"put back", p>>
  /\ IF p \in changed
     THEN /\ Write(p, IF p = "caddy" THEN Text(before.file[p]) ELSE before.file[p])
          /\ Go("bring back", p)
     ELSE CaddyFirst(p, "put back", <<"settle", "caddy">>) /\ UNCHANGED host
  /\ UNCHANGED <<state, selected, job, result, clean>>

(* Caddy reloads if it was running; a part this attempt tried to start is  *)
(* stopped.                                                                *)
BringBack(p) ==
  /\ at = <<"bring back", p>>
  /\ \/ /\ running' = [running EXCEPT ![p] = @ /\ p \notin begun]
        /\ before.running[p] => running[p]
        /\ loaded' = IF p # "caddy" THEN loaded ELSE IF running'[p] THEN file[p].edge ELSE {}
        /\ live' = IF p = "tailscale" /\ ~running'[p] THEN {} ELSE live
        /\ file' = [file EXCEPT ![p] = IF before.file[p].text = "absent" THEN Absent ELSE @]
        /\ starter' = [starter EXCEPT ![p] = IF running'[p] THEN @ ELSE "user"]
        /\ UNCHANGED broken
     \/ /\ p \in begun \/ (p = "caddy" /\ before.running[p])
        /\ IF p \in begun THEN \E outcome \in Outcomes \ {"ok"} : Down(p, outcome)
                          ELSE UNCHANGED host
        /\ broken' = broken \cup {p}
  /\ CaddyFirst(p, "put back", <<"settle", "caddy">>)
  /\ UNCHANGED <<state, selected, before, done, changed, begun, stopped, result, clean, tries>>

(* The record becomes what it was before, or says that the rollback failed. *)
Settle ==
  /\ at[1] = "settle"
  /\ runtime' = IF changed = {} THEN runtime
                ELSE IF broken # {} THEN [runtime EXCEPT !.status = "rollback-failed"]
                ELSE before.runtime
  /\ Go("blame", "caddy")
  /\ UNCHANGED <<host, backup, owned, selected, job, result, clean>>

Blame ==
  /\ at[1] = "blame"
  /\ owned' = owned \cup done
  /\ Report(IF broken = {} THEN "undone" ELSE "broken")
  /\ clean' = (clean /\ broken = {} /\ done = {})
  /\ UNCHANGED <<host, backup, runtime, selected>>

-----------------------------------------------------------------------------
(* reconcileRoutes.  A final removal leaves no route. *)
Final == before.selected = {}

GiveUp == Go("r-put back", "caddy")

ReconcileRoutes ==
  /\ at[1] = "idle"
  /\ Stale # {}
  /\ Plan(Active)
  /\ Go(IF Active # {} /\ ~Connected THEN "r-start" ELSE "r-off", "tailscale")

StartSidecar ==
  /\ at[1] = "r-start"
  /\ \/ /\ runtime # None
        /\ \E outcome \in Outcomes :
             /\ Up("tailscale", outcome)
             /\ IF outcome = "ok" THEN Go("r-off", "caddy") /\ begun' = begun \cup {"tailscale"}
                                  ELSE GiveUp /\ UNCHANGED begun
     \/ runtime = None /\ GiveUp /\ UNCHANGED <<host, begun>>
  /\ UNCHANGED <<state, selected, before, done, changed, stopped, broken, result, clean, tries>>

(* tailscale serve off for every active stale route, until one fails. *)
RemoveRoutes ==
  /\ at[1] = "r-off"
  /\ \E some \in SUBSET before.todo :
       /\ live' = live \ some
       /\ done' = some
       /\ IF some = before.todo THEN Go("r-verify", "caddy") ELSE GiveUp
  /\ UNCHANGED <<file, running, loaded, starter, state, selected, before, changed, begun,
                 stopped, broken, result, clean, tries>>

VerifyRemoved ==
  /\ at[1] = "r-verify"
  /\ \/ Active = {} /\ Go("r-validate", "caddy")
     \/ GiveUp
  /\ UNCHANGED <<host, state, selected, job, result, clean>>

(* The record and, for a final removal, the backup must be there, and      *)
(* Caddy must accept the new file.                                         *)
ValidateRemoval ==
  /\ at[1] = "r-validate"
  /\ \/ before.runtime # None /\ (Final => backup["caddy"] # Absent) /\ Go("r-own", "caddy")
     \/ GiveUp
  /\ UNCHANGED <<host, state, selected, job, result, clean>>

OwnRemoval ==
  /\ at[1] = "r-own"
  /\ runtime' = [before.runtime EXCEPT !.status = "applying"]
  /\ Go("r-write", "caddy")
  /\ UNCHANGED <<host, backup, owned, selected, job, result, clean>>

(* A final removal puts the backup back, unless access profiles have       *)
(* managed blocks of their own in the Caddyfile.                           *)
Remaining(p) ==
  LET rest == [Text(file[p]) EXCEPT !.edge = {}] IN
  IF p = "caddy"
  THEN IF ~Final THEN Merge(Text(file[p]), before.selected)
       ELSE IF rest.access THEN rest ELSE backup[p]
  ELSE IF Final THEN backup[p] ELSE Merge(backup[p], before.selected \ before.stale)

WriteRemoval(p) ==
  /\ at = <<"r-write", p>>
  /\ \/ /\ p = "caddy" \/ backup[p] # Absent
        /\ Write(p, Remaining(p))
        /\ changed' = changed \cup {p}
        /\ CaddyFirst(p, "r-write", <<"r-restart", IF Sidecar THEN "tailscale" ELSE "caddy">>)
     \/ p = "tailscale" /\ backup[p] = Absent /\ GiveUp /\ UNCHANGED <<host, changed>>
  /\ UNCHANGED <<state, selected, before, done, begun, stopped, broken, result, clean, tries>>

Restart(p) ==
  /\ at = <<"r-restart", p>>
  /\ LET next == IF p = "tailscale" THEN <<"r-restart", "caddy">> ELSE <<"r-reload", "caddy">> IN
     IF before.running[p] \/ p \in begun \/ Final THEN at' = next /\ UNCHANGED <<host, begun>>
     ELSE \E outcome \in Outcomes :
            /\ Up(p, outcome)
            /\ IF outcome = "ok" THEN at' = next /\ begun' = begun \cup {p}
                                 ELSE GiveUp /\ UNCHANGED begun
  /\ UNCHANGED <<state, selected, before, done, changed, stopped, broken, result, clean, tries>>

ReloadRemoval ==
  /\ at[1] = "r-reload"
  /\ \/ /\ before.running["caddy"] \/ "caddy" \in begun
        /\ \/ running["caddy"] /\ loaded' = file["caddy"].edge /\ Go("r-stop", "caddy")
           \/ GiveUp /\ UNCHANGED loaded
     \/ ~before.running["caddy"] /\ "caddy" \notin begun /\ Go("r-stop", "caddy") /\ UNCHANGED loaded
  /\ UNCHANGED <<file, running, live, starter, state, selected, job, result, clean>>

(* A mutant: a final removal stops both services. *)
StopAll(p) ==
  /\ at = <<"r-stop", p>>
  /\ LET next == <<IF Final THEN "r-drop" ELSE "r-activate", "caddy">> IN
     IF Final /\ running[p]
     THEN \E outcome \in Outcomes :
            /\ Down(p, outcome)
            /\ IF outcome = "ok" THEN stopped' = stopped \cup {p} /\ CaddyFirst(p, "r-stop", next)
                                 ELSE GiveUp /\ UNCHANGED stopped
     ELSE CaddyFirst(p, "r-stop", next) /\ UNCHANGED <<host, stopped>>
  /\ UNCHANGED <<state, selected, before, done, changed, begun, broken, result, clean, tries>>

(* A final removal stops what LocalLink has started. *)
Stop(p) ==
  /\ at = <<"r-stop", p>>
  /\ LET next == <<IF Final THEN "r-drop" ELSE "r-activate", "caddy">>
         due == /\ Final /\ before.runtime.started[p]
                /\ before.running[p] \/ (p = "tailscale" /\ p \in begun)
     IN IF due
        THEN \E outcome \in Outcomes :
               /\ Down(p, outcome)
               /\ IF outcome = "ok" THEN stopped' = stopped \cup {p} /\ CaddyFirst(p, "r-stop", next)
                                    ELSE GiveUp /\ UNCHANGED stopped
        ELSE CaddyFirst(p, "r-stop", next) /\ UNCHANGED <<host, stopped>>
  /\ UNCHANGED <<state, selected, before, done, changed, begun, broken, result, clean, tries>>

(* The file goes if there was none and nothing uses it. *)
Unused(p) == ~before.runtime.existed[p] /\ (p \in stopped \/ ~before.running[p])

Drop ==
  /\ at[1] = "r-drop"
  /\ file' = [file EXCEPT !["caddy"] = IF Unused("caddy") THEN Absent ELSE @]
  /\ Go("r-clear", "caddy")
  /\ UNCHANGED <<running, live, loaded, starter, state, selected, job, result, clean>>

(* clearPrivateEdgeRuntime *)
Clear ==
  /\ at[1] = "r-clear"
  /\ runtime' = None
  /\ Go("r-tidy", "caddy")
  /\ UNCHANGED <<host, backup, owned, selected, job, result, clean>>

(* The backups go, and the Serve configuration if it is unused. *)
Tidy ==
  /\ at[1] = "r-tidy"
  /\ backup' = [p \in Parts |-> Absent]
  /\ file' = [p \in Parts |-> IF p = "tailscale" /\ Unused(p) THEN Absent ELSE file[p]]
  /\ Go("r-forget", "caddy")
  /\ UNCHANGED <<running, live, loaded, starter, runtime, owned, selected, job, result, clean>>

ActivateRemoval ==
  /\ at[1] = "r-activate"
  /\ runtime' = [before.runtime EXCEPT !.status = "active",
                                       !.started = [p \in Parts |-> @[p] \/ p \in begun]]
  /\ Go("r-forget", "caddy")
  /\ UNCHANGED <<host, backup, owned, selected, job, result, clean>>

Forget ==
  /\ at[1] = "r-forget"
  /\ owned' = owned \ before.stale
  /\ Go("r-plan", "caddy")
  /\ UNCHANGED <<host, backup, runtime, selected, job, result, clean>>

(* The answer holds a new plan, made inside the try block. *)
PlanAgain ==
  /\ at[1] = "r-plan"
  /\ \/ Report("reconciled")
     \/ "plan" \in Faults /\ GiveUp /\ UNCHANGED <<job, result>>
  /\ UNCHANGED <<host, state, selected, clean>>

-----------------------------------------------------------------------------
(* The catch block of reconcileRoutes. *)
RestoreFile(p) ==
  /\ at = <<"r-put back", p>>
  /\ IF p \in changed THEN Write(p, Text(before.file[p])) ELSE UNCHANGED host
  /\ IF p \in changed \cup (begun \cap {"tailscale"})
     THEN Go("r-bring back", p) /\ UNCHANGED runtime
     ELSE /\ CaddyFirst(p, "r-put back", <<"r-republish", "caddy">>)
          /\ runtime' = IF p = "caddy" THEN before.runtime ELSE runtime
  /\ UNCHANGED <<backup, owned, selected, job, result, clean>>

(* A part this attempt stopped is started again, one it started is         *)
(* stopped; Caddy reloads in between.  The tailscale half comes last and   *)
(* sets the record to what it was, whatever became of the Caddy half.      *)
RestoreRun(p) ==
  /\ at = <<"r-bring back", p>>
  /\ \/ LET up == (running[p] \/ (p \in stopped /\ before.running[p]))
                    /\ (p \in begun => before.running[p])
        IN /\ p = "caddy" /\ (before.running[p] \/ p \in stopped \cup begun)
                => running[p] \/ (p \in stopped /\ before.running[p])
           /\ running' = [running EXCEPT ![p] = up]
           /\ starter' = [starter EXCEPT ![p] = IF ~up THEN "user" ELSE IF running[p] THEN @ ELSE "locallink"]
           /\ loaded' = IF p # "caddy" THEN loaded ELSE IF up THEN file[p].edge ELSE {}
           /\ live' = IF p # "tailscale" THEN live
                      ELSE IF ~up THEN {} ELSE IF running[p] THEN live ELSE file[p].edge
           /\ runtime' = before.runtime
           /\ UNCHANGED <<file, broken>>
     \/ /\ \/ p \in begun \cup stopped
           \/ p = "caddy" /\ before.running[p]
        /\ \/ UNCHANGED host
           \/ p \in stopped /\ before.running[p] /\ Up(p, "ok")
           \/ "late" \in Faults /\ p \in begun /\ ~before.running[p] /\ Down(p, "late")
        /\ broken' = broken \cup {p}
        /\ runtime' = [before.runtime EXCEPT !.status = "rollback-failed"]
  /\ CaddyFirst(p, "r-put back", <<"r-republish", "caddy">>)
  /\ UNCHANGED <<backup, owned, selected, before, done, changed, begun, stopped, result, clean, tries>>

(* Removed routes that are not back already are served again. *)
Republish ==
  /\ at[1] = "r-republish"
  /\ \E some \in SUBSET (done \ live) :
       /\ Connected \/ some = {}
       /\ live' = live \cup some
       /\ clean' = (clean /\ broken = {} /\ done \subseteq live')
  /\ Report(IF broken = {} THEN "undone" ELSE "broken")
  /\ UNCHANGED <<file, running, loaded, starter, state, selected>>

-----------------------------------------------------------------------------
(* The process ends; what is durable stays.  The bound: no crash after a    *)
(* crash or a failing rollback.                                            *)
Crash ==
  /\ "crash" \in Faults /\ clean
  /\ at[1] # "idle"
  /\ Report("none")
  /\ clean' = FALSE
  /\ UNCHANGED <<host, state, selected>>

(* External: the user changes the selection, at any time; an edit while     *)
(* nothing reads it is the same as one right before it is read again.      *)
ConfigEdited ==
  /\ at[1] \in {"idle", "verify", "r-verify"}
  /\ selected' \in SUBSET Services
  /\ UNCHANGED <<host, state, at, job, result, clean>>

(* External: docker compose stop.  The user may have started the services   *)
(* before the first attempt, but not again after stopping them: the record *)
(* would not notice.                                                       *)
UserStops(p) ==
  /\ "stop" \in Faults
  /\ at[1] = "idle" /\ running[p]
  /\ Down(p, "ok")
  /\ UNCHANGED <<state, selected, at, job, result, clean>>

Apply ==
  \/ ApplyRoutes \/ AdoptRoutes \/ Adopt \/ Validate \/ Own \/ Reload \/ Publish
  \/ Verify \/ Record \/ Activate \/ Unpublish \/ Settle \/ Blame
  \/ \E p \in Parts : Backup(p) \/ WriteConfig(p) \/ Start(p) \/ PutBack(p) \/ BringBack(p)

Reconcile ==
  \/ ReconcileRoutes \/ StartSidecar \/ RemoveRoutes \/ VerifyRemoved \/ ValidateRemoval
  \/ OwnRemoval \/ ReloadRemoval \/ Drop \/ Clear \/ Tidy \/ ActivateRemoval \/ Forget
  \/ PlanAgain \/ Republish
  \/ \E p \in Parts : \/ WriteRemoval(p) \/ Restart(p) \/ Stop(p)
                      \/ RestoreFile(p) \/ RestoreRun(p)

User == \/ ConfigEdited
        \/ \E p \in Parts : UserStops(p)

Next == Apply \/ Reconcile \/ Crash \/ User

Spec == Init /\ [][Next]_vars

-----------------------------------------------------------------------------
(* Whenever the process ends: a file with our routes in it has a record    *)
(* and a backup, and no backup holds our routes, so that a final removal   *)
(* always leads back to the user's own configuration.                      *)
Recoverable ==
  \A p \in Parts :
    /\ file[p].edge # {} => runtime # None /\ backup[p] # Absent
    /\ runtime # None => backup[p].edge = {}

(* A failed attempt that reports no failing rollback has left files,       *)
(* services and record as they were; an absent file may come back empty.   *)
Restored ==
  [][at[1] # "idle" /\ result' = "undone" =>
       /\ \A p \in Parts : Text(file'[p]) = Text(before.file[p])
       /\ running' = before.running /\ runtime' = before.runtime]_vars

(* Only a service that LocalLink has started is ever stopped by it. *)
StopsOnlyOwn ==
  [][\A p \in Parts :
       at[1] # "idle" /\ running[p] /\ ~running'[p] => starter[p] = "locallink"]_vars

(* Between attempts, unless one was cut short or could not be rolled back: *)
(* a route that is owned and served is in both files and Caddy runs what   *)
(* its file says, so a restart of either service changes nothing for it.   *)
RestartSafe ==
  at[1] = "idle" /\ clean =>
    /\ \A s \in owned \cap live, p \in Parts : s \in file[p].edge
    /\ running["caddy"] => loaded = file["caddy"].edge

(* What reconciliation writes and starts publishes nothing that was not     *)
(* published when it was confirmed.                                        *)
Published == live \cup (IF Sidecar THEN file["tailscale"].edge ELSE {})

ReconcileOnlyRemoves ==
  [][at[1] \in {"r-write", "r-restart"} => Published' \subseteq Published \cup before.stale]_vars
=============================================================================
