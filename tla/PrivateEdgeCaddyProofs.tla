----------------------- MODULE PrivateEdgeCaddyProofs -----------------------
(***************************************************************************)
(* Proofs about PrivateEdgeCaddy for any services, number of attempts and  *)
(* placement of Tailscale: the type invariant; a file with our routes      *)
(* always has a record and a backup; only what LocalLink has started is    *)
(* stopped by it; an attempt that reports no failing rollback has left     *)
(* everything as it was; between attempts a restart of a service changes   *)
(* nothing.                                                                *)
(***************************************************************************)
EXTENDS PrivateEdgeCaddy, TLAPS

USE CaddyAssumption

-----------------------------------------------------------------------------
(* Types                                                                   *)

LEMMA PartNames == Parts \subseteq {"caddy", "tailscale"} /\ "caddy" \in Parts
                   /\ (Sidecar <=> "tailscale" \in Parts)
BY DEF Parts

LEMMA ContentType ==
  /\ Blank \in Content /\ Absent \in Content
  /\ \A c \in Content, s \in SUBSET Services :
       /\ Text(c) \in Content /\ Text(c).edge \subseteq c.edge
       /\ Merge(c, s) \in Content /\ Merge(c, s).edge = s /\ Merge(c, s).text # "absent"
       /\ [c EXCEPT !.edge = s] \in Content
       /\ c.edge \in SUBSET Services
BY DEF Content, Blank, Absent, Text, Merge

LEMMA RuntimeType ==
  /\ None \in Runtime
  /\ \A r \in Runtime, s \in {"none", "applying", "active", "rollback-failed"} :
       /\ [r EXCEPT !.status = s] \in Runtime
       /\ r.existed \in [Parts -> BOOLEAN] /\ r.started \in [Parts -> BOOLEAN]
BY DEF Runtime, None

LEMMA NoPlanType == NoPlan \in Before
<1>1. /\ [p \in Parts |-> Absent] \in [Parts -> Content]
      /\ [p \in Parts |-> FALSE] \in [Parts -> BOOLEAN]
  BY ContentType
<1> QED
  BY <1>1, RuntimeType DEF NoPlan, Before

HostOK ==
  /\ file \in [Parts -> Content]
  /\ running \in [Parts -> BOOLEAN]
  /\ live \in SUBSET Services /\ loaded \in SUBSET Services
  /\ starter \in [Parts -> {"user", "locallink"}]

LEMMA CommandType ==
  ASSUME HostOK, NEW p \in Parts, NEW outcome, Up(p, outcome) \/ Down(p, outcome)
  PROVE  HostOK' /\ file' = file
<1>1. file[p].edge \in SUBSET Services
  BY ContentType DEF HostOK
<1> QED
  BY <1>1 DEF HostOK, Up, Down, host

LEMMA WriteType ==
  ASSUME HostOK, NEW p \in Parts, NEW c \in Content, Write(p, c)
  PROVE  HostOK'
<1>1. c.edge \in SUBSET Services
  BY ContentType
<1> QED
  BY <1>1 DEF HostOK, Write

LEMMA GoType ==
  ASSUME NEW stage \in Stages, NEW next \in At, NEW p \in {"caddy", "tailscale"},
         Go(stage, p) \/ CaddyFirst(p, stage, next)
  PROVE  at' \in At
BY DEF Go, CaddyFirst, At

RecordOK ==
  /\ backup \in [Parts -> Content]
  /\ runtime \in Runtime
  /\ owned \in SUBSET Services /\ selected \in SUBSET Services
  /\ result \in {"none", "applied", "reconciled", "undone", "broken"}
  /\ clean \in BOOLEAN

JobOK ==
  /\ before \in Before
  /\ done \in SUBSET Services
  /\ changed \in SUBSET Parts /\ begun \in SUBSET Parts
  /\ stopped \in SUBSET Parts /\ broken \in SUBSET Parts
  /\ tries \in 0 .. MaxTries

(* A sidecar is only started where there is one. *)
TypeInv == HostOK /\ RecordOK /\ JobOK /\ at \in At /\ (at[1] = "r-start" => Sidecar)

LEMMA TypeInvIsTypeOK == TypeInv => TypeOK
BY DEF TypeInv, TypeOK, HostOK, RecordOK, JobOK

LEMMA PlanType ==
  ASSUME TypeInv, NEW todo \in SUBSET Services, Plan(todo)
  PROVE  HostOK' /\ RecordOK' /\ JobOK'
<1>1. Probes \subseteq [Parts -> BOOLEAN]
  BY DEF Probes, TypeInv, HostOK
<1>2. before' \in Before
  BY <1>1 DEF Plan, Before, Stale, TypeInv, HostOK, RecordOK
<1>3. tries' \in 0 .. MaxTries
  BY DEF Plan, TypeInv, JobOK
<1> QED
  BY <1>2, <1>3 DEF Plan, TypeInv, HostOK, RecordOK, JobOK, host, state

LEMMA ReportType ==
  ASSUME JobOK, NEW r \in {"none", "applied", "reconciled", "undone", "broken"}, Report(r)
  PROVE  JobOK' /\ at' \in At /\ result' \in {"none", "applied", "reconciled", "undone", "broken"}
         /\ at'[1] = "idle"
BY NoPlanType DEF JobOK, Report, At

(* A step that writes neither record nor plan. *)
LEMMA WorkType ==
  ASSUME TypeInv, HostOK', UNCHANGED <<state, selected, before, result, clean, tries>>,
         done' \in SUBSET Services, changed' \in SUBSET Parts, begun' \in SUBSET Parts,
         stopped' \in SUBSET Parts, broken' \in SUBSET Parts
  PROVE  HostOK' /\ RecordOK' /\ JobOK'
BY DEF TypeInv, RecordOK, JobOK, state

LEMMA Goes ==
  \A stage \in Stages, p \in {"caddy", "tailscale"} :
    <<stage, p>> \in At /\ <<stage, p>>[1] = stage
BY DEF At

LEMMA ApplyStages ==
  /\ "validate" \in Stages /\ "backup" \in Stages /\ "own" \in Stages /\ "write" \in Stages
  /\ "start" \in Stages /\ "reload" \in Stages /\ "publish" \in Stages /\ "verify" \in Stages
  /\ "record" \in Stages /\ "activate" \in Stages /\ "unpublish" \in Stages
  /\ "put back" \in Stages /\ "bring back" \in Stages /\ "settle" \in Stages
  /\ "blame" \in Stages /\ "adopt" \in Stages
BY DEF Stages

(* BringBack and RestoreRun either do their part or record that they have   *)
(* failed.                                                                 *)
BroughtBack(p) ==
  /\ running' = [running EXCEPT ![p] = @ /\ p \notin begun]
  /\ before.running[p] => running[p]
  /\ loaded' = IF p # "caddy" THEN loaded ELSE IF running'[p] THEN file[p].edge ELSE {}
  /\ live' = IF p = "tailscale" /\ ~running'[p] THEN {} ELSE live
  /\ file' = [file EXCEPT ![p] = IF before.file[p].text = "absent" THEN Absent ELSE @]
  /\ starter' = [starter EXCEPT ![p] = IF running'[p] THEN @ ELSE "user"]
  /\ broken' = broken

NotBroughtBack(p) ==
  /\ broken' = broken \cup {p}
  /\ UNCHANGED host \/ (p \in begun /\ \E outcome \in Outcomes \ {"ok"} : Down(p, outcome))

LEMMA BringBackCases ==
  ASSUME NEW p \in Parts, BringBack(p) PROVE BroughtBack(p) \/ NotBroughtBack(p)
BY DEF BringBack, BroughtBack, NotBroughtBack

LEMMA ApplyType == TypeInv /\ Apply => TypeInv'
<1> SUFFICES ASSUME TypeInv, Apply PROVE TypeInv'
  OBVIOUS
<1>1. CASE ApplyRoutes \/ AdoptRoutes
  <2>1. Missing \in SUBSET Services /\ {} \in SUBSET Services
    BY DEF Missing, TypeInv, RecordOK
  <2>2. HostOK' /\ RecordOK' /\ JobOK'
    BY <1>1, <2>1, PlanType DEF ApplyRoutes, AdoptRoutes
  <2>0. PICK stage \in {"validate", "adopt"}, q \in {"caddy", "tailscale"} : at' = <<stage, q>>
    BY <1>1 DEF ApplyRoutes, AdoptRoutes, Go, CaddyFirst, Parts
  <2>3. at' \in At /\ at'[1] # "r-start"
    BY ZenonT(60), <2>0, Goes, ApplyStages
  <2> QED
    BY <2>2, <2>3 DEF TypeInv
<1>2. CASE Adopt \/ Validate \/ Own \/ Verify \/ Record \/ Settle
  <2>0. PICK stage \in {"activate", "backup", "own", "unpublish", "write", "record", "blame"} :
          at' = <<stage, "caddy">>
    BY <1>2 DEF Adopt, Validate, Own, Verify, Record, Settle, Go
  <2>1. at' \in At /\ at'[1] # "r-start"
    BY <2>0, Goes, ApplyStages
  <2>2. HostOK' /\ JobOK'
    BY <1>2 DEF Adopt, Validate, Own, Verify, Record, Settle, TypeInv, HostOK, JobOK, host, job
  <2>3. before.selected \in SUBSET Services /\ before.runtime \in Runtime
        /\ before.running \in [Parts -> BOOLEAN]
    BY DEF TypeInv, JobOK, Before
  <2>4. runtime' \in Runtime
    <3>1. CASE Own
      <4>1. runtime.existed \in [Parts -> BOOLEAN] /\ runtime.started \in [Parts -> BOOLEAN]
        BY RuntimeType DEF TypeInv, RecordOK
      <4>2. [p \in Parts |-> runtime.started[p] \/ ~before.running[p]] \in [Parts -> BOOLEAN]
        BY <2>3, <4>1
      <4>3. [p \in Parts |-> file[p].text # "absent"] \in [Parts -> BOOLEAN]
        OBVIOUS
      <4> QED
        BY <3>1, <4>1, <4>2, <4>3 DEF Own, Runtime
    <3>2. CASE Settle
      BY <2>3, <3>2, RuntimeType DEF Settle, TypeInv, RecordOK
    <3> QED
      BY <1>2, <3>1, <3>2 DEF Adopt, Validate, Verify, Record, TypeInv, RecordOK, state
  <2>5. RecordOK'
    BY <1>2, <2>3, <2>4 DEF Adopt, Validate, Own, Verify, Record, Settle, TypeInv, RecordOK, JobOK, state
  <2> QED
    BY <2>1, <2>2, <2>5 DEF TypeInv
<1>3. CASE Reload \/ Publish \/ Unpublish
  <2>0. PICK stage \in {"publish", "verify", "unpublish", "put back"} : at' = <<stage, "caddy">>
    BY <1>3 DEF Reload, Publish, Unpublish, Go
  <2>1. at' \in At /\ at'[1] # "r-start"
    BY <2>0, Goes, ApplyStages
  <2>2. file["caddy"].edge \in SUBSET Services /\ before.todo \in SUBSET Services
    BY ContentType, PartNames DEF TypeInv, HostOK, JobOK, Before
  <2>3. HostOK' /\ done' \in SUBSET Services
    BY <1>3, <2>2 DEF Reload, Publish, Unpublish, TypeInv, HostOK, JobOK, job
  <2>4. RecordOK' /\ JobOK'
    BY <1>3, <2>3 DEF Reload, Publish, Unpublish, TypeInv, RecordOK, JobOK, job, state
  <2> QED
    BY <2>1, <2>3, <2>4 DEF TypeInv
<1>4. CASE Activate \/ Blame
  <2>1. JobOK' /\ at' \in At /\ result' \in {"none", "applied", "reconciled", "undone", "broken"}
        /\ at'[1] = "idle"
    BY <1>4, ReportType DEF Activate, Blame, TypeInv
  <2>2. runtime' \in Runtime /\ HostOK'
    BY <1>4, RuntimeType DEF Activate, Blame, TypeInv, RecordOK, HostOK, host
  <2>3. clean' \in BOOLEAN
    BY <1>4 DEF Activate, Blame, TypeInv, RecordOK
  <2> QED
    BY <1>4, <2>1, <2>2, <2>3 DEF Activate, Blame, TypeInv, RecordOK, JobOK
<1>5. ASSUME NEW p \in Parts, Backup(p) PROVE TypeInv'
  <2>0. PICK stage \in {"backup", "own"}, q \in {"caddy", "tailscale"} : at' = <<stage, q>>
    BY <1>5 DEF Backup, Go, CaddyFirst, Parts
  <2>1. at' \in At /\ at'[1] # "r-start"
    BY ZenonT(60), <2>0, Goes, ApplyStages
  <2>2. backup' \in [Parts -> Content]
    BY ZenonT(60), <1>5, ContentType DEF Backup, TypeInv, RecordOK, HostOK
  <2> QED
    BY <1>5, <2>1, <2>2 DEF Backup, TypeInv, RecordOK, HostOK, JobOK, job, host
<1>6. ASSUME NEW p \in Parts, WriteConfig(p) PROVE TypeInv'
  <2>0. PICK stage \in {"write", "start"}, q \in {"caddy", "tailscale"} : at' = <<stage, q>>
    BY <1>6 DEF WriteConfig, Go, CaddyFirst, Parts
  <2>1. at' \in At /\ at'[1] # "r-start"
    BY ZenonT(60), <2>0, Goes, ApplyStages
  <2>2. /\ before.selected \in SUBSET Services
        /\ before.file[p] \in Content /\ file[p] \in Content
    BY DEF TypeInv, JobOK, Before, HostOK
  <2>3. /\ Merge(Text(file[p]), before.selected) \in Content
        /\ Merge(Text(before.file[p]), before.file[p].edge \cup before.selected) \in Content
    BY <2>2, ContentType
  <2>4. HostOK'
    BY <1>6, <2>3, WriteType DEF WriteConfig, TypeInv
  <2>5. RecordOK' /\ JobOK'
    BY <1>6, <2>4, WorkType DEF WriteConfig, TypeInv, JobOK
  <2> QED
    BY <2>1, <2>4, <2>5 DEF TypeInv
<1>7. ASSUME NEW p \in Parts, Start(p) PROVE TypeInv'
  <2>0. PICK stage \in {"start", "reload", "unpublish"}, q \in {"caddy", "tailscale"} : at' = <<stage, q>>
    BY <1>7 DEF Start, Go, CaddyFirst, Parts
  <2>1. at' \in At /\ at'[1] # "r-start"
    BY ZenonT(60), <2>0, Goes, ApplyStages
  <2>2. HostOK' /\ begun' \in SUBSET Parts
    BY <1>7, CommandType DEF Start, TypeInv, JobOK, HostOK, host
  <2>3. RecordOK' /\ JobOK'
    BY <1>7, <2>2, WorkType DEF Start, TypeInv, JobOK
  <2> QED
    BY <2>1, <2>2, <2>3 DEF TypeInv
<1>8. ASSUME NEW p \in Parts, PutBack(p) PROVE TypeInv'
  <2>0. PICK stage \in {"bring back", "put back", "settle"}, q \in {"caddy", "tailscale"} : at' = <<stage, q>>
    BY <1>8 DEF PutBack, Go, CaddyFirst, Parts
  <2>1. at' \in At /\ at'[1] # "r-start"
    BY <2>0, Goes, ApplyStages
  <2>2. before.file[p] \in Content /\ Text(before.file[p]) \in Content
    BY ContentType DEF TypeInv, JobOK, Before
  <2>3. HostOK'
    BY <1>8, <2>2, WriteType DEF PutBack, TypeInv, HostOK, host
  <2>4. RecordOK' /\ JobOK'
    BY <1>8, <2>3, WorkType DEF PutBack, TypeInv, JobOK, job
  <2> QED
    BY <2>1, <2>3, <2>4 DEF TypeInv
<1>9. ASSUME NEW p \in Parts, BringBack(p) PROVE TypeInv'
  <2>0. PICK stage \in {"put back", "settle"}, q \in {"caddy", "tailscale"} : at' = <<stage, q>>
    BY <1>9 DEF BringBack, Go, CaddyFirst, Parts
  <2>1. at' \in At /\ at'[1] # "r-start"
    BY <2>0, Goes, ApplyStages
  <2>2. file[p].edge \in SUBSET Services /\ Absent \in Content
    BY ContentType DEF TypeInv, HostOK
  <2>3. HostOK' /\ broken' \in SUBSET Parts
    <3>1. CASE BroughtBack(p)
      BY <2>2, <3>1 DEF BroughtBack, TypeInv, HostOK, JobOK
    <3>2. CASE NotBroughtBack(p)
      BY <3>2, CommandType DEF NotBroughtBack, TypeInv, HostOK, JobOK, host
    <3> QED
      BY <1>9, <3>1, <3>2, BringBackCases
  <2>4. RecordOK' /\ JobOK'
    BY <1>9, <2>3, WorkType DEF BringBack, TypeInv, JobOK
  <2> QED
    BY <2>1, <2>3, <2>4 DEF TypeInv
<1> QED
  BY <1>1, <1>2, <1>3, <1>4, <1>5, <1>6, <1>7, <1>8, <1>9 DEF Apply

LEMMA ReconcileStages ==
  /\ "r-start" \in Stages /\ "r-off" \in Stages /\ "r-verify" \in Stages /\ "r-validate" \in Stages
  /\ "r-own" \in Stages /\ "r-write" \in Stages /\ "r-restart" \in Stages /\ "r-reload" \in Stages
  /\ "r-stop" \in Stages /\ "r-drop" \in Stages /\ "r-clear" \in Stages /\ "r-tidy" \in Stages
  /\ "r-activate" \in Stages /\ "r-forget" \in Stages /\ "r-plan" \in Stages
  /\ "r-put back" \in Stages /\ "r-bring back" \in Stages /\ "r-republish" \in Stages
BY DEF Stages

RestoredRun(p) ==
  LET up == (running[p] \/ (p \in stopped /\ before.running[p]))
              /\ (p \in begun => before.running[p])
  IN /\ p = "caddy" /\ (before.running[p] \/ p \in stopped \cup begun)
          => running[p] \/ (p \in stopped /\ before.running[p])
     /\ running' = [running EXCEPT ![p] = up]
     /\ starter' = [starter EXCEPT ![p] = IF ~up THEN "user" ELSE IF running[p] THEN @ ELSE "locallink"]
     /\ loaded' = IF p # "caddy" THEN loaded ELSE IF up THEN file[p].edge ELSE {}
     /\ live' = IF p # "tailscale" THEN live
                ELSE IF ~up THEN {} ELSE IF running[p] THEN live ELSE file[p].edge
     /\ runtime' = before.runtime
     /\ UNCHANGED <<file, broken>>

NotRestoredRun(p) ==
  /\ p \in begun \cup stopped \/ (p = "caddy" /\ before.running[p])
  /\ \/ UNCHANGED host
     \/ p \in stopped /\ before.running[p] /\ Up(p, "ok")
     \/ "late" \in Faults /\ p \in begun /\ ~before.running[p] /\ Down(p, "late")
  /\ broken' = broken \cup {p}
  /\ runtime' = [before.runtime EXCEPT !.status = "rollback-failed"]

LEMMA RestoreRunCases ==
  ASSUME NEW p \in Parts, RestoreRun(p) PROVE RestoredRun(p) \/ NotRestoredRun(p)
BY DEF RestoreRun, RestoredRun, NotRestoredRun

LEMMA RemainingType ==
  ASSUME TypeInv, NEW p \in Parts
  PROVE  Remaining(p) \in Content
<1>1. /\ file[p] \in Content /\ backup[p] \in Content
      /\ before.selected \in SUBSET Services /\ before.selected \ before.stale \in SUBSET Services
  BY DEF TypeInv, HostOK, RecordOK, JobOK, Before
<1>2. /\ [Text(file[p]) EXCEPT !.edge = {}] \in Content
      /\ Merge(Text(file[p]), before.selected) \in Content
      /\ Merge(backup[p], before.selected \ before.stale) \in Content
  BY <1>1, ContentType
<1> QED
  BY <1>1, <1>2 DEF Remaining

LEMMA ReconcileType == TypeInv /\ Reconcile => TypeInv'
<1> SUFFICES ASSUME TypeInv, Reconcile PROVE TypeInv'
  OBVIOUS
<1>0. /\ before.selected \in SUBSET Services /\ before.runtime \in Runtime
      /\ before.running \in [Parts -> BOOLEAN] /\ before.todo \in SUBSET Services
      /\ before.file \in [Parts -> Content] /\ before.stale \in SUBSET Services
  BY DEF TypeInv, JobOK, Before
<1>1. CASE ReconcileRoutes
  <2>1. Active \in SUBSET Services
    BY DEF Active, Stale, TypeInv, RecordOK
  <2>2. HostOK' /\ RecordOK' /\ JobOK'
    BY <1>1, <2>1, PlanType DEF ReconcileRoutes
  <2>3. at' \in At /\ at'[1] = (IF Active # {} /\ ~Connected THEN "r-start" ELSE "r-off")
    BY <1>1, Goes, ReconcileStages DEF ReconcileRoutes, Go
  <2> QED
    BY <2>2, <2>3 DEF TypeInv, Connected
<1>2. CASE StartSidecar
  <2>0. PICK stage \in {"r-put back", "r-off"} : at' = <<stage, "caddy">>
    BY <1>2 DEF StartSidecar, GiveUp, Go
  <2>1. at' \in At /\ at'[1] # "r-start"
    BY <2>0, Goes, ReconcileStages
  <2>2. "tailscale" \in Parts
    BY <1>2 DEF StartSidecar, TypeInv, Parts
  <2>3. HostOK' /\ begun' \in SUBSET Parts
    BY <1>2, <2>2, CommandType DEF StartSidecar, TypeInv, JobOK, HostOK, host
  <2>4. RecordOK' /\ JobOK'
    BY <1>2, <2>3, WorkType DEF StartSidecar, TypeInv, JobOK
  <2> QED
    BY <2>1, <2>3, <2>4 DEF TypeInv
<1>3. CASE RemoveRoutes \/ VerifyRemoved \/ ValidateRemoval \/ ReloadRemoval
  <2>0. PICK stage \in {"r-verify", "r-put back", "r-validate", "r-own", "r-stop"} : at' = <<stage, "caddy">>
    BY <1>3 DEF RemoveRoutes, VerifyRemoved, ValidateRemoval, ReloadRemoval, GiveUp, Go
  <2>1. at' \in At /\ at'[1] # "r-start"
    BY <2>0, Goes, ReconcileStages
  <2>2. file["caddy"].edge \in SUBSET Services
    BY ContentType, PartNames DEF TypeInv, HostOK
  <2>3. HostOK' /\ done' \in SUBSET Services
    BY <1>0, <1>3, <2>2 DEF RemoveRoutes, VerifyRemoved, ValidateRemoval, ReloadRemoval,
       TypeInv, HostOK, JobOK, job, host
  <2>4. RecordOK' /\ JobOK'
    BY <1>3, <2>3 DEF RemoveRoutes, VerifyRemoved, ValidateRemoval, ReloadRemoval,
       TypeInv, RecordOK, JobOK, job, state
  <2> QED
    BY <2>1, <2>3, <2>4 DEF TypeInv
<1>4. CASE OwnRemoval \/ Clear \/ ActivateRemoval \/ Forget
  <2>0. PICK stage \in {"r-write", "r-tidy", "r-forget", "r-plan"} : at' = <<stage, "caddy">>
    BY <1>4 DEF OwnRemoval, Clear, ActivateRemoval, Forget, Go
  <2>1. at' \in At /\ at'[1] # "r-start"
    BY <2>0, Goes, ReconcileStages
  <2>2. runtime' \in Runtime
    <3>1. CASE ActivateRemoval
      <4>1. before.runtime.started \in [Parts -> BOOLEAN] /\ before.runtime.existed \in [Parts -> BOOLEAN]
        BY <1>0, RuntimeType
      <4>2. [p \in Parts |-> before.runtime.started[p] \/ p \in begun] \in [Parts -> BOOLEAN]
        BY <4>1
      <4> QED
        BY <1>0, <3>1, <4>1, <4>2 DEF ActivateRemoval, Runtime
    <3> QED
      BY <1>0, <1>4, <3>1, RuntimeType DEF OwnRemoval, Clear, Forget, TypeInv, RecordOK
  <2> QED
    BY <1>4, <2>1, <2>2 DEF OwnRemoval, Clear, ActivateRemoval, Forget, TypeInv, HostOK, RecordOK, JobOK, job, host
<1>5. CASE Drop \/ Tidy
  <2>0. PICK stage \in {"r-clear", "r-forget"} : at' = <<stage, "caddy">>
    BY <1>5 DEF Drop, Tidy, Go
  <2>1. at' \in At /\ at'[1] # "r-start"
    BY <2>0, Goes, ReconcileStages
  <2>2. file' \in [Parts -> Content] /\ backup' \in [Parts -> Content]
    BY <1>5, ContentType DEF Drop, Tidy, TypeInv, HostOK, RecordOK, state
  <2> QED
    BY <1>5, <2>1, <2>2 DEF Drop, Tidy, TypeInv, HostOK, RecordOK, JobOK, job, state
<1>6. CASE PlanAgain
  <2>1. CASE Report("reconciled")
    <3>1. JobOK' /\ at' \in At /\ result' \in {"none", "applied", "reconciled", "undone", "broken"}
          /\ at'[1] = "idle"
      BY <2>1, ReportType DEF TypeInv
    <3> QED
      BY <1>6, <3>1 DEF PlanAgain, TypeInv, HostOK, RecordOK, host, state
  <2>2. CASE GiveUp /\ UNCHANGED <<job, result>>
    <3>1. at' \in At /\ at'[1] # "r-start"
      BY <2>2, Goes, ReconcileStages DEF GiveUp, Go
    <3> QED
      BY <1>6, <2>2, <3>1 DEF PlanAgain, TypeInv, HostOK, RecordOK, JobOK, host, state, job
  <2> QED
    BY <1>6, <2>1, <2>2 DEF PlanAgain
<1>7. CASE Republish
  <2>1. JobOK' /\ at' \in At /\ result' \in {"none", "applied", "reconciled", "undone", "broken"}
        /\ at'[1] = "idle"
    BY <1>7, ReportType DEF Republish, TypeInv
  <2>2. live' \in SUBSET Services /\ clean' \in BOOLEAN
    BY <1>7 DEF Republish, TypeInv, HostOK, RecordOK, JobOK
  <2> QED
    BY <1>7, <2>1, <2>2 DEF Republish, TypeInv, HostOK, RecordOK, state
<1>8. ASSUME NEW p \in Parts, WriteRemoval(p) PROVE TypeInv'
  <2>0. PICK stage \in {"r-write", "r-restart", "r-put back"}, q \in {"caddy", "tailscale"} : at' = <<stage, q>>
    BY <1>8 DEF WriteRemoval, GiveUp, Go, CaddyFirst, Parts
  <2>1. at' \in At /\ at'[1] # "r-start"
    BY ZenonT(60), <2>0, Goes, ReconcileStages
  <2>2. HostOK' /\ changed' \in SUBSET Parts
    BY <1>8, RemainingType, WriteType DEF WriteRemoval, TypeInv, JobOK, HostOK, host
  <2>3. RecordOK' /\ JobOK'
    BY <1>8, <2>2, WorkType DEF WriteRemoval, TypeInv, JobOK
  <2> QED
    BY <2>1, <2>2, <2>3 DEF TypeInv
<1>9. ASSUME NEW p \in Parts, Restart(p) \/ Stop(p) PROVE TypeInv'
  <2>0. PICK stage \in {"r-restart", "r-reload", "r-put back", "r-stop", "r-drop", "r-activate"},
             q \in {"caddy", "tailscale"} : at' = <<stage, q>>
    BY <1>9 DEF Restart, Stop, GiveUp, Go, CaddyFirst, Parts
  <2>1. at' \in At /\ at'[1] # "r-start"
    BY ZenonT(60), <2>0, Goes, ReconcileStages
  <2>2. /\ UNCHANGED host \/ \E outcome : Up(p, outcome) \/ Down(p, outcome)
        /\ begun' \in SUBSET Parts /\ stopped' \in SUBSET Parts
        /\ UNCHANGED <<state, selected, before, done, changed, broken, result, clean, tries>>
    BY <1>9 DEF Restart, Stop, TypeInv, JobOK
  <2>3. HostOK'
    BY <2>2, CommandType DEF TypeInv, HostOK, host
  <2>4. RecordOK' /\ JobOK'
    BY <2>2, <2>3, WorkType DEF TypeInv, JobOK
  <2> QED
    BY <2>1, <2>3, <2>4 DEF TypeInv
<1>10. ASSUME NEW p \in Parts, RestoreFile(p) PROVE TypeInv'
  <2>0. PICK stage \in {"r-put back", "r-bring back", "r-republish"}, q \in {"caddy", "tailscale"} : at' = <<stage, q>>
    BY <1>10 DEF RestoreFile, Go, CaddyFirst, Parts
  <2>1. at' \in At /\ at'[1] # "r-start"
    BY <2>0, Goes, ReconcileStages
  <2>2. Text(before.file[p]) \in Content
    BY <1>0, ContentType
  <2>3. HostOK'
    BY <1>10, <2>2, WriteType DEF RestoreFile, TypeInv, HostOK, host
  <2>4. runtime' \in Runtime
    BY <1>0, <1>10 DEF RestoreFile, TypeInv, RecordOK
  <2> QED
    BY <1>10, <2>1, <2>3, <2>4 DEF RestoreFile, TypeInv, RecordOK, JobOK, job
<1>11. ASSUME NEW p \in Parts, RestoreRun(p) PROVE TypeInv'
  <2>0. PICK stage \in {"r-put back", "r-republish"}, q \in {"caddy", "tailscale"} : at' = <<stage, q>>
    BY <1>11 DEF RestoreRun, Go, CaddyFirst, Parts
  <2>1. at' \in At /\ at'[1] # "r-start"
    BY <2>0, Goes, ReconcileStages
  <2>2. file[p].edge \in SUBSET Services
    BY ContentType DEF TypeInv, HostOK
  <2>3. HostOK' /\ runtime' \in Runtime /\ broken' \in SUBSET Parts
    <3>1. CASE RestoredRun(p)
      BY <1>0, <2>2, <3>1 DEF RestoredRun, TypeInv, HostOK, JobOK
    <3>2. CASE NotRestoredRun(p)
      BY <1>0, <3>2, CommandType, RuntimeType DEF NotRestoredRun, TypeInv, HostOK, JobOK, host
    <3> QED
      BY <1>11, <3>1, <3>2, RestoreRunCases
  <2> QED
    BY <1>11, <2>1, <2>3 DEF RestoreRun, TypeInv, RecordOK, JobOK
<1> QED
  BY <1>1, <1>2, <1>3, <1>4, <1>5, <1>6, <1>7, <1>8, <1>9, <1>10, <1>11 DEF Reconcile

LEMMA TypeStep == TypeInv /\ [Next]_vars => TypeInv'
<1> SUFFICES ASSUME TypeInv, [Next]_vars PROVE TypeInv'
  OBVIOUS
<1>1. CASE Crash
  <2>1. JobOK' /\ at' \in At /\ result' \in {"none", "applied", "reconciled", "undone", "broken"}
        /\ at'[1] = "idle"
    BY <1>1, ReportType DEF Crash, TypeInv
  <2> QED
    BY <1>1, <2>1 DEF Crash, TypeInv, HostOK, RecordOK, host, state
<1>2. CASE ConfigEdited
  BY <1>2 DEF ConfigEdited, TypeInv, HostOK, RecordOK, JobOK, host, state, job
<1>3. ASSUME NEW p \in Parts, UserStops(p) PROVE TypeInv'
  <2>1. HostOK'
    BY <1>3, CommandType DEF UserStops, TypeInv
  <2> QED
    BY <1>3, <2>1 DEF UserStops, TypeInv, RecordOK, JobOK, state, job
<1>4. CASE UNCHANGED vars
  BY <1>4 DEF vars, TypeInv, HostOK, RecordOK, JobOK
<1> QED
  BY <1>1, <1>2, <1>3, <1>4, ApplyType, ReconcileType DEF Next, User

LEMMA TypesHold == Spec => []TypeInv
<1>1. Init => TypeInv
  <2> SUFFICES ASSUME Init PROVE TypeInv
    OBVIOUS
  <2>1. HostOK
    BY DEF Init, HostOK
  <2>2. RecordOK
    <3>1. [p \in Parts |-> Absent] \in [Parts -> Content]
      BY ContentType
    <3> QED
      BY <3>1, RuntimeType DEF Init, RecordOK
  <2>3. JobOK
    BY NoPlanType DEF Init, JobOK
  <2> QED
    BY <2>1, <2>2, <2>3 DEF Init, TypeInv, At
<1> QED
  BY <1>1, TypeStep, PTL DEF Spec

(* Every variable has its type, whatever fails and wherever Tailscale runs. *)
THEOREM TypeCorrect == Spec => []TypeOK
BY TypesHold, TypeInvIsTypeOK, PTL

-----------------------------------------------------------------------------
(* The record and the backups                                              *)

Backed == \A p \in Parts : backup[p] # Absent /\ backup[p].edge = {}

(* What Recoverable says, and that an absent file holds no routes. *)
RecordInv ==
  /\ \A p \in Parts : file[p].edge # {} => runtime # None
  /\ runtime # None => Backed
  /\ \A p \in Parts : file[p].text = "absent" => file[p].edge = {}

(* The plan of the attempt was made in such a state; its backups stay      *)
(* until they are tidied away, and a file it has not written yet holds the *)
(* routes it held then.                                                    *)
PlanInv ==
  /\ before.runtime # None /\ at[1] \notin {"r-forget", "r-plan"} => Backed
  /\ \A p \in Parts : before.file[p].edge # {} => before.runtime # None
  /\ \A p \in Parts : before.file[p].text = "absent" => before.file[p].edge = {}
  /\ at[1] \notin {"idle", "r-clear", "r-tidy", "r-forget", "r-plan"} =>
       \A p \in Parts : p \notin changed => file[p].edge = before.file[p].edge

(* The catch block of applyRoutes is past putting this file back. *)
IsPutBack(p) ==
  \/ at[1] \in {"settle", "blame"}
  \/ at[1] = "bring back" /\ at[2] = p
  \/ at[1] \in {"put back", "bring back"} /\ at[2] = "tailscale" /\ p = "caddy"

ApplyInv ==
  /\ at[1] \in {"idle", "validate", "backup", "own"} => changed = {} /\ begun = {}
  /\ at[1] \in {"validate", "backup"} => runtime = before.runtime
  /\ at[1] = "backup" => runtime = None
  /\ at[1] = "backup" /\ at[2] = "tailscale" => backup["caddy"] # Absent /\ backup["caddy"].edge = {}
  /\ at[1] = "own" => Backed
  /\ at[1] \in {"write", "start", "reload", "publish", "verify", "record", "adopt", "activate"}
       => runtime # None
  /\ at[1] \in {"unpublish", "put back", "bring back", "settle"} /\ changed # {} => runtime # None
  /\ \A p \in Parts : IsPutBack(p) => file[p].edge = before.file[p].edge

Removing == {"r-start", "r-off", "r-verify", "r-validate", "r-own", "r-write", "r-restart",
             "r-reload", "r-stop", "r-drop", "r-clear", "r-tidy", "r-activate", "r-forget",
             "r-plan", "r-put back", "r-bring back", "r-republish"}

Applying == {"validate", "backup", "own", "write", "start", "reload", "publish", "verify",
             "record", "activate", "unpublish", "put back", "bring back", "settle", "blame", "adopt"}

(* A reconciliation that writes anything has found a record; a final one   *)
(* leaves no file with routes before it clears the record.                 *)
RemovalInv ==
  /\ at[1] \in Removing /\ before.runtime = None => changed = {} /\ begun = {}
  /\ at[1] \in {"r-start", "r-off", "r-verify", "r-validate"} => runtime = before.runtime
  /\ at[1] \in {"r-own", "r-write", "r-restart", "r-reload", "r-stop", "r-drop", "r-clear",
                "r-activate", "r-bring back"} => before.runtime # None
  /\ at[1] \in {"r-write", "r-restart", "r-reload", "r-stop", "r-drop", "r-clear", "r-activate"}
       => runtime # None
  /\ at[1] \in {"r-put back", "r-bring back", "r-republish"} /\ before.runtime # None
       => runtime # None
  /\ at[1] = "r-write" /\ at[2] = "tailscale" /\ Final => file["caddy"].edge = {}
  /\ at[1] \in {"r-restart", "r-reload", "r-stop"} /\ Final => \A p \in Parts : file[p].edge = {}
  /\ at[1] \in {"r-drop", "r-clear"} => \A p \in Parts : file[p].edge = {}
  /\ at[1] = "r-tidy" => runtime = None

RecoverInv == RecordInv /\ PlanInv /\ ApplyInv /\ RemovalInv

(* A step that writes no file, backup, record or plan. *)
LEMMA QuietRecord ==
  ASSUME RecordInv, UNCHANGED <<file, backup, runtime>> PROVE RecordInv'
BY DEF RecordInv, Backed

LEMMA QuietPlan ==
  ASSUME PlanInv, UNCHANGED <<file, backup, before, changed>>,
         at[1] \in {"idle", "r-clear", "r-tidy", "r-forget", "r-plan"} => at'[1] = at[1],
         at'[1] \notin {"r-forget", "r-plan"} \/ at'[1] = at[1]
  PROVE  PlanInv'
BY DEF PlanInv, Backed

(* Reporting ends an attempt: nothing is left to say of its plan. *)
LEMMA ReportRecover ==
  ASSUME TypeInv, NEW r, Report(r), UNCHANGED <<file, backup>>, RecordInv'
  PROVE  RecoverInv'
<1>1. at' = <<"idle", "caddy">> /\ at'[1] = "idle" /\ before' = NoPlan /\ changed' = {} /\ begun' = {}
  BY DEF Report
<1>2. /\ before'.runtime = None
      /\ \A p \in Parts : before'.file[p] = Absent /\ Absent.edge = {}
  BY <1>1 DEF NoPlan, Absent, Blank
<1>3. PlanInv'
  BY <1>1, <1>2 DEF PlanInv
<1>4. ApplyInv'
  BY <1>1 DEF ApplyInv, IsPutBack
<1>5. RemovalInv'
  BY <1>1 DEF RemovalInv, Removing
<1> QED
  BY <1>3, <1>4, <1>5 DEF RecoverInv

(* A plan is made between attempts, of what is there. *)
LEMMA PlanRecover ==
  ASSUME TypeInv, RecoverInv, at[1] = "idle", NEW todo, Plan(todo),
         at'[1] \in {"validate", "adopt", "r-start", "r-off"},
         at'[1] = "adopt" => runtime # None
  PROVE  RecoverInv'
<1>1. /\ UNCHANGED <<file, backup, runtime, changed, begun>>
      /\ before'.file = file /\ before'.runtime = runtime
      /\ changed' = {} /\ begun' = {}
  BY DEF Plan, host, state, RecoverInv, ApplyInv
<1>2. RecordInv'
  BY <1>1, QuietRecord DEF RecoverInv
<1>3. PlanInv'
  BY <1>1 DEF PlanInv, RecoverInv, RecordInv, Backed
<1>4. ApplyInv'
  BY <1>1 DEF ApplyInv, IsPutBack
<1>5. RemovalInv'
  BY <1>1 DEF RemovalInv
<1> QED
  BY <1>2, <1>3, <1>4, <1>5 DEF RecoverInv

(* While one block runs, nothing is asked of the stages of the other.      *)
LEMMA OtherBlock ==
  /\ at'[1] \in Applying => RemovalInv'
  /\ at'[1] \in Removing => ApplyInv'
<1>1. ASSUME at'[1] \in Applying PROVE RemovalInv'
  <2>1. at'[1] \notin Removing
    BY <1>1 DEF Applying, Removing
  <2> QED
    BY <2>1 DEF Removing, RemovalInv
<1>2. ASSUME at'[1] \in Removing PROVE ApplyInv'
  <2>1. at'[1] \notin Applying /\ at'[1] # "idle"
    BY <1>2 DEF Applying, Removing
  <2> QED
    BY <2>1 DEF Applying, ApplyInv, IsPutBack
<1> QED
  BY <1>1, <1>2

(* From the record on, an application only moves on until it is over or    *)
(* has failed.                                                             *)
LEMMA MoveOn ==
  ASSUME RecoverInv, UNCHANGED <<file, backup, runtime, before, changed>>, runtime # None,
         at[1] \in Applying,
         at'[1] \in {"start", "reload", "publish", "verify", "record", "activate", "unpublish"}
  PROVE  RecoverInv'
<1>1. at[1] \notin {"idle", "r-clear", "r-tidy", "r-forget", "r-plan"}
  BY DEF Applying
<1>2. RecordInv' /\ PlanInv'
  BY <1>1, QuietRecord, QuietPlan DEF RecoverInv
<1>3. RemovalInv'
  BY OtherBlock DEF Applying
<1>4. ApplyInv'
  BY DEF ApplyInv, IsPutBack
<1> QED
  BY <1>2, <1>3, <1>4 DEF RecoverInv

LEMMA CaddyThenNext ==
  ASSUME NEW p, NEW stage, NEW last, CaddyFirst(p, stage, <<last, "caddy">>)
  PROVE  /\ p = "caddy" /\ Sidecar => at'[1] = stage /\ at'[2] = "tailscale"
         /\ ~(p = "caddy" /\ Sidecar) => at'[1] = last /\ at'[2] = "caddy"
BY DEF CaddyFirst, Go

LEMMA TextEdge ==
  ASSUME NEW c, c.text = "absent" => c.edge = {}
  PROVE  Text(c).edge = c.edge /\ Text(c).text # "absent"
BY DEF Text, Blank

LEMMA AbsentEdge == Absent.edge = {} /\ Absent.text = "absent"
BY DEF Absent, Blank

LEMMA ApplyRecover == TypeInv /\ RecoverInv /\ Apply => RecoverInv'
<1> SUFFICES ASSUME TypeInv, RecoverInv, Apply PROVE RecoverInv'
  OBVIOUS
<1>1. CASE ApplyRoutes \/ AdoptRoutes
  <2>1. PICK services : Plan(services)
    BY <1>1 DEF ApplyRoutes, AdoptRoutes
  <2>2. /\ at[1] = "idle"
        /\ at'[1] = "validate" \/ (at'[1] = "adopt" /\ runtime # None)
    BY <1>1 DEF ApplyRoutes, AdoptRoutes, Go, None
  <2> QED
    BY <2>1, <2>2, PlanRecover
<1>2. CASE Adopt \/ Reload \/ Publish \/ Verify \/ Record
  <2>1. /\ UNCHANGED <<file, backup, runtime, before, changed>>
        /\ at[1] \in {"adopt", "reload", "publish", "verify", "record"}
        /\ at'[1] \in {"activate", "publish", "verify", "record", "unpublish"}
    BY <1>2 DEF Adopt, Reload, Publish, Verify, Record, Go, host, state, job
  <2>2. runtime # None /\ at[1] \in Applying
    BY <2>1 DEF RecoverInv, ApplyInv, Applying
  <2> QED
    BY <2>1, <2>2, MoveOn
<1>3. ASSUME NEW p \in Parts, Start(p) PROVE RecoverInv'
  <2>1. /\ UNCHANGED <<file, backup, runtime, before, changed>>
        /\ at[1] = "start" /\ at'[1] \in {"start", "reload", "unpublish"}
    BY <1>3, CommandType DEF Start, Go, host, state, TypeInv
  <2>2. runtime # None /\ at[1] \in Applying
    BY <2>1 DEF RecoverInv, ApplyInv, Applying
  <2> QED
    BY <2>1, <2>2, MoveOn
<1>4. CASE Validate
  <2>1. /\ UNCHANGED <<file, backup, runtime, before, changed, begun>> /\ changed = {} /\ begun = {}
        /\ runtime = before.runtime /\ at[1] = "validate"
        /\ at'[1] \in {"backup", "own", "unpublish"} /\ at'[2] = "caddy"
        /\ at'[1] = "backup" => runtime = None
        /\ at'[1] = "own" => runtime # None
    BY <1>4 DEF Validate, Go, host, state, job, RecoverInv, ApplyInv
  <2>2. RecordInv' /\ PlanInv'
    BY <2>1, QuietRecord, QuietPlan DEF RecoverInv
  <2>3. RemovalInv'
    BY <2>1, OtherBlock DEF Applying
  <2>4. runtime # None => Backed /\ Backed'
    BY <2>1 DEF RecoverInv, RecordInv, Backed
  <2>5. ApplyInv'
    BY <2>1, <2>4 DEF ApplyInv, IsPutBack
  <2> QED
    BY <2>2, <2>3, <2>5 DEF RecoverInv
<1>5. CASE Unpublish
  <2>1. /\ UNCHANGED <<file, backup, runtime, before, changed, begun>>
        /\ changed = {} \/ runtime # None
        /\ at[1] = "unpublish" /\ at'[1] = "put back" /\ at'[2] = "caddy"
    BY <1>5 DEF Unpublish, Go, state, RecoverInv, ApplyInv
  <2>2. RecordInv' /\ PlanInv'
    BY <2>1, QuietRecord, QuietPlan DEF RecoverInv
  <2>3. RemovalInv'
    BY <2>1, OtherBlock DEF Applying
  <2>4. ApplyInv'
    BY <2>1 DEF ApplyInv, IsPutBack
  <2> QED
    BY <2>2, <2>3, <2>4 DEF RecoverInv
<1>6. ASSUME NEW p \in Parts, Backup(p) PROVE RecoverInv'
  <2>1. /\ UNCHANGED <<file, runtime, before, changed, begun>> /\ changed = {} /\ begun = {}
        /\ runtime = None /\ before.runtime = None
        /\ at[1] = "backup" /\ at[2] = p /\ backup' = [backup EXCEPT ![p] = Text(file[p])]
        /\ at'[1] = IF p = "caddy" /\ Sidecar THEN "backup" ELSE "own"
    BY <1>6 DEF Backup, Go, CaddyFirst, host, job, RecoverInv, ApplyInv
  <2>2. Text(file[p]) # Absent /\ Text(file[p]).edge = {}
    BY <2>1 DEF RecoverInv, RecordInv, Text, Absent, Blank
  <2>3. backup'[p] = Text(file[p]) /\ \A q \in Parts \ {p} : backup'[q] = backup[q]
    BY <2>1 DEF TypeInv, RecordOK
  <2>4. at'[1] = "own" => Backed'
    <3>1. CASE p = "caddy" /\ ~Sidecar
      BY <2>2, <2>3, <3>1 DEF Backed, Parts
    <3>2. CASE p = "tailscale"
      <4>1. backup["caddy"] # Absent /\ backup["caddy"].edge = {}
        BY <2>1, <3>2 DEF RecoverInv, ApplyInv
      <4> QED
        BY <2>2, <2>3, <3>2, <4>1 DEF Backed, Parts
    <3> QED
      BY <2>1, <3>1, <3>2 DEF Parts
  <2>5. RecordInv'
    BY <2>1 DEF RecoverInv, RecordInv
  <2>6. PlanInv'
    BY <2>1 DEF RecoverInv, PlanInv
  <2>7. RemovalInv'
    BY <2>1, OtherBlock DEF Applying
  <2>8. ApplyInv'
    BY <2>1, <2>2, <2>3, <2>4 DEF ApplyInv, IsPutBack
  <2> QED
    BY <2>5, <2>6, <2>7, <2>8 DEF RecoverInv
<1>7. CASE Own
  <2>1. /\ UNCHANGED <<file, backup, before, changed, begun>> /\ Backed
        /\ runtime'.status = "applying" /\ at[1] = "own" /\ at'[1] = "write"
    BY <1>7 DEF Own, Go, host, job, RecoverInv, ApplyInv
  <2>2. runtime' # None /\ Backed'
    BY <2>1 DEF None, Backed
  <2>3. RecordInv'
    BY <2>1, <2>2 DEF RecoverInv, RecordInv
  <2>4. PlanInv'
    BY <2>1, QuietPlan DEF RecoverInv
  <2>5. RemovalInv'
    BY <2>1, OtherBlock DEF Applying
  <2>6. ApplyInv'
    BY <2>1, <2>2 DEF ApplyInv, IsPutBack
  <2> QED
    BY <2>3, <2>4, <2>5, <2>6 DEF RecoverInv
<1>8. ASSUME NEW p \in Parts, WriteConfig(p) PROVE RecoverInv'
  <2>1. /\ UNCHANGED <<backup, runtime, before, begun>> /\ changed' = changed \cup {p}
        /\ runtime # None /\ at[1] = "write" /\ at'[1] \in {"write", "start"}
    BY <1>8 DEF WriteConfig, Go, CaddyFirst, state, RecoverInv, ApplyInv
  <2>2. PICK c \in Content : file' = [file EXCEPT ![p] = c] /\ c.text # "absent"
    <3>1. /\ before.selected \in SUBSET Services
          /\ before.file[p] \in Content /\ file[p] \in Content
      BY DEF TypeInv, JobOK, Before, HostOK
    <3>2. /\ Merge(Text(file[p]), before.selected) \in Content
          /\ Merge(Text(file[p]), before.selected).text # "absent"
      BY <3>1, ContentType
    <3>3. /\ Merge(Text(before.file[p]), before.file[p].edge \cup before.selected) \in Content
          /\ Merge(Text(before.file[p]), before.file[p].edge \cup before.selected).text # "absent"
      BY <3>1, ContentType
    <3> QED
      BY <1>8, <3>2, <3>3 DEF WriteConfig, Write
  <2>3. file'[p].text # "absent" /\ \A q \in Parts \ {p} : file'[q] = file[q]
    BY <2>2 DEF TypeInv, HostOK
  <2>4. RecordInv'
    BY <2>1, <2>3 DEF RecoverInv, RecordInv, Backed
  <2>5. PlanInv'
    BY <2>1, <2>3 DEF RecoverInv, PlanInv, Backed
  <2>6. RemovalInv'
    BY <2>1, OtherBlock DEF Applying
  <2>7. ApplyInv'
    BY <2>1 DEF ApplyInv, IsPutBack
  <2> QED
    BY <2>4, <2>5, <2>6, <2>7 DEF RecoverInv
<1>9. ASSUME NEW p \in Parts, PutBack(p) PROVE RecoverInv'
  <2>1. /\ UNCHANGED <<backup, runtime, before, begun, changed>>
        /\ changed # {} => runtime # None
        /\ at[1] = "put back" /\ at[2] = p
    <3>1. UNCHANGED <<backup, runtime, before, begun, changed>> /\ at[1] = "put back" /\ at[2] = p
      BY <1>9 DEF PutBack, state, job
    <3> QED
      BY <3>1 DEF RecoverInv, ApplyInv
  <2>0. /\ p \in changed => at'[1] = "bring back" /\ at'[2] = p
        /\ p \notin changed /\ p = "caddy" /\ Sidecar => at'[1] = "put back" /\ at'[2] = "tailscale"
        /\ p \notin changed /\ ~(p = "caddy" /\ Sidecar) => at'[1] = "settle"
    <3>1. CASE p \in changed
      <4>1. at' = <<"bring back", p>>
        BY <1>9, <3>1 DEF PutBack, Go
      <4> QED
        BY <3>1, <4>1
    <3>2. CASE p \notin changed
      <4>1. CaddyFirst(p, "put back", <<"settle", "caddy">>)
        BY <1>9, <3>2 DEF PutBack
      <4> QED
        BY <3>2, <4>1, CaddyThenNext
    <3> QED
      BY <3>1, <3>2
  <2>2. \A q \in Parts \ {p} : file'[q] = file[q]
    BY <1>9 DEF PutBack, Write, TypeInv, HostOK, host
  <2>3. /\ file'[p].edge = before.file[p].edge
        /\ p \in changed => (file'[p].text = "absent" => file'[p].edge = {})
        /\ p \notin changed => file'[p] = file[p]
    <3>1. CASE p \in changed
      <4>1. file'[p] = Text(before.file[p]) \/ file'[p] = before.file[p]
        BY <1>9, <3>1 DEF PutBack, Write, TypeInv, HostOK
      <4>2. before.file[p].text = "absent" => before.file[p].edge = {}
        BY DEF RecoverInv, PlanInv
      <4> QED
        BY <3>1, <4>1, <4>2, TextEdge
    <3>2. CASE p \notin changed
      <4>1. file'[p] = file[p]
        BY <1>9, <3>2 DEF PutBack, host
      <4> QED
        BY <2>1, <3>2, <4>1 DEF RecoverInv, PlanInv
    <3> QED
      BY <3>1, <3>2
  <2>4. before.file[p].edge # {} => before.runtime # None
    BY DEF RecoverInv, PlanInv
  <2>5. RecordInv'
    <3>1. ASSUME NEW q \in Parts
          PROVE  /\ file'[q].edge # {} => runtime # None
                 /\ file'[q].text = "absent" => file'[q].edge = {}
      <4>1. CASE q = p /\ p \in changed
        BY <2>1, <2>3, <4>1
      <4>2. CASE q # p \/ p \notin changed
        BY <2>2, <2>3, <4>2 DEF RecoverInv, RecordInv
      <4> QED
        BY <4>1, <4>2
    <3>2. runtime # None => Backed /\ Backed'
      BY <2>1 DEF RecoverInv, RecordInv, Backed
    <3> QED
      BY <2>1, <3>1, <3>2 DEF RecordInv
  <2>6. PlanInv'
    BY <2>0, <2>1, <2>2, <2>3 DEF RecoverInv, PlanInv, Backed
  <2>7. RemovalInv'
    BY <2>0, OtherBlock DEF Applying
  <2>8. ApplyInv'
    <3>1. ASSUME NEW q \in Parts, IsPutBack(q)' PROVE file'[q].edge = before'.file[q].edge
      <4>2. CASE q = p
        BY <2>1, <2>3, <4>2
      <4>3. CASE q # p /\ q = "caddy"
        BY <2>1, <2>2, <4>3 DEF IsPutBack, RecoverInv, ApplyInv, Parts
      <4>4. CASE q # p /\ q = "tailscale"
        <5>1. p = "caddy" /\ Sidecar
          BY <4>4 DEF Parts
        <5>2. at'[1] = "put back" \/ (at'[1] = "bring back" /\ at'[2] = p)
          BY <2>0, <5>1
        <5> QED
          BY <3>1, <4>4, <5>1, <5>2 DEF IsPutBack
      <4> QED
        BY <4>2, <4>3, <4>4 DEF Parts
    <3> QED
      BY <2>0, <2>1, <3>1 DEF ApplyInv
  <2> QED
    BY <2>5, <2>6, <2>7, <2>8 DEF RecoverInv
<1>10. ASSUME NEW p \in Parts, BringBack(p) PROVE RecoverInv'
  <2>1. /\ UNCHANGED <<backup, runtime, before, begun, changed>>
        /\ changed # {} => runtime # None
        /\ at[1] = "bring back" /\ at[2] = p
        /\ IF p = "caddy" /\ Sidecar THEN at'[1] = "put back" /\ at'[2] = "tailscale"
           ELSE at'[1] = "settle"
    <3>1. UNCHANGED <<backup, runtime, before, begun, changed>> /\ at[1] = "bring back" /\ at[2] = p
      BY <1>10 DEF BringBack, state
    <3>2. IF p = "caddy" /\ Sidecar THEN at'[1] = "put back" /\ at'[2] = "tailscale"
          ELSE at'[1] = "settle"
      <4>1. CaddyFirst(p, "put back", <<"settle", "caddy">>)
        BY <1>10 DEF BringBack
      <4> QED
        BY <4>1, CaddyThenNext
    <3> QED
      BY <3>1, <3>2 DEF RecoverInv, ApplyInv
  <2>2. file' = file \/ (before.file[p].text = "absent" /\ file' = [file EXCEPT ![p] = Absent])
    <3>1. CASE BroughtBack(p)
      BY <3>1 DEF BroughtBack, TypeInv, HostOK
    <3>2. CASE NotBroughtBack(p)
      BY <3>2, CommandType DEF NotBroughtBack, TypeInv, host
    <3> QED
      BY <1>10, <3>1, <3>2, BringBackCases
  <2>3. \A q \in Parts \ {p} : file'[q] = file[q]
    BY <2>2 DEF TypeInv, HostOK
  <2>4. /\ file'[p].edge = file[p].edge
        /\ file'[p].edge = before.file[p].edge
        /\ file'[p].text = "absent" => file'[p].edge = {}
    <3>1. file[p].edge = before.file[p].edge /\ (before.file[p].text = "absent" => before.file[p].edge = {})
      <4>1. IsPutBack(p)
        BY <2>1 DEF IsPutBack
      <4> QED
        BY <4>1 DEF RecoverInv, ApplyInv, PlanInv
    <3>2. file' = file \/ (before.file[p].text = "absent" /\ file'[p] = Absent)
      BY <2>2 DEF TypeInv, HostOK
    <3>3. file[p].text = "absent" => file[p].edge = {}
      BY DEF RecoverInv, RecordInv
    <3> QED
      BY <3>1, <3>2, <3>3, AbsentEdge
  <2>5. RecordInv'
    <3>1. runtime # None => Backed /\ Backed'
      BY <2>1 DEF RecoverInv, RecordInv, Backed
    <3>2. /\ \A q \in Parts : file[q].edge # {} => runtime # None
          /\ \A q \in Parts : file[q].text = "absent" => file[q].edge = {}
      BY DEF RecoverInv, RecordInv
    <3>3. ASSUME NEW q \in Parts
          PROVE  /\ file'[q].edge # {} => runtime' # None
                 /\ file'[q].text = "absent" => file'[q].edge = {}
      <4>1. CASE q = p
        BY <2>1, <2>4, <3>2, <4>1
      <4>2. CASE q # p
        BY <2>1, <2>3, <3>2, <4>2
      <4> QED
        BY <4>1, <4>2
    <3>4. runtime' # None => Backed'
      BY <2>1, <3>1
    <3> QED
      BY <3>3, <3>4 DEF RecordInv
  <2>6. PlanInv'
    <3>1. PlanInv /\ (Backed <=> Backed')
      BY <2>1 DEF RecoverInv, Backed
    <3>2. ASSUME NEW q \in Parts, q \notin changed PROVE file'[q].edge = before'.file[q].edge
      <4>1. CASE q = p
        BY <2>1, <2>4, <4>1
      <4>2. CASE q # p
        BY <2>1, <2>3, <3>1, <3>2, <4>2 DEF PlanInv
      <4> QED
        BY <4>1, <4>2
    <3> QED
      BY <2>1, <3>1, <3>2 DEF PlanInv
  <2>7. RemovalInv'
    BY <2>1, OtherBlock DEF Applying
  <2>8. ApplyInv'
    <3>1. ASSUME NEW q \in Parts, IsPutBack(q)' PROVE file'[q].edge = before'.file[q].edge
      <4>1. CASE q = p
        BY <2>1, <2>4, <4>1
      <4>2. CASE q # p
        <5>1. q = "caddy" /\ p = "tailscale"
          BY <2>1, <3>1, <4>2 DEF Parts, IsPutBack
        <5>2. IsPutBack(q)
          BY <2>1, <5>1 DEF IsPutBack
        <5> QED
          BY <2>1, <2>3, <4>2, <5>2 DEF RecoverInv, ApplyInv
      <4> QED
        BY <4>1, <4>2
    <3> QED
      BY <2>1, <3>1 DEF ApplyInv
  <2> QED
    BY <2>5, <2>6, <2>7, <2>8 DEF RecoverInv
<1>11. CASE Settle
  <2>1. /\ UNCHANGED <<file, backup, before, begun, changed>> /\ at[1] = "settle" /\ at'[1] = "blame"
        /\ \A p \in Parts : file[p].edge = before.file[p].edge
        /\ changed # {} => runtime # None
    BY <1>11 DEF Settle, Go, host, job, RecoverInv, ApplyInv, IsPutBack
  <2>2. \/ runtime' = runtime
        \/ runtime # None /\ runtime'.status = "rollback-failed"
        \/ runtime' = before.runtime
    BY <1>11, <2>1 DEF Settle, TypeInv, RecordOK, Runtime
  <2>3. /\ \A p \in Parts : before.file[p].edge # {} => before.runtime # None
        /\ before.runtime # None => Backed
    BY <2>1 DEF RecoverInv, PlanInv
  <2>4. RecordInv'
    <3>1. /\ \A p \in Parts : file[p].edge # {} => runtime' # None
          /\ runtime' # None => Backed
      <4>1. CASE runtime' = runtime
        BY <4>1 DEF RecoverInv, RecordInv
      <4>2. CASE runtime # None /\ runtime'.status = "rollback-failed"
        BY <4>2 DEF RecoverInv, RecordInv, None
      <4>3. CASE runtime' = before.runtime
        BY <2>1, <2>3, <4>3
      <4> QED
        BY <2>2, <4>1, <4>2, <4>3
    <3> QED
      BY <2>1, <3>1 DEF RecoverInv, RecordInv, Backed
  <2>5. PlanInv'
    BY <2>1, QuietPlan DEF RecoverInv
  <2>6. RemovalInv'
    BY <2>1, OtherBlock DEF Applying
  <2>7. ApplyInv'
    BY <2>1 DEF ApplyInv
  <2> QED
    BY <2>4, <2>5, <2>6, <2>7 DEF RecoverInv
<1>12. CASE Activate \/ Blame
  <2>1. UNCHANGED <<file, backup>> /\ (Blame => UNCHANGED runtime)
    BY <1>12 DEF Activate, Blame, host
  <2>2. ASSUME Activate PROVE runtime # None /\ runtime' # None
    <3>1. runtime # None /\ runtime'.status = "active"
      BY <2>2 DEF Activate, RecoverInv, ApplyInv, TypeInv, RecordOK, Runtime
    <3> QED
      BY <3>1 DEF None
  <2>3. RecordInv'
    BY <1>12, <2>1, <2>2 DEF RecoverInv, RecordInv, Backed
  <2>4. PICK r : Report(r)
    BY <1>12 DEF Activate, Blame
  <2> QED
    BY <2>1, <2>3, <2>4, ReportRecover
<1> QED
  BY <1>1, <1>2, <1>3, <1>4, <1>5, <1>6, <1>7, <1>8, <1>9, <1>10, <1>11, <1>12 DEF Apply

(* Before it writes, a reconciliation moves on or gives up.                *)
LEMMA LookOn ==
  ASSUME RecoverInv, UNCHANGED <<file, backup, runtime, before, changed>>,
         begun' = begun \/ runtime # None,
         at[1] \in {"r-start", "r-off", "r-verify", "r-validate"},
         at'[1] \in {"r-off", "r-verify", "r-validate", "r-own", "r-put back"},
         at'[1] = "r-own" => before.runtime # None
  PROVE  RecoverInv'
<1>1. RecordInv' /\ PlanInv'
  BY QuietRecord, QuietPlan DEF RecoverInv
<1>2. ApplyInv'
  BY OtherBlock DEF Removing
<1>3. RemovalInv'
  <2>1. runtime = before.runtime /\ (before.runtime = None => changed = {} /\ begun' = {})
    BY DEF RecoverInv, RemovalInv, Removing
  <2> QED
    BY <2>1 DEF RemovalInv
<1> QED
  BY <1>1, <1>2, <1>3 DEF RecoverInv

(* Once it has written, it runs commands, moves on or gives up.            *)
LEMMA RunOn ==
  ASSUME RecoverInv, UNCHANGED <<file, backup, runtime, before, changed>>,
         at[1] \in {"r-restart", "r-reload", "r-stop"},
         at'[1] \in {"r-restart", "r-reload", "r-stop", "r-drop", "r-activate", "r-put back"},
         at'[1] = "r-drop" => Final
  PROVE  RecoverInv'
<1>1. RecordInv' /\ PlanInv'
  BY QuietRecord, QuietPlan DEF RecoverInv
<1>2. ApplyInv'
  BY OtherBlock DEF Removing
<1>3. RemovalInv'
  <2>1. runtime # None /\ before.runtime # None /\ (Final => \A p \in Parts : file[p].edge = {})
    BY DEF RecoverInv, RemovalInv
  <2> QED
    BY <2>1 DEF RemovalInv, Final
<1> QED
  BY <1>1, <1>2, <1>3 DEF RecoverInv

(* What is left in a file after a removal.                                 *)
LEMMA RemainingRoutes ==
  ASSUME TypeInv, Backed, NEW p \in Parts
  PROVE  /\ Final => Remaining(p).edge = {}
         /\ Remaining(p).text = "absent" => Remaining(p).edge = {}
<1>1. /\ file[p] \in Content /\ backup[p] \in Content
      /\ before.selected \in SUBSET Services /\ before.selected \ before.stale \in SUBSET Services
  BY DEF TypeInv, HostOK, RecordOK, JobOK, Before
<1>2. /\ Merge(Text(file[p]), before.selected).text # "absent"
      /\ Merge(backup[p], before.selected \ before.stale).text # "absent"
      /\ [Text(file[p]) EXCEPT !.edge = {}].edge = {}
  <2>1. Text(file[p]) \in Content
    BY <1>1, ContentType
  <2> QED
    BY <1>1, <2>1, ContentType DEF Content
<1>3. backup[p].edge = {}
  BY DEF Backed
<1> QED
  BY <1>2, <1>3 DEF Remaining

LEMMA RemovalRecover == "plan" \notin Faults /\ TypeInv /\ RecoverInv /\ Reconcile => RecoverInv'
<1> SUFFICES ASSUME "plan" \notin Faults, TypeInv, RecoverInv, Reconcile PROVE RecoverInv'
  OBVIOUS
<1>1. CASE ReconcileRoutes
  <2>1. /\ at[1] = "idle" /\ Plan(Active)
        /\ at' = <<IF Active # {} /\ ~Connected THEN "r-start" ELSE "r-off", "tailscale">>
    BY <1>1 DEF ReconcileRoutes, Go
  <2>2. at'[1] \in {"r-start", "r-off"}
    BY <2>1
  <2> QED
    BY <2>1, <2>2, PlanRecover
<1>2. CASE StartSidecar
  <2>1. /\ UNCHANGED <<file, backup, runtime, before, changed>>
        /\ begun' = begun \/ runtime # None
        /\ at[1] = "r-start"
    <3>1. "tailscale" \in Parts
      BY <1>2 DEF StartSidecar, TypeInv, Parts
    <3> QED
      BY <1>2, <3>1, CommandType DEF StartSidecar, TypeInv, host, state
  <2>2. PICK stage \in {"r-off", "r-put back"} : at' = <<stage, "caddy">>
    BY <1>2 DEF StartSidecar, GiveUp, Go
  <2>3. at'[1] = stage
    BY <2>2
  <2> QED
    BY <2>1, <2>3, LookOn
<1>3. CASE RemoveRoutes \/ VerifyRemoved \/ ValidateRemoval
  <2>1. /\ UNCHANGED <<file, backup, runtime, before, changed, begun>>
        /\ at[1] \in {"r-off", "r-verify", "r-validate"}
    BY <1>3 DEF RemoveRoutes, VerifyRemoved, ValidateRemoval, host, state, job
  <2>2. PICK stage \in {"r-verify", "r-validate", "r-own", "r-put back"} :
          at' = <<stage, "caddy">> /\ (stage = "r-own" => before.runtime # None)
    BY <1>3 DEF RemoveRoutes, VerifyRemoved, ValidateRemoval, GiveUp, Go
  <2>3. at'[1] = stage
    BY <2>2
  <2> QED
    BY <2>1, <2>2, <2>3, LookOn
<1>4. CASE OwnRemoval
  <2>1. /\ UNCHANGED <<file, backup, before, changed, begun>> /\ at[1] = "r-own"
        /\ before.runtime # None /\ runtime'.status = "applying"
    BY <1>4 DEF OwnRemoval, host, job, RecoverInv, RemovalInv, TypeInv, JobOK, Before, Runtime
  <2>2. at'[1] = "r-write" /\ at'[2] = "caddy"
    BY <1>4 DEF OwnRemoval, Go
  <2>3. Backed /\ runtime' # None
    BY <2>1 DEF RecoverInv, PlanInv, None
  <2>4. RecordInv'
    BY <2>1, <2>3 DEF RecoverInv, RecordInv, Backed
  <2>5. PlanInv'
    BY <2>1, <2>2, QuietPlan DEF RecoverInv
  <2>6. ApplyInv'
    BY <2>2, OtherBlock DEF Removing
  <2>7. RemovalInv'
    BY <2>1, <2>2, <2>3 DEF RemovalInv
  <2> QED
    BY <2>4, <2>5, <2>6, <2>7 DEF RecoverInv
<1>5. ASSUME NEW p \in Parts, WriteRemoval(p) PROVE RecoverInv'
  <2>1. /\ UNCHANGED <<backup, runtime, before, begun>>
        /\ at[1] = "r-write" /\ at[2] = p
    BY <1>5 DEF WriteRemoval, state
  <2>2. runtime # None /\ before.runtime # None /\ Backed
    BY <2>1 DEF RecoverInv, RemovalInv, RecordInv
  <2>3. CASE GiveUp /\ UNCHANGED <<host, changed>>
    <3>1. at'[1] = "r-put back" /\ UNCHANGED <<file, changed>>
      BY <2>3 DEF GiveUp, Go, host
    <3>2. RecordInv' /\ PlanInv'
      BY <2>1, <3>1, QuietRecord, QuietPlan DEF RecoverInv
    <3>3. ApplyInv'
      BY <3>1, OtherBlock DEF Removing
    <3>4. RemovalInv'
      BY <2>1, <2>2, <3>1 DEF RemovalInv
    <3> QED
      BY <3>2, <3>3, <3>4 DEF RecoverInv
  <2>4. CASE /\ Write(p, Remaining(p)) /\ changed' = changed \cup {p}
             /\ CaddyFirst(p, "r-write", <<"r-restart", IF Sidecar THEN "tailscale" ELSE "caddy">>)
    <3>1. /\ p = "caddy" /\ Sidecar => at'[1] = "r-write" /\ at'[2] = "tailscale"
          /\ ~(p = "caddy" /\ Sidecar) => at'[1] = "r-restart"
      BY <2>4 DEF CaddyFirst, Go
    <3>2. file'[p] = Remaining(p) /\ \A q \in Parts \ {p} : file'[q] = file[q]
      BY <2>4 DEF Write, TypeInv, HostOK
    <3>3. /\ Final => file'[p].edge = {}
          /\ file'[p].text = "absent" => file'[p].edge = {}
      BY <2>2, <3>2, RemainingRoutes
    <3>4. RecordInv'
      BY <2>1, <2>2, <3>2, <3>3 DEF RecoverInv, RecordInv, Backed
    <3>5. PlanInv'
      BY <2>1, <2>2, <2>4, <3>1, <3>2 DEF RecoverInv, PlanInv, Backed
    <3>6. ApplyInv'
      BY <3>1, OtherBlock DEF Removing
    <3>7. at'[1] = "r-write" /\ at'[2] = "tailscale" /\ Final => file'["caddy"].edge = {}
      BY <3>1, <3>3 DEF Parts
    <3>8. at'[1] = "r-restart" /\ Final => \A q \in Parts : file'[q].edge = {}
      <4>1. CASE p = "caddy"
        BY <3>1, <3>3, <4>1 DEF Parts
      <4>2. CASE p = "tailscale"
        <5>1. Final => file["caddy"].edge = {}
          BY <2>1, <4>2 DEF RecoverInv, RemovalInv
        <5> QED
          BY <3>2, <3>3, <4>2, <5>1 DEF Parts
      <4> QED
        BY <4>1, <4>2 DEF Parts
    <3>9. RemovalInv'
      BY <2>1, <2>2, <3>1, <3>7, <3>8 DEF RemovalInv, Final
    <3> QED
      BY <3>4, <3>5, <3>6, <3>9 DEF RecoverInv
  <2> QED
    BY <1>5, <2>3, <2>4 DEF WriteRemoval
<1>6. ASSUME NEW p \in Parts, Restart(p) \/ Stop(p) PROVE RecoverInv'
  <2>1. /\ UNCHANGED <<file, backup, runtime, before, changed>>
        /\ at[1] \in {"r-restart", "r-stop"}
    BY <1>6, CommandType DEF Restart, Stop, TypeInv, host, state
  <2>2. PICK stage \in {"r-restart", "r-reload", "r-stop", "r-drop", "r-activate", "r-put back"},
             q \in {"caddy", "tailscale"} : at' = <<stage, q>> /\ (stage = "r-drop" => Final)
    BY <1>6 DEF Restart, Stop, GiveUp, Go, CaddyFirst, Parts
  <2>3. at'[1] = stage
    BY <2>2
  <2> QED
    BY <2>1, <2>2, <2>3, RunOn
<1>7. CASE ReloadRemoval
  <2>1. UNCHANGED <<file, backup, runtime, before, changed>> /\ at[1] = "r-reload"
    BY <1>7 DEF ReloadRemoval, state, job
  <2>2. PICK stage \in {"r-stop", "r-put back"} : at' = <<stage, "caddy">>
    BY <1>7 DEF ReloadRemoval, GiveUp, Go
  <2>3. at'[1] = stage
    BY <2>2
  <2> QED
    BY <2>1, <2>2, <2>3, RunOn
<1>8. CASE Drop
  <2>1. /\ UNCHANGED <<backup, runtime, before, changed, begun>> /\ at[1] = "r-drop"
        /\ at'[1] = "r-clear"
    BY <1>8 DEF Drop, Go, state, job
  <2>2. /\ runtime # None /\ before.runtime # None /\ Backed
        /\ \A p \in Parts : file[p].edge = {}
    BY <2>1 DEF RecoverInv, RemovalInv, RecordInv
  <2>3. \A p \in Parts : file'[p] = Absent \/ file'[p] = file[p]
    BY <1>8 DEF Drop, TypeInv, HostOK
  <2>4. \A p \in Parts : file'[p].edge = {}
    BY <2>2, <2>3, AbsentEdge
  <2>5. RecordInv'
    BY <2>1, <2>2, <2>4 DEF RecordInv, Backed
  <2>6. PlanInv'
    BY <2>1, <2>2 DEF RecoverInv, PlanInv, Backed
  <2>7. ApplyInv'
    BY <2>1, OtherBlock DEF Removing
  <2>8. RemovalInv'
    BY <2>1, <2>2, <2>4 DEF RemovalInv
  <2> QED
    BY <2>5, <2>6, <2>7, <2>8 DEF RecoverInv
<1>9. CASE Clear
  <2>1. /\ UNCHANGED <<file, backup, before, changed, begun>> /\ at[1] = "r-clear"
        /\ at'[1] = "r-tidy" /\ runtime' = None
    BY <1>9 DEF Clear, Go, host, job
  <2>2. before.runtime # None /\ \A p \in Parts : file[p].edge = {}
    BY <2>1 DEF RecoverInv, RemovalInv
  <2>3. RecordInv'
    BY <2>1, <2>2 DEF RecordInv
  <2>4. PlanInv'
    BY <2>1 DEF RecoverInv, PlanInv, Backed
  <2>5. ApplyInv'
    BY <2>1, OtherBlock DEF Removing
  <2>6. RemovalInv'
    BY <2>1, <2>2 DEF RemovalInv
  <2> QED
    BY <2>3, <2>4, <2>5, <2>6 DEF RecoverInv
<1>10. CASE Tidy
  <2>1. /\ UNCHANGED <<runtime, before, changed, begun>> /\ at[1] = "r-tidy" /\ at'[1] = "r-forget"
    BY <1>10 DEF Tidy, Go, job
  <2>2. /\ runtime = None /\ \A p \in Parts : file[p].edge = {}
        /\ before.runtime = None => changed = {} /\ begun = {}
    BY <2>1 DEF RecoverInv, RemovalInv, RecordInv, Removing
  <2>3. \A p \in Parts : file'[p] = Absent \/ file'[p] = file[p]
    BY <1>10 DEF Tidy
  <2>4. \A p \in Parts : file'[p].edge = {}
    BY <2>2, <2>3, AbsentEdge
  <2>5. RecordInv'
    BY <2>1, <2>2, <2>4 DEF RecordInv
  <2>6. PlanInv'
    BY <2>1 DEF RecoverInv, PlanInv
  <2>7. ApplyInv'
    BY <2>1, OtherBlock DEF Removing
  <2>8. RemovalInv'
    BY <2>1, <2>2 DEF RemovalInv
  <2> QED
    BY <2>5, <2>6, <2>7, <2>8 DEF RecoverInv
<1>11. CASE ActivateRemoval
  <2>1. /\ UNCHANGED <<file, backup, before, changed, begun>> /\ at[1] = "r-activate"
        /\ at'[1] = "r-forget"
    BY <1>11 DEF ActivateRemoval, Go, host, job
  <2>2. before.runtime # None /\ Backed
    BY <2>1 DEF RecoverInv, RemovalInv, RecordInv
  <2>3. runtime' # None
    <3>1. runtime'.status = "active"
      BY <1>11 DEF ActivateRemoval, TypeInv, JobOK, Before, Runtime
    <3> QED
      BY <3>1 DEF None
  <2>4. RecordInv'
    BY <2>1, <2>2, <2>3 DEF RecoverInv, RecordInv, Backed
  <2>5. PlanInv'
    BY <2>1 DEF RecoverInv, PlanInv
  <2>6. ApplyInv'
    BY <2>1, OtherBlock DEF Removing
  <2>7. RemovalInv'
    BY <2>1, <2>2 DEF RemovalInv
  <2> QED
    BY <2>4, <2>5, <2>6, <2>7 DEF RecoverInv
<1>12. CASE Forget
  <2>1. /\ UNCHANGED <<file, backup, runtime, before, changed, begun>> /\ at[1] = "r-forget"
        /\ at'[1] = "r-plan"
    BY <1>12 DEF Forget, Go, host, job
  <2>2. RecordInv'
    BY <2>1, QuietRecord DEF RecoverInv
  <2>3. PlanInv'
    BY <2>1 DEF RecoverInv, PlanInv
  <2>4. ApplyInv'
    BY <2>1, OtherBlock DEF Removing
  <2>5. RemovalInv'
    <3>1. before.runtime = None => changed = {} /\ begun = {}
      BY <2>1 DEF RecoverInv, RemovalInv, Removing
    <3> QED
      BY <2>1, <3>1 DEF RemovalInv
  <2> QED
    BY <2>2, <2>3, <2>4, <2>5 DEF RecoverInv
<1>13. CASE PlanAgain \/ Republish
  <2>1. UNCHANGED <<file, backup, runtime>>
    BY <1>13 DEF PlanAgain, Republish, host, state
  <2>2. RecordInv'
    BY <2>1, QuietRecord DEF RecoverInv
  <2>3. PICK r : Report(r)
    BY <1>13 DEF PlanAgain, Republish
  <2> QED
    BY <2>1, <2>2, <2>3, ReportRecover
<1>14. ASSUME NEW p \in Parts, RestoreFile(p) PROVE RecoverInv'
  <2>1. /\ UNCHANGED <<backup, before, changed, begun>> /\ at[1] = "r-put back" /\ at[2] = p
    BY <1>14 DEF RestoreFile, job
  <2>2. /\ before.runtime = None => changed = {} /\ begun = {}
        /\ before.runtime # None => runtime # None /\ Backed
        /\ before.file[p].text = "absent" => before.file[p].edge = {}
        /\ \A q \in Parts : q \notin changed => file[q].edge = before.file[q].edge
        /\ \A q \in Parts : before.file[q].edge # {} => before.runtime # None
    BY <2>1 DEF RecoverInv, RemovalInv, RecordInv, PlanInv, Removing
  <2>3. CASE p \in changed \cup (begun \cap {"tailscale"})
    <3>1. before.runtime # None /\ runtime # None /\ Backed
      BY <2>2, <2>3
    <3>2. at' = <<"r-bring back", p>> /\ runtime' = runtime
      BY <1>14, <2>3 DEF RestoreFile, Go
    <3>3. at'[1] = "r-bring back"
      BY <3>2
    <3>4. /\ \A q \in Parts \ {p} : file'[q] = file[q]
          /\ file'[p] = file[p] \/ (p \in changed /\ file'[p] = Text(before.file[p]))
      BY <1>14 DEF RestoreFile, Write, host, TypeInv, HostOK
    <3>5. Text(before.file[p]).text # "absent"
      BY <2>2, TextEdge
    <3>6. RecordInv'
      <4>1. \A q \in Parts : file'[q].text = "absent" => file'[q].edge = {}
        BY <3>4, <3>5 DEF RecoverInv, RecordInv
      <4> QED
        BY <2>1, <3>1, <3>2, <4>1 DEF RecordInv, Backed
    <3>7. PlanInv'
      <4>1. \A q \in Parts : q \notin changed => file'[q].edge = before.file[q].edge
        BY <2>2, <3>4
      <4> QED
        BY <2>1, <3>1, <4>1 DEF RecoverInv, PlanInv, Backed
    <3>8. ApplyInv'
      BY <3>3, OtherBlock DEF Removing
    <3>9. RemovalInv'
      BY <2>1, <3>1, <3>2, <3>3 DEF RemovalInv
    <3> QED
      BY <3>6, <3>7, <3>8, <3>9 DEF RecoverInv
  <2>4. CASE p \notin changed \cup (begun \cap {"tailscale"})
    <3>1. UNCHANGED file /\ runtime' \in {runtime, before.runtime}
      BY <1>14, <2>4 DEF RestoreFile, host
    <3>2. CaddyFirst(p, "r-put back", <<"r-republish", "caddy">>)
      BY <1>14, <2>4 DEF RestoreFile
    <3>3. at'[1] \in {"r-put back", "r-republish"}
      BY <3>2, CaddyThenNext
    <3>4. RecordInv'
      <4>1. CASE runtime' = runtime
        BY <2>1, <3>1, <4>1, QuietRecord DEF RecoverInv
      <4>2. CASE runtime' = before.runtime
        <5>1. \A q \in Parts : file[q].edge # {} => before.runtime # None
          BY <2>2
        <5> QED
          BY <2>1, <2>2, <3>1, <4>2, <5>1 DEF RecoverInv, RecordInv, Backed
      <4> QED
        BY <3>1, <4>1, <4>2
    <3>5. PlanInv'
      BY <2>1, <3>1, <3>3, QuietPlan DEF RecoverInv
    <3>6. ApplyInv'
      BY <3>3, OtherBlock DEF Removing
    <3>7. RemovalInv'
      BY <2>1, <2>2, <3>1, <3>3 DEF RemovalInv
    <3> QED
      BY <3>4, <3>5, <3>6, <3>7 DEF RecoverInv
  <2> QED
    BY <2>3, <2>4
<1>15. ASSUME NEW p \in Parts, RestoreRun(p) PROVE RecoverInv'
  <2>1. /\ UNCHANGED <<backup, before, changed, begun>> /\ at[1] = "r-bring back"
        /\ CaddyFirst(p, "r-put back", <<"r-republish", "caddy">>)
    BY <1>15 DEF RestoreRun
  <2>2. before.runtime # None /\ Backed
    BY <2>1 DEF RecoverInv, RemovalInv, PlanInv
  <2>3. at'[1] \in {"r-put back", "r-republish"}
    BY <2>1, CaddyThenNext
  <2>4. file' = file /\ runtime' # None
    <3>1. CASE RestoredRun(p)
      BY <2>2, <3>1 DEF RestoredRun
    <3>2. CASE NotRestoredRun(p)
      <4>1. file' = file
        BY <3>2, CommandType DEF NotRestoredRun, TypeInv, host
      <4>2. runtime'.status = "rollback-failed"
        BY <3>2 DEF NotRestoredRun, TypeInv, JobOK, Before, Runtime
      <4> QED
        BY <4>1, <4>2 DEF None
    <3> QED
      BY <1>15, <3>1, <3>2, RestoreRunCases
  <2>5. RecordInv'
    BY <2>1, <2>2, <2>4 DEF RecoverInv, RecordInv, Backed
  <2>6. PlanInv'
    BY <2>1, <2>3, <2>4, QuietPlan DEF RecoverInv
  <2>7. ApplyInv'
    BY <2>3, OtherBlock DEF Removing
  <2>8. RemovalInv'
    BY <2>1, <2>2, <2>3, <2>4 DEF RemovalInv
  <2> QED
    BY <2>5, <2>6, <2>7, <2>8 DEF RecoverInv
<1> QED
  BY <1>1, <1>2, <1>3, <1>4, <1>5, <1>6, <1>7, <1>8, <1>9, <1>10, <1>11, <1>12, <1>13,
     <1>14, <1>15 DEF Reconcile

LEMMA RecoverStep ==
  ASSUME "plan" \notin Faults
  PROVE  TypeInv /\ RecoverInv /\ [Next]_vars => RecoverInv'
<1> SUFFICES ASSUME TypeInv, RecoverInv, [Next]_vars PROVE RecoverInv'
  OBVIOUS
<1>1. CASE Crash
  <2>1. UNCHANGED <<file, backup, runtime>> /\ Report("none")
    BY <1>1 DEF Crash, host, state
  <2> QED
    BY <2>1, QuietRecord, ReportRecover DEF RecoverInv
<1>2. CASE User \/ UNCHANGED vars
  <2>1. /\ UNCHANGED <<file, backup, runtime, before, changed, begun, at>>
    BY <1>2, CommandType DEF User, ConfigEdited, UserStops, TypeInv, host, state, job, vars
  <2>2. RecordInv' /\ PlanInv'
    BY <2>1, QuietRecord, QuietPlan DEF RecoverInv
  <2>3. ApplyInv' /\ RemovalInv'
    BY <2>1 DEF RecoverInv, ApplyInv, RemovalInv, IsPutBack, Final, Backed
  <2> QED
    BY <2>2, <2>3 DEF RecoverInv
<1> QED
  BY <1>1, <1>2, ApplyRecover, RemovalRecover DEF Next

(* Whatever fails, times out or crashes, a file with our routes in it has  *)
(* a record and a backup, and no backup holds our routes: planner.ts takes *)
(* the backups away only after the record (lines 1090 to 1097).  The plan  *)
(* at the end of a reconciliation must not throw (line 1119): the catch    *)
(* block would put the routes back when the backups are gone.              *)
THEOREM FilesAreRecoverable == "plan" \notin Faults => (Spec => []Recoverable)
<1> SUFFICES ASSUME "plan" \notin Faults PROVE Spec => []Recoverable
  OBVIOUS
<1>1. Init => RecoverInv
  BY DEF Init, RecoverInv, RecordInv, PlanInv, ApplyInv, RemovalInv, IsPutBack, Removing,
         NoPlan, Absent, Blank, None, Backed
<1>2. TypeInv /\ RecoverInv /\ [Next]_vars => RecoverInv'
  BY RecoverStep
<1>3. RecoverInv => Recoverable
  BY DEF RecoverInv, RecordInv, Recoverable, Backed
<1> QED
  BY <1>1, <1>2, <1>3, TypesHold, PTL DEF Spec

-----------------------------------------------------------------------------
(* Who started what                                                        *)

(* This part is down, or LocalLink has started it.                         *)
Ours(p) == running[p] => starter[p] = "locallink"

(* The record, the plan and the attempt only claim what is LocalLink's.    *)
OwnInv ==
  /\ \A p \in Parts : runtime.started[p] => Ours(p)
  /\ \A p \in Parts : before.runtime.started[p] => Ours(p)
  /\ \A p \in Parts : p \in begun => Ours(p)
  /\ \A p \in Parts : at[1] # "idle" /\ ~before.running[p] => Ours(p)
  /\ at[1] = "r-start" => Ours("tailscale")

(* What a step does to the two services.                                   *)
LEMMA ServiceSteps ==
  ASSUME TypeInv, [Next]_vars
  PROVE  \/ UNCHANGED <<running, starter>>
         \/ \E p \in Parts : BroughtBack(p) \/ RestoredRun(p)
         \/ \E p \in Parts : \E outcome : Up(p, outcome)
         \/ \E p \in Parts : \E outcome :
              Down(p, outcome) /\ (at[1] = "idle" \/ p \in begun \/ before.runtime.started[p])
<1>1. CASE Apply
  <2>1. ASSUME NEW p \in Parts, Start(p)
        PROVE  UNCHANGED <<running, starter>> \/ \E outcome : Up(p, outcome)
    BY <2>1 DEF Start, host
  <2>2. ASSUME NEW p \in Parts, BringBack(p)
        PROVE  \/ UNCHANGED <<running, starter>> \/ BroughtBack(p)
               \/ p \in begun /\ \E outcome : Down(p, outcome)
    <3>1. CASE NotBroughtBack(p)
      BY <3>1 DEF NotBroughtBack, host
    <3> QED
      BY <2>2, <3>1, BringBackCases
  <2>3. ASSUME NEW p \in Parts, Backup(p) \/ WriteConfig(p) \/ PutBack(p)
        PROVE  UNCHANGED <<running, starter>>
    BY <2>3 DEF Backup, WriteConfig, PutBack, Write, host
  <2>4. CASE \/ ApplyRoutes \/ AdoptRoutes \/ Adopt \/ Validate \/ Own \/ Reload \/ Publish
             \/ Verify \/ Record \/ Activate \/ Unpublish \/ Settle \/ Blame
    BY <2>4 DEF ApplyRoutes, AdoptRoutes, Adopt, Validate, Own, Reload, Publish, Verify, Record,
                Activate, Unpublish, Settle, Blame, Plan, host
  <2> QED
    BY <1>1, <2>1, <2>2, <2>3, <2>4 DEF Apply
<1>2. CASE Reconcile
  <2>1. CASE StartSidecar
    <3>1. "tailscale" \in Parts
      BY <2>1 DEF StartSidecar, TypeInv, Parts
    <3> QED
      BY <2>1, <3>1 DEF StartSidecar, host
  <2>2. ASSUME NEW p \in Parts, Restart(p)
        PROVE  UNCHANGED <<running, starter>> \/ \E outcome : Up(p, outcome)
    BY <2>2 DEF Restart, host
  <2>3. ASSUME NEW p \in Parts, Stop(p)
        PROVE  \/ UNCHANGED <<running, starter>>
               \/ before.runtime.started[p] /\ \E outcome : Down(p, outcome)
    BY <2>3 DEF Stop, host
  <2>4. ASSUME NEW p \in Parts, RestoreRun(p)
        PROVE  \/ UNCHANGED <<running, starter>> \/ RestoredRun(p)
               \/ (\E outcome : Up(p, outcome)) \/ (p \in begun /\ \E outcome : Down(p, outcome))
    <3>1. CASE NotRestoredRun(p)
      BY <3>1 DEF NotRestoredRun, host
    <3> QED
      BY <2>4, <3>1, RestoreRunCases
  <2>5. ASSUME NEW p \in Parts, WriteRemoval(p) \/ RestoreFile(p)
        PROVE  UNCHANGED <<running, starter>>
    BY <2>5 DEF WriteRemoval, RestoreFile, Write, host
  <2>6. CASE \/ ReconcileRoutes \/ RemoveRoutes \/ VerifyRemoved \/ ValidateRemoval \/ OwnRemoval
             \/ ReloadRemoval \/ Drop \/ Clear \/ Tidy \/ ActivateRemoval \/ Forget \/ PlanAgain
             \/ Republish
    BY <2>6 DEF ReconcileRoutes, RemoveRoutes, VerifyRemoved, ValidateRemoval, OwnRemoval,
                ReloadRemoval, Drop, Clear, Tidy, ActivateRemoval, Forget, PlanAgain, Republish,
                Plan, host
  <2> QED
    BY <1>2, <2>1, <2>2, <2>3, <2>4, <2>5, <2>6 DEF Reconcile
<1>3. CASE Crash \/ User \/ UNCHANGED vars
  <2>1. ASSUME NEW p \in Parts, UserStops(p)
        PROVE  at[1] = "idle" /\ \E outcome : Down(p, outcome)
    BY <2>1 DEF UserStops
  <2>2. CASE Crash \/ ConfigEdited \/ UNCHANGED vars
    BY <2>2 DEF Crash, ConfigEdited, host, vars
  <2> QED
    BY <1>3, <2>1, <2>2 DEF User
<1> QED
  BY <1>1, <1>2, <1>3 DEF Next

(* No step makes a service of LocalLink's the user's.                      *)
LEMMA OursStays ==
  ASSUME TypeInv, [Next]_vars, NEW q \in Parts, Ours(q) PROVE Ours(q)'
<1>1. CASE UNCHANGED <<running, starter>>
  BY <1>1 DEF Ours
<1>2. ASSUME NEW p \in Parts, BroughtBack(p) PROVE Ours(q)'
  BY <1>2 DEF Ours, BroughtBack, TypeInv, HostOK
<1>3. ASSUME NEW p \in Parts, RestoredRun(p) PROVE Ours(q)'
  BY <1>3 DEF Ours, RestoredRun, TypeInv, HostOK
<1>4. ASSUME NEW p \in Parts, NEW outcome, Up(p, outcome) PROVE Ours(q)'
  BY <1>4 DEF Ours, Up, TypeInv, HostOK, host
<1>5. ASSUME NEW p \in Parts, NEW outcome, Down(p, outcome) PROVE Ours(q)'
  BY <1>5 DEF Ours, Down, TypeInv, HostOK, host
<1> QED
  BY <1>1, <1>2, <1>3, <1>4, <1>5, ServiceSteps

(* An attempt only stops what it has started itself or what the record     *)
(* claims.                                                                 *)
LEMMA WhatIsStopped ==
  ASSUME TypeInv, [Next]_vars, at[1] # "idle", NEW q \in Parts, running[q], ~running'[q]
  PROVE  q \in begun \/ before.runtime.started[q]
<1>2. ASSUME NEW p \in Parts, BroughtBack(p) PROVE q \in begun
  BY <1>2 DEF BroughtBack, TypeInv, HostOK
<1>3. ASSUME NEW p \in Parts, RestoredRun(p) PROVE q \in begun
  BY <1>3 DEF RestoredRun, TypeInv, HostOK
<1>4. ASSUME NEW p \in Parts, NEW outcome PROVE ~Up(p, outcome)
  BY DEF Up, TypeInv, HostOK, host
<1>5. ASSUME NEW p \in Parts, NEW outcome, Down(p, outcome) PROVE q = p
  BY <1>5 DEF Down, TypeInv, HostOK, host
<1> QED
  BY <1>2, <1>3, <1>4, <1>5, ServiceSteps

(* Where what the record, the attempt and its plan say comes from.         *)
LEMMA WhatIsRecorded ==
  ASSUME TypeInv, [Next]_vars, NEW q \in Parts, runtime'.started[q]
  PROVE  \/ runtime.started[q] \/ before.runtime.started[q] \/ q \in begun
         \/ at[1] # "idle" /\ ~before.running[q]
<1>0. /\ runtime \in Runtime /\ before.runtime \in Runtime /\ ~None.started[q]
      /\ before.running \in [Parts -> BOOLEAN]
  BY DEF TypeInv, RecordOK, JobOK, Before, None
<1>1. \A r \in Runtime : /\ [r EXCEPT !.status = "active"].started = r.started
                         /\ [r EXCEPT !.status = "applying"].started = r.started
                         /\ [r EXCEPT !.status = "rollback-failed"].started = r.started
  BY DEF Runtime
<1>2. CASE runtime' = runtime
  BY <1>2
<1>3. CASE Apply
  <2>1. CASE Own
    <3>1. runtime'.started = [p \in Parts |-> runtime.started[p] \/ ~before.running[p]] /\ at[1] = "own"
      BY <2>1 DEF Own
    <3> QED
      BY <3>1
  <2>2. CASE Activate \/ Settle
    <3>1. \/ runtime' = runtime \/ runtime' = before.runtime
          \/ runtime' = [runtime EXCEPT !.status = "active"]
          \/ runtime' = [runtime EXCEPT !.status = "rollback-failed"]
      BY <2>2 DEF Activate, Settle
    <3> QED
      BY <1>0, <1>1, <3>1
  <2>3. CASE \/ ApplyRoutes \/ AdoptRoutes \/ Adopt \/ Validate \/ Reload \/ Publish
             \/ Verify \/ Record \/ Unpublish \/ Blame
    <3>1. runtime' = runtime
      BY <2>3 DEF ApplyRoutes, AdoptRoutes, Adopt, Validate, Reload, Publish, Verify, Record,
                  Unpublish, Blame, Plan, state
    <3> QED
      BY <1>2, <3>1
  <2>4. ASSUME NEW p \in Parts, Backup(p) \/ WriteConfig(p) \/ Start(p) \/ PutBack(p) \/ BringBack(p)
        PROVE  runtime' = runtime
    BY <2>4 DEF Backup, WriteConfig, Start, PutBack, BringBack, state
  <2> QED
    BY <1>2, <1>3, <2>1, <2>2, <2>3, <2>4 DEF Apply
<1>4. CASE Reconcile
  <2>1. CASE OwnRemoval
    <3>1. runtime'.started = before.runtime.started
      BY <1>0, <1>1, <2>1 DEF OwnRemoval
    <3> QED
      BY <3>1
  <2>2. CASE Clear
    BY <1>0, <2>2 DEF Clear
  <2>3. CASE ActivateRemoval
    <3>1. runtime'.started[q] = (before.runtime.started[q] \/ q \in begun)
      BY <1>0, <2>3 DEF ActivateRemoval, Runtime
    <3> QED
      BY <3>1
  <2>4. CASE \/ ReconcileRoutes \/ StartSidecar \/ RemoveRoutes \/ VerifyRemoved \/ ValidateRemoval
             \/ ReloadRemoval \/ Drop \/ Tidy \/ Forget \/ PlanAgain \/ Republish
    <3>1. runtime' = runtime
      BY <2>4 DEF ReconcileRoutes, StartSidecar, RemoveRoutes, VerifyRemoved, ValidateRemoval,
                  ReloadRemoval, Drop, Tidy, Forget, PlanAgain, Republish, Plan, state
    <3> QED
      BY <1>2, <3>1
  <2>5. ASSUME NEW p \in Parts, WriteRemoval(p) \/ Restart(p) \/ Stop(p) PROVE runtime' = runtime
    BY <2>5 DEF WriteRemoval, Restart, Stop, state
  <2>6. ASSUME NEW p \in Parts, RestoreFile(p)
        PROVE  runtime' = runtime \/ runtime'.started = before.runtime.started
    BY <2>6 DEF RestoreFile
  <2>7. ASSUME NEW p \in Parts, RestoreRun(p) PROVE runtime'.started = before.runtime.started
    <3>1. runtime' = before.runtime \/ runtime' = [before.runtime EXCEPT !.status = "rollback-failed"]
      BY <2>7 DEF RestoreRun
    <3> QED
      BY <1>0, <1>1, <3>1
  <2> QED
    BY <1>2, <1>4, <2>1, <2>2, <2>3, <2>4, <2>5, <2>6, <2>7 DEF Reconcile
<1>5. CASE Crash \/ User \/ UNCHANGED vars
  <2>1. runtime' = runtime
    BY <1>5 DEF Crash, User, ConfigEdited, UserStops, state, vars
  <2> QED
    BY <1>2, <2>1
<1> QED
  BY <1>3, <1>4, <1>5 DEF Next

LEMMA WhatIsBegun ==
  ASSUME TypeInv, [Next]_vars, NEW q \in Parts, q \in begun'
  PROVE  \/ q \in begun \/ (at[1] = "r-start" /\ q = "tailscale")
         \/ at[1] # "idle" /\ ~before.running[q]
<1>1. CASE Apply
  <2>1. ASSUME NEW p \in Parts, Start(p)
        PROVE  begun' = begun \/ (begun' = begun \cup {p} /\ at[1] # "idle" /\ ~before.running[p])
    BY <2>1 DEF Start
  <2>2. ASSUME NEW p \in Parts, Backup(p) \/ WriteConfig(p) \/ PutBack(p) \/ BringBack(p)
        PROVE  begun' = begun
    BY <2>2 DEF Backup, WriteConfig, PutBack, BringBack, job
  <2>3. CASE \/ ApplyRoutes \/ AdoptRoutes \/ Adopt \/ Validate \/ Own \/ Reload \/ Publish
             \/ Verify \/ Record \/ Activate \/ Unpublish \/ Settle \/ Blame
    <3>1. begun' = begun \/ begun' = {}
      BY <2>3 DEF ApplyRoutes, AdoptRoutes, Adopt, Validate, Own, Reload, Publish, Verify, Record,
                  Activate, Unpublish, Settle, Blame, Plan, Report, job
    <3> QED
      BY <3>1
  <2> QED
    BY <1>1, <2>1, <2>2, <2>3 DEF Apply
<1>2. CASE Reconcile
  <2>1. CASE StartSidecar
    BY <2>1 DEF StartSidecar
  <2>2. ASSUME NEW p \in Parts, Restart(p)
        PROVE  begun' = begun \/ (begun' = begun \cup {p} /\ at[1] # "idle" /\ ~before.running[p])
    BY <2>2 DEF Restart
  <2>3. ASSUME NEW p \in Parts, WriteRemoval(p) \/ Stop(p) \/ RestoreFile(p) \/ RestoreRun(p)
        PROVE  begun' = begun
    BY <2>3 DEF WriteRemoval, Stop, RestoreFile, RestoreRun, job
  <2>4. CASE \/ ReconcileRoutes \/ RemoveRoutes \/ VerifyRemoved \/ ValidateRemoval \/ OwnRemoval
             \/ ReloadRemoval \/ Drop \/ Clear \/ Tidy \/ ActivateRemoval \/ Forget \/ PlanAgain
             \/ Republish
    <3>1. begun' = begun \/ begun' = {}
      BY <2>4 DEF ReconcileRoutes, RemoveRoutes, VerifyRemoved, ValidateRemoval, OwnRemoval,
                  ReloadRemoval, Drop, Clear, Tidy, ActivateRemoval, Forget, PlanAgain, Republish,
                  Plan, Report, job
    <3> QED
      BY <3>1
  <2> QED
    BY <1>2, <2>1, <2>2, <2>3, <2>4 DEF Reconcile
<1>3. CASE Crash \/ User \/ UNCHANGED vars
  BY <1>3 DEF Crash, User, ConfigEdited, UserStops, Report, job, vars
<1> QED
  BY <1>1, <1>2, <1>3 DEF Next

(* A plan is made, kept through its attempt, and forgotten at its end.     *)
LEMMA WhatIsPlanned ==
  ASSUME TypeInv, [Next]_vars
  PROVE  \/ before' = before /\ (at' = at \/ (at[1] # "idle" /\ at'[1] # "r-start"))
         \/ before' = NoPlan /\ at'[1] = "idle"
         \/ /\ at[1] = "idle" /\ \E todo : Plan(todo)
            /\ at'[1] = "r-start" => ~running["tailscale"]
<1>1. CASE Apply
  <2>1. CASE ApplyRoutes \/ AdoptRoutes
    <3>1. at[1] = "idle" /\ \E todo : Plan(todo)
      BY <2>1 DEF ApplyRoutes, AdoptRoutes
    <3>2. at'[1] # "r-start"
      BY <2>1 DEF ApplyRoutes, AdoptRoutes, Go
    <3> QED
      BY <3>1, <3>2
  <2>2. CASE Activate \/ Blame
    BY <2>2 DEF Activate, Blame, Report
  <2>3. CASE Adopt \/ Validate \/ Own \/ Reload \/ Publish \/ Verify \/ Record \/ Unpublish \/ Settle
    <3>1. before' = before /\ at[1] # "idle"
      BY <2>3 DEF Adopt, Validate, Own, Reload, Publish, Verify, Record, Unpublish, Settle, job
    <3>2. PICK stage \in {"activate", "backup", "own", "unpublish", "write", "publish", "verify",
                          "record", "put back", "blame"} : at' = <<stage, "caddy">>
      BY <2>3 DEF Adopt, Validate, Own, Reload, Publish, Verify, Record, Unpublish, Settle, Go
    <3>3. at'[1] = stage
      BY <3>2
    <3> QED
      BY <3>1, <3>3
  <2>4. ASSUME NEW p \in Parts, Backup(p) \/ WriteConfig(p) \/ Start(p) \/ PutBack(p) \/ BringBack(p)
        PROVE  before' = before /\ at[1] # "idle" /\ at'[1] # "r-start"
    <3>1. before' = before /\ at[1] # "idle"
      <4>1. before' = before
        BY <2>4 DEF Backup, WriteConfig, Start, PutBack, BringBack, job
      <4>2. PICK stage \in {"backup", "write", "start", "put back", "bring back"} : at = <<stage, p>>
        BY <2>4 DEF Backup, WriteConfig, Start, PutBack, BringBack
      <4> QED
        BY <4>1, <4>2
    <3>2. PICK stage \in {"backup", "own", "write", "start", "reload", "unpublish", "bring back",
                          "put back", "settle"}, q \in {"caddy", "tailscale"} : at' = <<stage, q>>
      BY <2>4 DEF Backup, WriteConfig, Start, PutBack, BringBack, Go, CaddyFirst, Parts
    <3>3. at'[1] = stage
      BY <3>2
    <3> QED
      BY <3>1, <3>3
  <2> QED
    BY <1>1, <2>1, <2>2, <2>3, <2>4 DEF Apply
<1>2. CASE Reconcile
  <2>1. CASE ReconcileRoutes
    <3>1. at' = <<IF Active # {} /\ ~Connected THEN "r-start" ELSE "r-off", "tailscale">>
      BY <2>1 DEF ReconcileRoutes, Go
    <3>2. at'[1] = "r-start" => ~running["tailscale"]
      BY <3>1 DEF Connected
    <3> QED
      BY <2>1, <3>2 DEF ReconcileRoutes
  <2>2. CASE PlanAgain \/ Republish
    <3>1. (\E r : Report(r)) \/ (before' = before /\ at[1] # "idle" /\ at' = <<"r-put back", "caddy">>)
      BY <2>2 DEF PlanAgain, Republish, GiveUp, Go, job
    <3>2. CASE \E r : Report(r)
      BY <3>2 DEF Report
    <3>3. CASE before' = before /\ at[1] # "idle" /\ at' = <<"r-put back", "caddy">>
      <4>1. at'[1] = "r-put back"
        BY <3>3
      <4> QED
        BY <3>3, <4>1
    <3> QED
      BY <3>1, <3>2, <3>3
  <2>3. CASE \/ StartSidecar \/ RemoveRoutes \/ VerifyRemoved \/ ValidateRemoval \/ OwnRemoval
             \/ ReloadRemoval \/ Drop \/ Clear \/ Tidy \/ ActivateRemoval \/ Forget
    <3>1. before' = before /\ at[1] # "idle"
      BY <2>3 DEF StartSidecar, RemoveRoutes, VerifyRemoved, ValidateRemoval, OwnRemoval,
                  ReloadRemoval, Drop, Clear, Tidy, ActivateRemoval, Forget, job
    <3>2. PICK stage \in {"r-off", "r-put back", "r-verify", "r-validate", "r-own", "r-write", "r-stop",
                          "r-clear", "r-tidy", "r-forget", "r-plan"} : at' = <<stage, "caddy">>
      BY <2>3 DEF StartSidecar, RemoveRoutes, VerifyRemoved, ValidateRemoval, OwnRemoval,
                  ReloadRemoval, Drop, Clear, Tidy, ActivateRemoval, Forget, GiveUp, Go
    <3>3. at'[1] = stage
      BY <3>2
    <3> QED
      BY <3>1, <3>3
  <2>4. ASSUME NEW p \in Parts,
               WriteRemoval(p) \/ Restart(p) \/ Stop(p) \/ RestoreFile(p) \/ RestoreRun(p)
        PROVE  before' = before /\ at[1] # "idle" /\ at'[1] # "r-start"
    <3>1. before' = before /\ at[1] # "idle"
      <4>1. before' = before
        BY <2>4 DEF WriteRemoval, Restart, Stop, RestoreFile, RestoreRun, job
      <4>2. PICK stage \in {"r-write", "r-restart", "r-stop", "r-put back", "r-bring back"} : at = <<stage, p>>
        BY <2>4 DEF WriteRemoval, Restart, Stop, RestoreFile, RestoreRun
      <4> QED
        BY <4>1, <4>2
    <3>2. PICK stage \in {"r-write", "r-restart", "r-reload", "r-stop", "r-drop", "r-activate",
                          "r-put back", "r-bring back", "r-republish"},
               q \in {"caddy", "tailscale"} : at' = <<stage, q>>
      BY <2>4 DEF WriteRemoval, Restart, Stop, RestoreFile, RestoreRun, GiveUp, Go, CaddyFirst, Parts
    <3>3. at'[1] = stage
      BY <3>2
    <3> QED
      BY <3>1, <3>3
  <2> QED
    BY <1>2, <2>1, <2>2, <2>3, <2>4 DEF Reconcile
<1>3. CASE Crash \/ User \/ UNCHANGED vars
  BY <1>3 DEF Crash, User, ConfigEdited, UserStops, Report, job, vars
<1> QED
  BY <1>1, <1>2, <1>3 DEF Next

LEMMA OwnStep ==
  ASSUME "probe" \notin Faults, TypeInv, OwnInv, [Next]_vars PROVE OwnInv'
<1>1. ASSUME NEW p \in Parts, Ours(p) PROVE Ours(p)'
  BY <1>1, OursStays
<1>2. ASSUME NEW p \in Parts, runtime'.started[p] PROVE Ours(p)'
  <2>1. Ours(p)
    BY <1>2, WhatIsRecorded DEF OwnInv
  <2> QED
    BY <1>1, <2>1
<1>3. ASSUME NEW p \in Parts, p \in begun' PROVE Ours(p)'
  <2>1. Ours(p)
    BY <1>3, WhatIsBegun DEF OwnInv
  <2> QED
    BY <1>1, <2>1
<1>4. /\ \A p \in Parts : before'.runtime.started[p] => Ours(p)'
      /\ \A p \in Parts : at'[1] # "idle" /\ ~before'.running[p] => Ours(p)'
      /\ at'[1] = "r-start" => Ours("tailscale")'
  <2>1. CASE before' = before /\ (at' = at \/ (at[1] # "idle" /\ at'[1] # "r-start"))
    <3>1. at'[1] = "r-start" => "tailscale" \in Parts /\ Ours("tailscale")
      BY <2>1 DEF OwnInv, TypeInv, Parts
    <3>2. \A p \in Parts : at'[1] # "idle" /\ ~before'.running[p] => Ours(p)
      BY <2>1 DEF OwnInv
    <3> QED
      BY <1>1, <2>1, <3>1, <3>2 DEF OwnInv
  <2>2. CASE before' = NoPlan /\ at'[1] = "idle"
    BY <2>2 DEF NoPlan, None
  <2>3. CASE /\ at[1] = "idle" /\ \E todo : Plan(todo)
             /\ at'[1] = "r-start" => ~running["tailscale"]
    <3>1. before'.runtime = runtime /\ before'.running = running /\ UNCHANGED running
      BY <2>3 DEF Plan, Probes, host
    <3>2. \A p \in Parts : runtime.started[p] => Ours(p)'
      BY <1>1 DEF OwnInv
    <3> QED
      BY <2>3, <3>1, <3>2 DEF Ours
  <2> QED
    BY <2>1, <2>2, <2>3, WhatIsPlanned
<1> QED
  BY <1>2, <1>3, <1>4 DEF OwnInv

(* A service that the user has started is never stopped by an attempt, not *)
(* by a rollback and not by a final removal (planner.ts:781, 799, 1063 and *)
(* 1069), as long as docker compose ps tells what is running: a failing    *)
(* one reads as a Caddy that is down (caddy-runtime.ts:160), which the     *)
(* attempt then claims to have started.                                    *)
THEOREM OnlyOwnIsStopped == "probe" \notin Faults => (Spec => StopsOnlyOwn)
<1> SUFFICES ASSUME "probe" \notin Faults PROVE Spec => StopsOnlyOwn
  OBVIOUS
<1>1. Init => OwnInv
  BY DEF Init, OwnInv, None, NoPlan
<1>2. TypeInv /\ OwnInv /\ [Next]_vars => OwnInv'
  BY OwnStep
<1>3. TypeInv /\ OwnInv /\ [Next]_vars =>
        [\A p \in Parts :
           at[1] # "idle" /\ running[p] /\ ~running'[p] => starter[p] = "locallink"]_vars
  <2> SUFFICES ASSUME TypeInv, OwnInv, [Next]_vars, NEW p \in Parts,
                      at[1] # "idle", running[p], ~running'[p]
               PROVE  starter[p] = "locallink"
    OBVIOUS
  <2>1. Ours(p)
    BY WhatIsStopped DEF OwnInv
  <2> QED
    BY <2>1 DEF Ours
<1> QED
  BY <1>1, <1>2, <1>3, TypesHold, PTL DEF Spec, StopsOnlyOwn

-----------------------------------------------------------------------------
(* What a failed attempt leaves                                            *)

(* Every file is written at these stages.                                  *)
Wrote == {"start", "reload", "publish", "verify", "record", "r-restart", "r-reload", "r-stop",
          "r-drop", "r-clear", "r-tidy", "r-activate", "r-forget", "r-plan"}

(* The catch block is past this part.                                      *)
IsDone(p) ==
  \/ at[1] \in {"settle", "blame", "r-republish"}
  \/ at[1] \in {"put back", "bring back", "r-put back", "r-bring back"} /\ at[2] = "tailscale"
       /\ p = "caddy"

ShapeInv ==
  /\ at[1] = "idle" => changed = {} /\ begun = {} /\ stopped = {} /\ broken = {}
  /\ at[1] # "idle" => result = "none"
  /\ at[1] \in Wrote => changed = Parts
  /\ at[1] \in {"write", "r-write"} /\ at[2] = "tailscale" => "caddy" \in changed
  /\ at[1] = "bring back" => at[2] \in changed

FileInv ==
  /\ at[1] # "idle" => \A p \in Parts : p \notin changed => file[p] = before.file[p]
  /\ \A p \in Parts : IsDone(p) \/ (at[1] \in {"bring back", "r-bring back"} /\ at[2] = p) =>
       Text(file[p]) = Text(before.file[p])

(* A part that has been started is up again or down again, whatever it was.*)
ServiceInv ==
  /\ at[1] # "idle" =>
       \A p \in Parts : p \notin begun \cup stopped => running[p] = before.running[p]
  /\ \A p \in begun : ~before.running[p] /\ (p \in changed \/ (p = "tailscale" /\ at[1] \in Removing))
  /\ \A p \in stopped : p \in changed /\ (before.running[p] \/ p \in begun) /\ at[1] \in Removing
  /\ at[1] = "r-start" => ~before.running["tailscale"]
  /\ broken = {} => \A p \in Parts : IsDone(p) => running[p] = before.running[p]

ClaimInv ==
  /\ \/ at[1] \in {"validate", "backup", "own"}
     \/ at[1] \in {"unpublish", "put back", "bring back", "settle"} /\ changed = {}
     => runtime = before.runtime
  /\ /\ broken = {}
     /\ \/ at[1] \in {"blame", "r-republish"}
        \/ at[1] \in {"r-put back", "r-bring back"} /\ at[2] = "tailscale"
     => runtime = before.runtime

RestoreInv == ShapeInv /\ FileInv /\ ServiceInv /\ ClaimInv

(* Short of the catch block, an attempt writes and starts what it notes.   *)
LEMMA Onward ==
  ASSUME TypeInv, RestoreInv, at[1] # "idle", UNCHANGED <<before, broken, result>>,
         NEW stage, NEW q, at' = <<stage, q>>,
         stage \notin {"idle", "r-start", "settle", "blame", "r-republish", "bring back", "r-bring back"},
         stage \in {"put back", "r-put back"} => q = "caddy",
         at[1] \in Removing => stage \in Removing,
         changed \subseteq changed',
         stage \in Wrote => changed' = Parts,
         stage \in {"write", "r-write"} /\ q = "tailscale" => "caddy" \in changed',
         \A p \in Parts : p \notin changed' => file'[p] = file[p],
         begun \subseteq begun', stopped \subseteq stopped',
         \A p \in Parts : p \notin begun' \cup stopped' => running'[p] = running[p],
         \A p \in begun' : p \in begun \/ (/\ ~before.running[p]
                                           /\ p \in changed' \/ (p = "tailscale" /\ stage \in Removing)),
         \A p \in stopped' : p \in stopped \/ (/\ p \in changed' /\ stage \in Removing
                                               /\ before.running[p] \/ p \in begun'),
         stage \in {"validate", "backup", "own"} \/ (stage \in {"unpublish", "put back"} /\ changed' = {})
           => runtime' = before.runtime
  PROVE  RestoreInv'
<1>0. at'[1] = stage /\ at'[2] = q
  OBVIOUS
<1>1. \A p : ~IsDone(p)'
  BY <1>0 DEF IsDone
<1>2. ShapeInv'
  BY <1>0 DEF RestoreInv, ShapeInv
<1>3. FileInv'
  BY <1>0, <1>1 DEF RestoreInv, FileInv
<1>4. ServiceInv'
  <2>1. \A p \in Parts : p \notin begun' \cup stopped' => running'[p] = before'.running[p]
    BY DEF RestoreInv, ServiceInv
  <2>2. \A p \in begun' : ~before.running[p] /\ (p \in changed' \/ (p = "tailscale" /\ stage \in Removing))
    BY DEF RestoreInv, ServiceInv
  <2>3. \A p \in stopped' : p \in changed' /\ (before.running[p] \/ p \in begun') /\ stage \in Removing
    BY DEF RestoreInv, ServiceInv
  <2> QED
    BY <1>0, <1>1, <2>1, <2>2, <2>3 DEF ServiceInv
<1>5. ClaimInv'
  BY <1>0 DEF ClaimInv
<1> QED
  BY <1>2, <1>3, <1>4, <1>5 DEF RestoreInv

LEMMA ReportRestore == ASSUME NEW r, Report(r) PROVE RestoreInv'
<1>1. /\ at'[1] = "idle" /\ changed' = {} /\ begun' = {} /\ stopped' = {} /\ broken' = {}
  BY DEF Report
<1> QED
  BY <1>1 DEF RestoreInv, ShapeInv, FileInv, ServiceInv, ClaimInv, IsDone, Wrote

LEMMA PlanRestore ==
  ASSUME "probe" \notin Faults, TypeInv, RestoreInv, at[1] = "idle", NEW todo, Plan(todo),
         at'[1] \in {"validate", "adopt", "r-start", "r-off"},
         at'[1] = "r-start" => ~running["tailscale"]
  PROVE  RestoreInv'
<1>1. /\ before'.file = file /\ before'.running = running /\ before'.runtime = runtime
      /\ result' = "none" /\ UNCHANGED <<file, running, runtime, changed, begun, stopped, broken>>
  BY DEF Plan, Probes, host, state
<1>2. changed' = {} /\ begun' = {} /\ stopped' = {} /\ broken' = {}
  BY <1>1 DEF RestoreInv, ShapeInv
<1> QED
  BY <1>1, <1>2 DEF RestoreInv, ShapeInv, FileInv, ServiceInv, ClaimInv, IsDone, Wrote

(* Up and Down with no late effect: a failing command does nothing.        *)
LEMMA Commands ==
  ASSUME "late" \notin Faults, HostOK, NEW p \in Parts, NEW outcome \in Outcomes,
         Up(p, outcome) \/ Down(p, outcome)
  PROVE  /\ file' = file /\ \A q \in Parts \ {p} : running'[q] = running[q]
         /\ outcome # "ok" => running' = running
BY DEF Outcomes, Up, Down, HostOK, host

LEMMA TextTwice == \A c : Text(Text(c)) = Text(c) /\ Text(Absent) = Blank /\ Text(Blank) = Blank
BY DEF Text, Absent, Blank

LEMMA AtApply ==
  ASSUME NEW stage, at[1] = stage, stage \in Applying
  PROVE  at[1] \notin Removing /\ at[1] # "idle"
BY DEF Applying, Removing

(* In the catch block: a file is put back.                                 *)
LEMMA PutPart ==
  ASSUME RestoreInv, NEW p, at[2] = p, at[1] \in {"put back", "r-put back"},
         UNCHANGED <<running, before, changed, begun, stopped, broken, result, runtime>>,
         NEW stage, at' = <<stage, p>>,
         at[1] = "put back" => stage = "bring back" /\ p \in changed,
         at[1] = "r-put back" => stage = "r-bring back",
         \A q \in Parts \ {p} : file'[q] = file[q],
         Text(file'[p]) = Text(before.file[p]),
         p \notin changed => file'[p] = before.file[p]
  PROVE  RestoreInv'
<1>0. at'[1] = stage /\ at'[2] = p /\ stage \in {"bring back", "r-bring back"} /\ at[1] # "idle"
  OBVIOUS
<1>1. \A q : IsDone(q)' => IsDone(q) /\ (q = "caddy" /\ p = "tailscale")
  BY <1>0 DEF IsDone
<1>2. ShapeInv'
  BY <1>0 DEF RestoreInv, ShapeInv, Wrote
<1>3. FileInv'
  <2>1. \A q \in Parts : IsDone(q)' \/ q = p => Text(file'[q]) = Text(before'.file[q])
    BY <1>1 DEF RestoreInv, FileInv
  <2>2. \A q \in Parts : q \notin changed' => file'[q] = before'.file[q]
    BY <1>0 DEF RestoreInv, FileInv
  <2> QED
    BY <1>0, <2>1, <2>2 DEF FileInv
<1>4. ServiceInv'
  <2>1. at[1] \in Removing => at'[1] \in Removing
    BY <1>0 DEF Removing
  <2> QED
    BY <1>0, <1>1, <2>1 DEF RestoreInv, ServiceInv
<1>5. ClaimInv'
  BY <1>0 DEF RestoreInv, ClaimInv
<1> QED
  BY <1>2, <1>3, <1>4, <1>5 DEF RestoreInv

(* In the catch block: one part is done, the next one follows.             *)
LEMMA NextPart ==
  ASSUME RestoreInv, NEW p \in Parts, at[2] = p,
         at[1] \in {"put back", "bring back", "r-put back", "r-bring back"},
         UNCHANGED <<before, changed, begun, stopped, result>>,
         broken' = {} => broken = {},
         NEW back, NEW last, CaddyFirst(p, back, <<last, "caddy">>),
         at[1] \in {"put back", "bring back"} => back = "put back" /\ last = "settle",
         at[1] \in {"r-put back", "r-bring back"} => back = "r-put back" /\ last = "r-republish",
         \A q \in Parts \ {p} : file'[q] = file[q] /\ running'[q] = running[q],
         Text(file'[p]) = Text(before.file[p]),
         p \notin changed => file'[p] = before.file[p],
         broken' = {} \/ p \notin begun \cup stopped => running'[p] = before.running[p],
         ClaimInv'
  PROVE  RestoreInv'
<1>0. /\ p = "caddy" /\ Sidecar => at'[1] = back /\ at'[2] = "tailscale"
      /\ ~(p = "caddy" /\ Sidecar) => at'[1] = last /\ at'[2] = "caddy"
      /\ at[1] # "idle" /\ at'[1] \in {back, last}
  <2>1. /\ p = "caddy" /\ Sidecar => at'[1] = back /\ at'[2] = "tailscale"
        /\ ~(p = "caddy" /\ Sidecar) => at'[1] = last /\ at'[2] = "caddy"
    BY ONLY CaddyFirst(p, back, <<last, "caddy">>), CaddyThenNext
  <2> QED
    BY <2>1
<1>1. \A q \in Parts : IsDone(q)' => q = p \/ IsDone(q)
  BY <1>0 DEF IsDone, Parts
<1>2. ShapeInv'
  BY <1>0 DEF RestoreInv, ShapeInv, Wrote
<1>3. FileInv'
  <2>1. \A q \in Parts : IsDone(q)' => Text(file'[q]) = Text(before'.file[q])
    BY <1>1 DEF RestoreInv, FileInv
  <2>2. \A q \in Parts : q \notin changed' => file'[q] = before'.file[q]
    BY <1>0 DEF RestoreInv, FileInv
  <2> QED
    BY <1>0, <2>1, <2>2 DEF FileInv
<1>4. ServiceInv'
  <2>1. at[1] \in Removing => at'[1] \in Removing
    BY <1>0 DEF Removing
  <2>2. \A q \in Parts : q \notin begun' \cup stopped' => running'[q] = before'.running[q]
    BY ZenonT(60), <1>0 DEF RestoreInv, ServiceInv
  <2>3. broken' = {} => \A q \in Parts : IsDone(q)' => running'[q] = before'.running[q]
    BY <1>1 DEF RestoreInv, ServiceInv
  <2>4. at'[1] # "r-start"
    BY <1>0
  <2> QED
    BY <2>1, <2>2, <2>3, <2>4 DEF RestoreInv, ServiceInv
<1> QED
  BY <1>2, <1>3, <1>4 DEF RestoreInv

LEMMA ApplyRestore ==
  {"late", "probe"} \cap Faults = {} /\ TypeInv /\ RestoreInv /\ Apply => RestoreInv'
<1> SUFFICES ASSUME "late" \notin Faults, "probe" \notin Faults, TypeInv, RestoreInv, Apply
             PROVE  RestoreInv'
  OBVIOUS
<1>0. "caddy" \in Parts /\ Parts # {}
  BY DEF Parts
<1>1. CASE ApplyRoutes \/ AdoptRoutes
  <2>1. PICK services : Plan(services)
    BY <1>1 DEF ApplyRoutes, AdoptRoutes
  <2>2. at[1] = "idle" /\ at'[1] \in {"validate", "adopt"}
    BY <1>1 DEF ApplyRoutes, AdoptRoutes, Go
  <2> QED
    BY <2>1, <2>2, PlanRestore
<1>2. CASE Activate \/ Blame
  BY <1>2, ReportRestore DEF Activate, Blame
<1>3. CASE Adopt \/ Validate \/ Own \/ Reload \/ Publish \/ Verify \/ Record \/ Unpublish
  <2>1. /\ UNCHANGED <<file, running, before, changed, begun, stopped, broken, result>>
        /\ at[1] \in {"adopt", "validate", "own", "reload", "publish", "verify", "record", "unpublish"}
    BY <1>3 DEF Adopt, Validate, Own, Reload, Publish, Verify, Record, Unpublish, host, job
  <2>2. at[1] \notin Removing /\ at[1] # "idle"
    BY <2>1, AtApply DEF Applying
  <2>3. PICK stage \in {"activate", "backup", "own", "unpublish", "write", "publish", "verify",
                        "record", "put back"} :
          /\ at' = <<stage, "caddy">>
          /\ stage \in {"backup", "own"} => at[1] = "validate" /\ runtime' = runtime
          /\ stage = "put back" => at[1] = "unpublish" /\ runtime' = runtime
          /\ stage \in {"publish", "verify", "record"} => at[1] \in {"reload", "publish", "verify"}
          /\ stage = "unpublish" => at[1] \in {"validate", "reload", "publish", "verify"} /\ runtime' = runtime
    BY <1>3 DEF Adopt, Validate, Own, Reload, Publish, Verify, Record, Unpublish, Go, state
  <2>4. stage \in Wrote => changed' = Parts
    BY <2>1, <2>3 DEF Wrote, RestoreInv, ShapeInv
  <2>5. stage \in {"backup", "own"} \/ (stage \in {"unpublish", "put back"} /\ changed' = {})
          => runtime' = before.runtime
    <3>1. CASE stage \in {"backup", "own", "put back"}
      <4>1. /\ at[1] = (IF stage = "put back" THEN "unpublish" ELSE "validate")
            /\ runtime' = runtime
        BY <2>3, <3>1
      <4> QED
        BY <2>1, <3>1, <4>1 DEF RestoreInv, ClaimInv
    <3>2. CASE stage = "unpublish"
      <4>1. runtime' = runtime /\ (at[1] = "validate" \/ at[1] \in {"reload", "publish", "verify"})
        BY <2>3, <3>2
      <4>2. at[1] \in {"reload", "publish", "verify"} => changed' = Parts
        BY <2>1 DEF Wrote, RestoreInv, ShapeInv
      <4>3. at[1] = "validate" => runtime = before.runtime
        BY DEF RestoreInv, ClaimInv
      <4> QED
        BY <1>0, <3>2, <4>1, <4>2, <4>3
    <3> QED
      BY <3>1, <3>2
  <2> QED
    BY <2>1, <2>2, <2>3, <2>4, <2>5, Onward
<1>4. ASSUME NEW p \in Parts, Backup(p) PROVE RestoreInv'
  <2>1. /\ UNCHANGED <<file, running, before, changed, begun, stopped, broken, result, runtime>>
        /\ at[1] = "backup"
    BY <1>4 DEF Backup, host, job
  <2>2. at[1] \notin Removing /\ at[1] # "idle"
    BY <2>1, AtApply DEF Applying
  <2>3. PICK stage \in {"backup", "own"}, q \in {"caddy", "tailscale"} : at' = <<stage, q>>
    BY <1>4 DEF Backup, CaddyFirst, Go
  <2>4. stage \notin Wrote /\ runtime' = before.runtime
    BY <2>1, <2>3 DEF Wrote, RestoreInv, ClaimInv
  <2> QED
    BY <2>1, <2>2, <2>3, <2>4, Onward
<1>5. ASSUME NEW p \in Parts, WriteConfig(p) PROVE RestoreInv'
  <2>1. /\ UNCHANGED <<running, before, begun, stopped, broken, result>>
        /\ at[1] = "write" /\ at[2] = p /\ changed' = changed \cup {p}
    BY <1>5 DEF WriteConfig, Write
  <2>2. at[1] \notin Removing /\ at[1] # "idle"
    BY <2>1, AtApply DEF Applying
  <2>3. \A q \in Parts \ {p} : file'[q] = file[q]
    BY <1>5 DEF WriteConfig, Write, TypeInv, HostOK
  <2>4. PICK stage \in {"write", "start"}, q \in {"caddy", "tailscale"} :
          /\ at' = <<stage, q>>
          /\ stage = "write" => p = "caddy"
          /\ stage = "start" => ~(p = "caddy" /\ Sidecar)
    BY <1>5 DEF WriteConfig, CaddyFirst, Go
  <2>5. p = "tailscale" => "caddy" \in changed
    BY <2>1 DEF RestoreInv, ShapeInv
  <2>6. stage = "start" => changed' = Parts
    <3>1. CASE p = "caddy"
      BY <2>1, <2>4, <3>1 DEF Parts, TypeInv, JobOK
    <3>2. CASE p = "tailscale"
      BY <2>1, <2>5, <3>2 DEF Parts, TypeInv, JobOK
    <3> QED
      BY <3>1, <3>2 DEF Parts
  <2>7. stage \in Wrote => stage = "start"
    BY <2>4 DEF Wrote
  <2> QED
    BY <2>1, <2>2, <2>3, <2>4, <2>6, <2>7, Onward
<1>6. ASSUME NEW p \in Parts, Start(p) PROVE RestoreInv'
  <2>1. /\ UNCHANGED <<before, changed, stopped, broken, result>>
        /\ at[1] = "start" /\ at[2] = p
    BY <1>6 DEF Start
  <2>2. at[1] \notin Removing /\ at[1] # "idle" /\ changed = Parts
    BY <2>1, AtApply DEF Applying, Wrote, RestoreInv, ShapeInv
  <2>3. PICK stage \in {"start", "reload", "unpublish"}, q \in {"caddy", "tailscale"} : at' = <<stage, q>>
    BY <1>6 DEF Start, Go
  <2>4. \/ UNCHANGED <<running, begun>>
        \/ /\ begun' = begun \cup {p} /\ ~before.running[p]
           /\ \A r \in Parts \ {p} : running'[r] = running[r]
    BY <1>6, Commands DEF Start, host, TypeInv
  <2> QED
    BY <1>0, <2>1, <2>2, <2>3, <2>4, Onward
<1>7. ASSUME NEW p \in Parts, PutBack(p) PROVE RestoreInv'
  <2>1. /\ UNCHANGED <<running, before, changed, begun, stopped, broken, result, runtime>>
        /\ at[1] = "put back" /\ at[2] = p
    BY <1>7 DEF PutBack, Write, host, state, job
  <2>2. at[1] \notin Removing /\ at[1] # "idle"
    BY <2>1, AtApply DEF Applying
  <2>3. CASE p \in changed
    <3>1. at' = <<"bring back", p>>
      BY <1>7, <2>3 DEF PutBack, Go
    <3>2. /\ \A q \in Parts \ {p} : file'[q] = file[q]
          /\ file'[p] = Text(before.file[p]) \/ file'[p] = before.file[p]
      BY <1>7, <2>3 DEF PutBack, Write, TypeInv, HostOK
    <3>3. Text(file'[p]) = Text(before.file[p])
      BY <3>2, TextTwice
    <3> QED
      BY <2>1, <2>3, <3>1, <3>2, <3>3, PutPart
  <2>4. CASE p \notin changed
    <3>1. CaddyFirst(p, "put back", <<"settle", "caddy">>) /\ file' = file
      BY <1>7, <2>4 DEF PutBack, host
    <3>2. file[p] = before.file[p]
      BY <2>2, <2>4 DEF RestoreInv, FileInv
    <3>3. running[p] = before.running[p]
      BY <2>2, <2>4 DEF RestoreInv, ServiceInv
    <3>4. at'[1] \in {"put back", "settle"}
      BY <3>1, CaddyThenNext
    <3>5. ClaimInv'
      BY <2>1, <3>4 DEF RestoreInv, ClaimInv
    <3> QED
      BY <2>1, <3>1, <3>2, <3>3, <3>5, NextPart
  <2> QED
    BY <2>3, <2>4
<1>8. ASSUME NEW p \in Parts, BringBack(p) PROVE RestoreInv'
  <2>1. /\ UNCHANGED <<before, changed, begun, stopped, result, runtime>>
        /\ at[1] = "bring back" /\ at[2] = p
        /\ CaddyFirst(p, "put back", <<"settle", "caddy">>)
    BY <1>8 DEF BringBack, state
  <2>2. at[1] \notin Removing /\ at[1] # "idle"
    BY <2>1, AtApply DEF Applying
  <2>3. p \in changed /\ p \notin stopped /\ Text(file[p]) = Text(before.file[p])
    BY <2>1, <2>2 DEF RestoreInv, ShapeInv, FileInv, ServiceInv
  <2>4. /\ p \notin begun => running[p] = before.running[p]
        /\ p \in begun => before.running[p] = FALSE
    BY <2>2, <2>3 DEF RestoreInv, ServiceInv, TypeInv, JobOK, Before
  <2>5. /\ \A q \in Parts \ {p} : file'[q] = file[q] /\ running'[q] = running[q]
        /\ Text(file'[p]) = Text(before.file[p])
        /\ broken' = {} => broken = {}
        /\ broken' = {} \/ p \notin begun \cup stopped => running'[p] = before.running[p]
    <3>1. CASE BroughtBack(p)
      <4>1. /\ \A q \in Parts \ {p} : file'[q] = file[q] /\ running'[q] = running[q]
            /\ broken' = broken
            /\ running'[p] = (running[p] /\ p \notin begun)
            /\ file'[p] = file[p] \/ (before.file[p].text = "absent" /\ file'[p] = Absent)
        BY <3>1 DEF BroughtBack, TypeInv, HostOK
      <4>2. running'[p] = before.running[p]
        <5>1. CASE p \in begun
          BY <2>4, <4>1, <5>1
        <5>2. CASE p \notin begun
          BY <2>4, <4>1, <5>2 DEF TypeInv, HostOK
        <5> QED
          BY <5>1, <5>2
      <4>3. Text(file'[p]) = Text(before.file[p])
        BY <2>3, <4>1, TextTwice DEF Text
      <4> QED
        BY <4>1, <4>2, <4>3
    <3>2. CASE NotBroughtBack(p)
      <4>1. file' = file /\ running' = running /\ broken' # {}
        BY <3>2, Commands DEF NotBroughtBack, host, TypeInv
      <4> QED
        BY <2>3, <2>4, <4>1
    <3> QED
      BY <1>8, <3>1, <3>2, BringBackCases
  <2>6. at'[1] \in {"put back", "settle"}
    BY <2>1, CaddyThenNext
  <2>7. ClaimInv'
    BY <2>1, <2>3, <2>6 DEF ClaimInv
  <2> QED
    BY <2>1, <2>3, <2>5, <2>7, NextPart
<1>9. CASE Settle
  <2>1. /\ UNCHANGED <<file, running, before, changed, begun, stopped, broken, result>>
        /\ at[1] = "settle" /\ at'[1] = "blame"
    BY <1>9 DEF Settle, Go, host, job
  <2>2. at[1] \notin Removing /\ at[1] # "idle"
    BY <2>1, AtApply DEF Applying
  <2>3. broken = {} => runtime' = before.runtime
    BY <1>9, <2>1 DEF Settle, RestoreInv, ClaimInv
  <2>4. \A p : IsDone(p) /\ IsDone(p)'
    BY <2>1 DEF IsDone
  <2>5. ShapeInv' /\ FileInv'
    BY <2>1, <2>4 DEF RestoreInv, ShapeInv, FileInv, Wrote
  <2>6. ServiceInv'
    BY <2>1, <2>2, <2>4 DEF RestoreInv, ServiceInv
  <2>7. ClaimInv'
    BY <2>1, <2>3 DEF ClaimInv
  <2> QED
    BY <2>5, <2>6, <2>7 DEF RestoreInv
<1> QED
  BY <1>1, <1>2, <1>3, <1>4, <1>5, <1>6, <1>7, <1>8, <1>9 DEF Apply

LEMMA RemovalRestore ==
  {"late", "probe"} \cap Faults = {} /\ TypeInv /\ RestoreInv /\ Reconcile => RestoreInv'
<1> SUFFICES ASSUME "late" \notin Faults, "probe" \notin Faults, TypeInv, RestoreInv, Reconcile
             PROVE  RestoreInv'
  OBVIOUS
<1>0. "caddy" \in Parts /\ Parts # {}
  BY DEF Parts
<1>1. CASE ReconcileRoutes
  <2>1. /\ at[1] = "idle" /\ Plan(Active)
        /\ at' = <<IF Active # {} /\ ~Connected THEN "r-start" ELSE "r-off", "tailscale">>
    BY <1>1 DEF ReconcileRoutes, Go
  <2>2. at'[1] \in {"r-start", "r-off"} /\ (at'[1] = "r-start" => ~running["tailscale"])
    BY <2>1 DEF Connected
  <2> QED
    BY <2>1, <2>2, PlanRestore
<1>2. CASE StartSidecar
  <2>1. /\ UNCHANGED <<before, changed, stopped, broken, result>> /\ at[1] = "r-start"
    BY <1>2 DEF StartSidecar
  <2>2. "tailscale" \in Parts /\ ~before.running["tailscale"]
    BY <2>1 DEF RestoreInv, ServiceInv, TypeInv, Parts
  <2>3. PICK stage \in {"r-off", "r-put back"} : at' = <<stage, "caddy">>
    BY <1>2 DEF StartSidecar, GiveUp, Go
  <2>4. /\ file' = file
        /\ \/ UNCHANGED <<running, begun>>
           \/ /\ begun' = begun \cup {"tailscale"}
              /\ \A r \in Parts \ {"tailscale"} : running'[r] = running[r]
    BY <1>2, <2>2, Commands DEF StartSidecar, host, TypeInv
  <2>5. stage \in Removing /\ stage \notin Wrote /\ at[1] # "idle"
    BY <2>1, <2>3 DEF Removing, Wrote
  <2> QED
    BY <2>1, <2>2, <2>3, <2>4, <2>5, Onward
<1>3. CASE RemoveRoutes \/ VerifyRemoved \/ ValidateRemoval \/ OwnRemoval
  <2>1. /\ UNCHANGED <<file, running, before, changed, begun, stopped, broken, result>>
        /\ at[1] \in {"r-off", "r-verify", "r-validate", "r-own"}
    BY <1>3 DEF RemoveRoutes, VerifyRemoved, ValidateRemoval, OwnRemoval, host, job
  <2>2. PICK stage \in {"r-verify", "r-put back", "r-validate", "r-own", "r-write"} : at' = <<stage, "caddy">>
    BY <1>3 DEF RemoveRoutes, VerifyRemoved, ValidateRemoval, OwnRemoval, GiveUp, Go
  <2>3. stage \in Removing /\ stage \notin Wrote /\ at[1] # "idle"
    BY <2>1, <2>2 DEF Removing, Wrote
  <2> QED
    BY <2>1, <2>2, <2>3, Onward
<1>4. CASE ReloadRemoval \/ Clear \/ ActivateRemoval \/ Forget
  <2>1. /\ UNCHANGED <<file, running, before, changed, begun, stopped, broken, result>>
        /\ at[1] \in {"r-reload", "r-clear", "r-activate", "r-forget"}
    BY <1>4 DEF ReloadRemoval, Clear, ActivateRemoval, Forget, host, job
  <2>2. changed = Parts /\ at[1] # "idle"
    BY <2>1 DEF Wrote, RestoreInv, ShapeInv
  <2>3. PICK stage \in {"r-stop", "r-put back", "r-tidy", "r-forget", "r-plan"} : at' = <<stage, "caddy">>
    BY <1>4 DEF ReloadRemoval, Clear, ActivateRemoval, Forget, GiveUp, Go
  <2>4. stage \in Removing
    BY <2>3 DEF Removing
  <2> QED
    BY <2>1, <2>2, <2>3, <2>4, Onward
<1>5. CASE Drop \/ Tidy
  <2>1. /\ UNCHANGED <<running, before, changed, begun, stopped, broken, result>>
        /\ at[1] \in {"r-drop", "r-tidy"}
    BY <1>5 DEF Drop, Tidy, job
  <2>2. changed = Parts /\ at[1] # "idle"
    BY <2>1 DEF Wrote, RestoreInv, ShapeInv
  <2>3. PICK stage \in {"r-clear", "r-forget"} : at' = <<stage, "caddy">>
    BY <1>5 DEF Drop, Tidy, Go
  <2>4. stage \in Removing
    BY <2>3 DEF Removing
  <2> QED
    BY <2>1, <2>2, <2>3, <2>4, Onward
<1>6. CASE PlanAgain \/ Republish
  <2>1. CASE \E r : Report(r)
    BY <2>1, ReportRestore
  <2>2. CASE PlanAgain /\ GiveUp /\ UNCHANGED <<job, result>>
    <3>1. /\ UNCHANGED <<file, running, before, changed, begun, stopped, broken, result>>
          /\ at[1] = "r-plan" /\ at' = <<"r-put back", "caddy">>
      BY <2>2 DEF PlanAgain, GiveUp, Go, host, job
    <3>2. "r-put back" \in Removing /\ "r-put back" \notin Wrote /\ at[1] # "idle"
      BY <3>1 DEF Removing, Wrote
    <3> QED
      BY <3>1, <3>2, Onward
  <2> QED
    BY <1>6, <2>1, <2>2 DEF PlanAgain, Republish
<1>7. ASSUME NEW p \in Parts, WriteRemoval(p) PROVE RestoreInv'
  <2>1. /\ UNCHANGED <<running, before, begun, stopped, broken, result>>
        /\ at[1] = "r-write" /\ at[2] = p
    BY <1>7 DEF WriteRemoval, Write, host
  <2>2. CASE GiveUp /\ UNCHANGED <<host, changed>>
    <3>1. /\ UNCHANGED <<file, changed>> /\ at' = <<"r-put back", "caddy">>
      BY <2>2 DEF GiveUp, Go, host
    <3>2. "r-put back" \in Removing /\ "r-put back" \notin Wrote /\ at[1] # "idle"
      BY <2>1 DEF Removing, Wrote
    <3> QED
      BY <2>1, <3>1, <3>2, Onward
  <2>3. CASE /\ Write(p, Remaining(p)) /\ changed' = changed \cup {p}
             /\ CaddyFirst(p, "r-write", <<"r-restart", IF Sidecar THEN "tailscale" ELSE "caddy">>)
    <3>1. \A q \in Parts \ {p} : file'[q] = file[q]
      BY <2>3 DEF Write, TypeInv, HostOK
    <3>2. PICK stage \in {"r-write", "r-restart"}, q \in {"caddy", "tailscale"} :
            /\ at' = <<stage, q>>
            /\ stage = "r-write" => p = "caddy"
            /\ stage = "r-restart" => ~(p = "caddy" /\ Sidecar)
      BY <2>3 DEF CaddyFirst, Go
    <3>3. p = "tailscale" => "caddy" \in changed
      BY <2>1 DEF RestoreInv, ShapeInv
    <3>4. stage = "r-restart" => changed' = Parts
      <4>1. CASE p = "caddy"
        BY <2>3, <3>2, <4>1 DEF Parts, TypeInv, JobOK
      <4>2. CASE p = "tailscale"
        BY <2>3, <3>3, <4>2 DEF Parts, TypeInv, JobOK
      <4> QED
        BY <4>1, <4>2 DEF Parts
    <3>5. (stage \in Wrote => stage = "r-restart") /\ stage \in Removing /\ at[1] # "idle"
      BY <2>1, <3>2 DEF Wrote, Removing
    <3> QED
      BY <2>1, <2>3, <3>1, <3>2, <3>4, <3>5, Onward
  <2> QED
    BY <1>7, <2>2, <2>3 DEF WriteRemoval
<1>8. ASSUME NEW p \in Parts, Restart(p) PROVE RestoreInv'
  <2>1. /\ UNCHANGED <<before, changed, stopped, broken, result>> /\ at[1] = "r-restart"
    BY <1>8 DEF Restart
  <2>2. changed = Parts /\ at[1] # "idle"
    BY <2>1 DEF Wrote, RestoreInv, ShapeInv
  <2>3. PICK stage \in {"r-restart", "r-reload", "r-put back"}, q \in {"caddy", "tailscale"} :
          at' = <<stage, q>> /\ (stage = "r-put back" => q = "caddy")
    BY <1>8 DEF Restart, GiveUp, Go
  <2>4. \/ UNCHANGED <<running, begun>>
        \/ /\ begun' = begun \cup {p} /\ ~before.running[p]
           /\ \A r \in Parts \ {p} : running'[r] = running[r]
    BY <1>8, Commands DEF Restart, host, TypeInv
  <2>5. stage \in Removing
    BY <2>3 DEF Removing
  <2> QED
    BY <2>1, <2>2, <2>3, <2>4, <2>5, Onward
<1>9. ASSUME NEW p \in Parts, Stop(p) PROVE RestoreInv'
  <2>1. /\ UNCHANGED <<before, changed, begun, broken, result>> /\ at[1] = "r-stop"
    BY <1>9 DEF Stop
  <2>2. changed = Parts /\ at[1] # "idle"
    BY <2>1 DEF Wrote, RestoreInv, ShapeInv
  <2>3. PICK stage \in {"r-stop", "r-drop", "r-activate", "r-put back"}, q \in {"caddy", "tailscale"} :
          at' = <<stage, q>> /\ (stage = "r-put back" => q = "caddy")
    BY <1>9 DEF Stop, GiveUp, Go, CaddyFirst
  <2>4. \/ UNCHANGED <<running, stopped>>
        \/ /\ stopped' = stopped \cup {p} /\ (before.running[p] \/ p \in begun)
           /\ \A r \in Parts \ {p} : running'[r] = running[r]
    BY <1>9, Commands DEF Stop, host, TypeInv
  <2>5. stage \in Removing
    BY <2>3 DEF Removing
  <2> QED
    BY <2>1, <2>2, <2>3, <2>4, <2>5, Onward
<1>10. ASSUME NEW p \in Parts, RestoreFile(p) PROVE RestoreInv'
  <2>1. /\ UNCHANGED <<running, before, changed, begun, stopped, broken, result>>
        /\ at[1] = "r-put back" /\ at[2] = p
    BY <1>10 DEF RestoreFile, Write, host, job
  <2>2. /\ p \notin changed => file[p] = before.file[p]
        /\ p \notin begun \cup stopped => running[p] = before.running[p]
        /\ p \in begun => p \in changed \/ p = "tailscale"
        /\ p \in stopped => p \in changed
    BY <2>1 DEF RestoreInv, FileInv, ServiceInv
  <2>3. CASE p \in changed \cup (begun \cap {"tailscale"})
    <3>1. at' = <<"r-bring back", p>> /\ runtime' = runtime
      BY <1>10, <2>3 DEF RestoreFile, Go
    <3>2. /\ \A q \in Parts \ {p} : file'[q] = file[q]
          /\ file'[p] = IF p \in changed THEN Text(before.file[p]) ELSE file[p]
      BY <1>10 DEF RestoreFile, Write, TypeInv, HostOK, host
    <3>3. Text(file'[p]) = Text(before.file[p])
      BY <2>2, <3>2, TextTwice
    <3>4. p \notin changed => file'[p] = before.file[p]
      BY <2>2, <3>2
    <3> QED
      BY <2>1, <3>1, <3>2, <3>3, <3>4, PutPart
  <2>4. CASE p \notin changed \cup (begun \cap {"tailscale"})
    <3>1. CaddyFirst(p, "r-put back", <<"r-republish", "caddy">>) /\ file' = file
          /\ runtime' = IF p = "caddy" THEN before.runtime ELSE runtime
      BY <1>10, <2>4 DEF RestoreFile, host
    <3>2. file[p] = before.file[p] /\ running[p] = before.running[p]
      BY <2>2, <2>4
    <3>3. at'[1] \in {"r-put back", "r-republish"}
      BY <3>1, CaddyThenNext
    <3>4. ClaimInv'
      <4>1. broken = {} => runtime' = before.runtime
        BY <2>1, <3>1 DEF RestoreInv, ClaimInv, Parts
      <4> QED
        BY <2>1, <3>3, <4>1 DEF ClaimInv
    <3> QED
      BY <2>1, <3>1, <3>2, <3>4, NextPart
  <2> QED
    BY <2>3, <2>4
<1>11. ASSUME NEW p \in Parts, RestoreRun(p) PROVE RestoreInv'
  <2>1. /\ UNCHANGED <<before, changed, begun, stopped, result>>
        /\ at[1] = "r-bring back" /\ at[2] = p
        /\ CaddyFirst(p, "r-put back", <<"r-republish", "caddy">>)
    BY <1>11 DEF RestoreRun
  <2>2. /\ p \notin changed => file[p] = before.file[p]
        /\ Text(file[p]) = Text(before.file[p])
        /\ p \notin begun \cup stopped => running[p] = before.running[p]
        /\ p \in begun => before.running[p] = FALSE
        /\ p \in stopped => before.running[p] \/ p \in begun
    <3>1. p \notin changed => file[p] = before.file[p]
      BY <2>1 DEF RestoreInv, FileInv
    <3>2. Text(file[p]) = Text(before.file[p])
      BY <2>1 DEF RestoreInv, FileInv
    <3>3. before.running[p] \in BOOLEAN
      BY DEF TypeInv, JobOK, Before
    <3>4. /\ p \notin begun \cup stopped => running[p] = before.running[p]
          /\ p \in begun => ~before.running[p]
          /\ p \in stopped => before.running[p] \/ p \in begun
      BY <2>1 DEF RestoreInv, ServiceInv
    <3> QED
      BY <3>1, <3>2, <3>3, <3>4
  <2>3. /\ file' = file /\ \A q \in Parts \ {p} : running'[q] = running[q]
        /\ broken' = {} => broken = {} /\ runtime' = before.runtime
        /\ broken' = {} \/ p \notin begun \cup stopped => running'[p] = before.running[p]
    <3>1. CASE RestoredRun(p)
      <4>1. /\ file' = file /\ broken' = broken /\ runtime' = before.runtime
            /\ \A q \in Parts \ {p} : running'[q] = running[q]
            /\ running'[p] = ((running[p] \/ (p \in stopped /\ before.running[p]))
                                /\ (p \in begun => before.running[p]))
        BY <3>1 DEF RestoredRun, TypeInv, HostOK
      <4>2. running'[p] = before.running[p]
        <5>0. before.running[p] \in BOOLEAN /\ running[p] \in BOOLEAN
          BY DEF TypeInv, HostOK, JobOK, Before
        <5>1. CASE p \in begun
          BY <2>2, <4>1, <5>1
        <5>2. CASE p \notin begun /\ p \in stopped
          BY <2>2, <4>1, <5>0, <5>2
        <5>3. CASE p \notin begun \cup stopped
          BY <2>2, <4>1, <5>0, <5>3
        <5> QED
          BY <5>1, <5>2, <5>3
      <4> QED
        BY <4>1, <4>2
    <3>2. CASE NotRestoredRun(p)
      <4>1. /\ file' = file /\ broken' # {}
            /\ \A q \in Parts \ {p} : running'[q] = running[q]
            /\ p \notin stopped => running' = running
        <5>1. CASE UNCHANGED host
          BY <3>2, <5>1 DEF NotRestoredRun, host
        <5>2. CASE p \in stopped /\ Up(p, "ok")
          <6>1. "ok" \in Outcomes
            BY DEF Outcomes
          <6>2. file' = file /\ \A q \in Parts \ {p} : running'[q] = running[q]
            BY <5>2, <6>1, Commands DEF TypeInv
          <6> QED
            BY <3>2, <5>2, <6>2 DEF NotRestoredRun
        <5> QED
          BY <3>2, <5>1, <5>2 DEF NotRestoredRun
      <4> QED
        BY <2>2, <4>1
    <3> QED
      BY <1>11, <3>1, <3>2, RestoreRunCases
  <2>4. at'[1] \in {"r-put back", "r-republish"}
    BY <2>1, CaddyThenNext
  <2>5. ClaimInv'
    BY <2>1, <2>3, <2>4 DEF ClaimInv
  <2> QED
    BY <2>1, <2>2, <2>3, <2>5, NextPart
<1> QED
  BY <1>1, <1>2, <1>3, <1>4, <1>5, <1>6, <1>7, <1>8, <1>9, <1>10, <1>11 DEF Reconcile

LEMMA RestoreStep ==
  ASSUME {"late", "probe"} \cap Faults = {}, TypeInv, RestoreInv, [Next]_vars PROVE RestoreInv'
<1>1. CASE Crash
  BY <1>1, ReportRestore DEF Crash
<1>2. CASE ConfigEdited \/ UNCHANGED vars
  <2>1. UNCHANGED <<file, running, runtime, before, changed, begun, stopped, broken, result, at>>
    BY <1>2 DEF ConfigEdited, host, state, job, vars
  <2> QED
    BY <2>1 DEF RestoreInv, ShapeInv, FileInv, ServiceInv, ClaimInv, IsDone
<1>3. ASSUME NEW p \in Parts, UserStops(p) PROVE RestoreInv'
  <2>1. UNCHANGED <<runtime, before, changed, begun, stopped, broken, result, at>> /\ at[1] = "idle"
    BY <1>3 DEF UserStops, state, job
  <2>2. changed = {} /\ begun = {} /\ stopped = {} /\ broken = {}
    BY <2>1 DEF RestoreInv, ShapeInv
  <2>3. \A q : ~IsDone(q)'
    BY <2>1 DEF IsDone
  <2> QED
    BY <2>1, <2>2, <2>3 DEF RestoreInv, ShapeInv, FileInv, ServiceInv, ClaimInv, Wrote
<1> QED
  BY <1>1, <1>2, <1>3, ApplyRestore, RemovalRestore DEF Next, User

(* Which steps report that an attempt has failed and been undone.          *)
LEMMA WhoReports ==
  ASSUME TypeInv, ShapeInv, [Next]_vars, at[1] # "idle", result' = "undone"
  PROVE  (Blame \/ Republish) /\ broken = {}
<1>0. result = "none" /\ result' # result
  BY DEF ShapeInv
<1>1. ASSUME NEW p \in Parts,
             \/ Backup(p) \/ WriteConfig(p) \/ Start(p) \/ PutBack(p) \/ BringBack(p)
             \/ WriteRemoval(p) \/ Restart(p) \/ Stop(p) \/ RestoreFile(p) \/ RestoreRun(p)
             \/ UserStops(p)
      PROVE  FALSE
  <2>1. result' = result
    BY <1>1 DEF Backup, WriteConfig, Start, PutBack, BringBack, WriteRemoval, Restart, Stop,
                RestoreFile, RestoreRun, UserStops
  <2> QED
    BY <1>0, <2>1
<1>2. CASE ApplyRoutes \/ AdoptRoutes \/ ReconcileRoutes
  BY <1>2 DEF ApplyRoutes, AdoptRoutes, ReconcileRoutes
<1>3. CASE \/ Adopt \/ Validate \/ Own \/ Reload \/ Publish \/ Verify \/ Record \/ Unpublish \/ Settle
           \/ StartSidecar \/ RemoveRoutes \/ VerifyRemoved \/ ValidateRemoval \/ OwnRemoval
           \/ ReloadRemoval \/ Drop \/ Clear \/ Tidy \/ ActivateRemoval \/ Forget
           \/ ConfigEdited \/ UNCHANGED vars
  <2>1. result' = result
    BY <1>3 DEF Adopt, Validate, Own, Reload, Publish, Verify, Record, Unpublish, Settle,
                StartSidecar, RemoveRoutes, VerifyRemoved, ValidateRemoval, OwnRemoval,
                ReloadRemoval, Drop, Clear, Tidy, ActivateRemoval, Forget, ConfigEdited, vars
  <2> QED
    BY <1>0, <2>1
<1>4. CASE Activate \/ PlanAgain \/ Crash
  BY <1>0, <1>4 DEF Activate, PlanAgain, Crash, Report
<1>5. CASE Blame \/ Republish
  BY <1>5 DEF Blame, Republish, Report
<1> QED
  BY <1>1, <1>2, <1>3, <1>4, <1>5 DEF Next, Apply, Reconcile, User

(* An attempt that fails and reports no failing rollback has left every    *)
(* file, both services and the record as it found them (the catch blocks   *)
(* at planner.ts:746 and 1121), at whatever step it failed and whether it  *)
(* applied routes or removed them, as long as a command that fails has     *)
(* done nothing and docker compose ps tells what is running: with a late   *)
(* effect or a failing probe the code does not undo what it has not noted. *)
THEOREM FailuresAreRestored == {"late", "probe"} \cap Faults = {} => (Spec => Restored)
<1> SUFFICES ASSUME {"late", "probe"} \cap Faults = {} PROVE Spec => Restored
  OBVIOUS
<1>1. Init => RestoreInv
  BY DEF Init, RestoreInv, ShapeInv, FileInv, ServiceInv, ClaimInv, IsDone, Wrote
<1>2. TypeInv /\ RestoreInv /\ [Next]_vars => RestoreInv'
  BY RestoreStep
<1>3. TypeInv /\ RestoreInv /\ [Next]_vars =>
        [at[1] # "idle" /\ result' = "undone" =>
           /\ \A p \in Parts : Text(file'[p]) = Text(before.file[p])
           /\ running' = before.running /\ runtime' = before.runtime]_vars
  <2> SUFFICES ASSUME TypeInv, RestoreInv, [Next]_vars, at[1] # "idle", result' = "undone"
               PROVE  /\ \A p \in Parts : Text(file'[p]) = Text(before.file[p])
                      /\ running' = before.running /\ runtime' = before.runtime
    OBVIOUS
  <2>1. (Blame \/ Republish) /\ broken = {}
    BY WhoReports DEF RestoreInv
  <2>2. at[1] \in {"blame", "r-republish"} /\ UNCHANGED <<file, running, runtime>>
    BY <2>1 DEF Blame, Republish, host, state
  <2>3. \A p : IsDone(p)
    BY <2>2 DEF IsDone
  <2>4. \A p \in Parts : Text(file[p]) = Text(before.file[p]) /\ running[p] = before.running[p]
    BY <2>1, <2>3 DEF RestoreInv, FileInv, ServiceInv
  <2>5. running = before.running
    BY <2>4 DEF TypeInv, HostOK, JobOK, Before
  <2>6. runtime = before.runtime
    BY <2>1, <2>2 DEF RestoreInv, ClaimInv
  <2> QED
    BY <2>2, <2>4, <2>5, <2>6
<1> QED
  BY <1>1, <1>2, <1>3, TypesHold, PTL DEF Spec, Restored

-----------------------------------------------------------------------------
(* What a restart of a service finds                                       *)

(* Caddy proxies what its file says. *)
Proxied == running["caddy"] => loaded = file["caddy"].edge

(* Caddy has been reloaded at these stages, and not yet at those. *)
Reloaded == {"publish", "verify", "record", "activate", "r-stop", "r-drop", "r-clear", "r-tidy",
             "r-activate", "r-forget", "r-plan"}

Unreloaded == {"r-start", "r-off", "r-verify", "r-validate", "r-own", "r-write", "r-restart",
               "r-reload"}

(* The attempt has written this part's file and not put it back. *)
Written(p) ==
  \/ at[1] \in Wrote \cup {"activate"}
  \/ at[1] \in {"write", "r-write"} /\ at[2] = "tailscale" /\ p = "caddy"

(* This part's file is as it was. *)
IsBack(p) == IsDone(p) \/ (at[1] \in {"bring back", "r-bring back"} /\ at[2] = p)

NotedInv ==
  /\ at[1] = "idle" => begun = {} /\ broken = {}
  /\ at[1] \in {"idle", "validate", "backup", "own"} => changed = {}
  /\ at[1] \in Wrote => changed = Parts
  /\ at[1] \in {"write", "r-write"} /\ at[2] = "tailscale" => "caddy" \in changed
  /\ at[1] = "bring back" => at[2] \in changed
  /\ at[1] \in Unreloaded /\ running["caddy"] => before.running["caddy"] \/ "caddy" \in begun
  /\ at[1] # "adopt"

(* The routes that are to stay are among the selected ones. *)
KnownInv ==
  at[1] # "idle" =>
    /\ \A p \in Parts :
         before.file[p].edge # {} => before.file[p].text # "absent" /\ before.runtime # None
    /\ before.runtime.status \in {"none", "active"}
    /\ at[1] # "activate" => \A p \in Parts : owned \subseteq before.file[p].edge
    /\ owned \ before.stale \subseteq before.selected
    /\ at[1] \notin Removing => before.stale = {} /\ before.todo \subseteq before.selected /\ ~Final
    /\ at[1] = "r-plan" => owned \cap before.stale = {}
    /\ at[1] \in {"verify", "record"} => done \subseteq before.selected

(* A file holds the routes that are owned: between attempts, once it is    *)
(* written, and once it is put back.                                       *)
KeptInv ==
  /\ \A p \in Parts : (file[p].text = "absent" => file[p].edge = {}) /\ backup[p].edge = {}
  /\ at[1] = "idle" =>
       \A p \in Parts : owned \subseteq file[p].edge /\ (file[p].edge # {} => runtime # None)
  /\ at[1] # "idle" => \A p \in Parts : p \notin changed => file[p] = before.file[p]
  /\ \A p \in Parts : IsBack(p) => file[p].edge = before.file[p].edge
  /\ \A p \in Parts : Written(p) =>
       /\ before.selected \ before.stale \subseteq file[p].edge
       /\ Final => file[p].edge = {}

NamedInv ==
  /\ at[1] \in {"idle", "r-forget", "r-plan"} => runtime.status \in {"none", "active"}
  /\ at[1] \in {"validate", "backup", "own"} => runtime = before.runtime
  /\ at[1] = "backup" => runtime = None
  /\ at[1] \in {"unpublish", "put back", "bring back", "settle"} /\ changed = {}
       => runtime = before.runtime
  /\ at[1] \in {"write", "start", "reload", "publish", "verify", "record", "activate"}
       => runtime # None
  /\ at[1] \in {"r-drop", "r-clear", "r-tidy"} => Final
  /\ at[1] = "r-tidy" => runtime = None
  /\ at[1] \in {"r-forget", "r-plan"} => runtime # None \/ Final
  /\ /\ broken = {}
     /\ \/ at[1] \in {"blame", "r-republish"}
        \/ at[1] \in {"r-put back", "r-bring back"} /\ at[2] = "tailscale"
     => runtime = before.runtime

LoadedInv ==
  \/ "caddy" \notin changed
  \/ at[1] \in Reloaded
  \/ IsDone("caddy") /\ broken = {}
  => Proxied

RestInv == NotedInv /\ KnownInv /\ KeptInv /\ NamedInv /\ LoadedInv

(* An attempt moves on and writes neither file nor record.                 *)
LEMMA RestOn ==
  ASSUME RestInv, at[1] # "idle", UNCHANGED <<file, backup, runtime, owned, before, changed>>,
         NEW stage, NEW q, at' = <<stage, q>>,
         stage \in {"backup", "own", "start", "reload", "publish", "verify", "record",
                    "r-off", "r-verify", "r-validate", "r-own", "r-restart", "r-reload", "r-stop",
                    "r-drop", "r-activate"},
         at[1] \in Removing <=> stage \in Removing,
         stage \in Wrote \cup {"r-activate"} => at[1] \in Wrote,
         stage \in Unreloaded /\ running'["caddy"] => before.running["caddy"] \/ "caddy" \in begun',
         stage \in {"verify", "record"} => done' \subseteq before.selected,
         stage \in {"backup", "own"} => at[1] = "validate",
         stage = "backup" => runtime = None,
         stage \in {"start", "reload", "publish", "verify", "record"}
           => at[1] \in {"start", "reload", "publish", "verify"},
         stage = "r-drop" => Final,
         "caddy" \notin changed \/ stage \in Reloaded => Proxied'
  PROVE  RestInv'
<1>0. at'[1] = stage /\ at'[2] = q
  OBVIOUS
<1>1. \A p : ~IsBack(p)' /\ ~IsDone(p)'
  BY <1>0 DEF IsBack, IsDone
<1>2. NotedInv'
  BY <1>0 DEF RestInv, NotedInv, Wrote
<1>3. KnownInv'
  <2>1. at[1] # "activate"
    BY DEF Removing, Wrote
  <2> QED
    BY <1>0, <2>1 DEF RestInv, KnownInv, Final
<1>4. KeptInv'
  <2>1. \A p : Written(p)' => Written(p)
    BY <1>0 DEF Written, Wrote
  <2> QED
    BY <1>0, <1>1, <2>1 DEF RestInv, KeptInv, Final
<1>5. NamedInv'
  BY <1>0 DEF RestInv, NamedInv, Final
<1>6. LoadedInv'
  BY <1>0, <1>1 DEF LoadedInv
<1> QED
  BY <1>2, <1>3, <1>4, <1>5, <1>6 DEF RestInv

(* An attempt fails before it has written a file, or after all of them.    *)
LEMMA RestFails ==
  ASSUME RestInv, UNCHANGED <<file, backup, owned, before, changed>>,
         \/ /\ at[1] \in {"validate", "start", "reload", "publish", "verify"}
            /\ at' = <<"unpublish", "caddy">> /\ runtime' = runtime
         \/ at[1] \in Removing /\ at' = <<"r-put back", "caddy">>,
         "caddy" \notin changed => running'["caddy"] = running["caddy"] /\ loaded' = loaded
  PROVE  RestInv'
<1>0. /\ at'[2] = "caddy" /\ at[1] # "idle" /\ at[1] # "activate"
      /\ \/ /\ at[1] \in {"validate", "start", "reload", "publish", "verify"}
            /\ at'[1] = "unpublish" /\ runtime' = runtime
         \/ at[1] \in Removing /\ at'[1] = "r-put back"
  <2>1. ASSUME NEW stage, at' = <<stage, "caddy">> PROVE at'[1] = stage /\ at'[2] = "caddy"
    BY <2>1
  <2>2. "idle" \notin Removing /\ "activate" \notin Removing
    BY DEF Removing
  <2> QED
    BY <2>1, <2>2
<1>1. \A p : ~IsBack(p)' /\ ~IsDone(p)' /\ ~Written(p)'
  BY <1>0 DEF IsBack, IsDone, Written, Wrote
<1>2. NotedInv'
  BY <1>0 DEF RestInv, NotedInv, Wrote, Unreloaded
<1>3. KnownInv'
  <2>1. at'[1] \notin Removing => at[1] \notin Removing
    BY <1>0 DEF Removing
  <2> QED
    BY <1>0, <2>1 DEF RestInv, KnownInv, Final
<1>4. KeptInv'
  BY <1>0, <1>1 DEF RestInv, KeptInv
<1>5. NamedInv'
  <2>1. at'[1] = "unpublish" /\ changed = {} => runtime = before.runtime
    BY <1>0, PartNames DEF RestInv, NotedInv, NamedInv, Wrote
  <2> QED
    BY <1>0, <2>1 DEF NamedInv
<1>6. LoadedInv'
  BY <1>0, <1>1 DEF RestInv, LoadedInv, Proxied, Reloaded
<1> QED
  BY <1>2, <1>3, <1>4, <1>5, <1>6 DEF RestInv

(* An attempt ends: what is owned, served and loaded fits the files.       *)
LEMMA RestEnds ==
  ASSUME NEW r, Report(r), UNCHANGED <<file, backup>>,
         \A p \in Parts : (file[p].text = "absent" => file[p].edge = {}) /\ backup[p].edge = {},
         \A p \in Parts : owned' \subseteq file[p].edge /\ (file[p].edge # {} => runtime' # None),
         runtime'.status \in {"none", "active"}, Proxied'
  PROVE  RestInv'
<1>0. at'[1] = "idle" /\ changed' = {} /\ begun' = {} /\ broken' = {}
  BY DEF Report
<1>1. \A p : ~IsBack(p)' /\ ~Written(p)'
  BY <1>0 DEF IsBack, IsDone, Written, Wrote, Report
<1> QED
  BY <1>0, <1>1 DEF RestInv, NotedInv, KnownInv, KeptInv, NamedInv, LoadedInv, Wrote, Unreloaded

LEMMA RestPlan ==
  ASSUME "probe" \notin Faults, TypeInv, RestInv, at[1] = "idle", NEW todo, Plan(todo),
         at'[1] \in {"validate", "r-start", "r-off"},
         at'[1] = "validate" => selected # {} /\ Stale = {} /\ todo \subseteq selected
  PROVE  RestInv'
<1>1. /\ before'.file = file /\ before'.running = running /\ before'.runtime = runtime
      /\ before'.selected = selected /\ before'.stale = owned \ selected /\ before'.todo = todo
      /\ UNCHANGED <<file, running, loaded, backup, runtime, owned, changed, begun, broken>>
  BY DEF Plan, Probes, Stale, host, state
<1>2. \A p : ~IsBack(p)' /\ ~IsDone(p)' /\ ~Written(p)'
  BY DEF IsBack, IsDone, Written, Wrote
<1>3. NotedInv'
  BY <1>1, PartNames DEF RestInv, NotedInv, Wrote, TypeInv, HostOK
<1>4. KnownInv'
  BY <1>1 DEF RestInv, KnownInv, KeptInv, NamedInv, Final, Removing, Stale
<1>5. KeptInv'
  BY <1>1, <1>2 DEF RestInv, KeptInv
<1>6. NamedInv'
  BY <1>1 DEF RestInv, NamedInv
<1>7. LoadedInv'
  BY <1>1, <1>2 DEF RestInv, NotedInv, LoadedInv, Proxied
<1> QED
  BY <1>3, <1>4, <1>5, <1>6, <1>7 DEF RestInv

(* In a catch block: a file has been put back.                             *)
LEMMA RestPut ==
  ASSUME RestInv, NEW p \in Parts, at[2] = p,
         UNCHANGED <<running, loaded, backup, runtime, owned, before, changed, begun, broken>>,
         NEW stage, at' = <<stage, p>>,
         \/ at[1] = "put back" /\ stage = "bring back" /\ p \in changed
         \/ at[1] = "r-put back" /\ stage = "r-bring back",
         \A q \in Parts \ {p} : file'[q] = file[q],
         p \notin changed => file' = file,
         file'[p].edge = before.file[p].edge,
         file'[p].text = "absent" => file'[p].edge = {}
  PROVE  RestInv'
<1>0. /\ at'[1] = stage /\ at'[2] = p /\ at[1] # "idle" /\ stage \in {"bring back", "r-bring back"}
      /\ at[1] \in Removing <=> stage \in Removing
  BY DEF Removing
<1>1. /\ \A q : IsDone(q)' => IsDone(q) /\ q = "caddy" /\ p = "tailscale"
      /\ \A q : IsBack(q)' => q = p \/ IsBack(q)
      /\ \A q : ~Written(q)'
  BY <1>0 DEF IsBack, IsDone, Written, Wrote
<1>2. NotedInv'
  BY <1>0 DEF RestInv, NotedInv, Wrote, Unreloaded
<1>3. KnownInv'
  BY <1>0 DEF RestInv, KnownInv, Final
<1>4. KeptInv'
  <2>0. ASSUME NEW q \in Parts, q # p PROVE file'[q] = file[q]
    BY <2>0
  <2>1. ASSUME NEW q \in Parts
        PROVE  (file'[q].text = "absent" => file'[q].edge = {}) /\ backup'[q].edge = {}
    <3>1. (file[q].text = "absent" => file[q].edge = {}) /\ backup[q].edge = {}
      BY DEF RestInv, KeptInv
    <3> QED
      BY <2>0, <3>1
  <2>2. ASSUME NEW q \in Parts, q \notin changed' PROVE file'[q] = before'.file[q]
    <3>1. q \notin changed => file[q] = before.file[q]
      BY <1>0 DEF RestInv, KeptInv
    <3> QED
      BY <2>0, <2>2, <3>1
  <2>3. ASSUME NEW q \in Parts, IsBack(q)' PROVE file'[q].edge = before'.file[q].edge
    <3>1. q = p \/ (IsBack(q) /\ file[q].edge = before.file[q].edge)
      BY <1>1, <2>3 DEF RestInv, KeptInv
    <3> QED
      BY <2>0, <3>1
  <2> QED
    BY <1>0, <1>1, <2>1, <2>2, <2>3 DEF KeptInv
<1>5. NamedInv'
  BY <1>0 DEF RestInv, NamedInv
<1>6. LoadedInv'
  <2>1. "caddy" \in Parts /\ stage \notin Reloaded
    BY <1>0, PartNames DEF Reloaded
  <2>2. CASE "caddy" \notin changed
    <3>1. Proxied /\ file'["caddy"] = file["caddy"]
      BY <2>1, <2>2 DEF RestInv, LoadedInv
    <3> QED
      BY <3>1 DEF LoadedInv, Proxied
  <2>3. CASE IsDone("caddy")' /\ broken = {}
    <3>1. Proxied /\ file'["caddy"] = file["caddy"]
      BY <1>1, <2>1, <2>3 DEF RestInv, LoadedInv
    <3> QED
      BY <3>1 DEF LoadedInv, Proxied
  <2> QED
    BY <1>0, <2>1, <2>2, <2>3 DEF LoadedInv
<1> QED
  BY <1>2, <1>3, <1>4, <1>5, <1>6 DEF RestInv

(* In a catch block: one part is done, the next one follows.               *)
LEMMA RestNext ==
  ASSUME RestInv, NEW p \in Parts, at[2] = p,
         UNCHANGED <<backup, owned, before, changed, begun>>,
         broken' = {} => broken = {},
         NEW back, NEW last, CaddyFirst(p, back, <<last, "caddy">>),
         \/ /\ at[1] \in {"put back", "bring back"} /\ back = "put back" /\ last = "settle"
            /\ runtime' = runtime
         \/ /\ at[1] \in {"r-put back", "r-bring back"} /\ back = "r-put back" /\ last = "r-republish"
            /\ broken' = {} => runtime' = before.runtime,
         \A q \in Parts \ {p} : file'[q] = file[q],
         p \notin changed => file'[p] = before.file[p],
         file'[p].edge = before.file[p].edge,
         file'[p].text = "absent" => file'[p].edge = {},
         p = "caddy" => broken # {} \/ broken' # {} \/ Proxied',
         p # "caddy" => running'["caddy"] = running["caddy"] /\ loaded' = loaded,
         "caddy" \notin changed => Proxied'
  PROVE  RestInv'
<1>0. /\ p = "caddy" /\ Sidecar => at'[1] = back /\ at'[2] = "tailscale"
      /\ ~(p = "caddy" /\ Sidecar) => at'[1] = last /\ at'[2] = "caddy"
      /\ at[1] # "idle" /\ at'[1] \in {back, last}
  <2>1. /\ p = "caddy" /\ Sidecar => at'[1] = back /\ at'[2] = "tailscale"
        /\ ~(p = "caddy" /\ Sidecar) => at'[1] = last /\ at'[2] = "caddy"
    BY ONLY CaddyFirst(p, back, <<last, "caddy">>), CaddyThenNext
  <2> QED
    BY <2>1
<1>1. /\ \A q \in Parts : IsBack(q)' => q = p \/ IsBack(q)
      /\ IsDone("caddy")' => p = "caddy" \/ IsDone("caddy")
      /\ \A q : ~Written(q)'
  BY <1>0 DEF IsBack, IsDone, Written, Wrote, Parts
<1>2. NotedInv'
  BY <1>0 DEF RestInv, NotedInv, Wrote, Unreloaded
<1>3. KnownInv'
  <2>1. at[1] \in Removing <=> at'[1] \in Removing
    BY <1>0 DEF Removing
  <2> QED
    BY <1>0, <2>1 DEF RestInv, KnownInv, Final
<1>4. KeptInv'
  <2>0. ASSUME NEW q \in Parts, q # p PROVE file'[q] = file[q]
    BY <2>0
  <2>1. ASSUME NEW q \in Parts
        PROVE  (file'[q].text = "absent" => file'[q].edge = {}) /\ backup'[q].edge = {}
    <3>1. (file[q].text = "absent" => file[q].edge = {}) /\ backup[q].edge = {}
      BY DEF RestInv, KeptInv
    <3> QED
      BY <2>0, <3>1
  <2>2. ASSUME NEW q \in Parts, q \notin changed' PROVE file'[q] = before'.file[q]
    <3>1. q \notin changed => file[q] = before.file[q]
      BY <1>0 DEF RestInv, KeptInv
    <3> QED
      BY <2>0, <2>2, <3>1
  <2>3. ASSUME NEW q \in Parts, IsBack(q)' PROVE file'[q].edge = before'.file[q].edge
    <3>1. q = p \/ (IsBack(q) /\ file[q].edge = before.file[q].edge)
      BY <1>1, <2>3 DEF RestInv, KeptInv
    <3> QED
      BY <2>0, <3>1
  <2> QED
    BY <1>0, <1>1, <2>1, <2>2, <2>3 DEF KeptInv
<1>5. NamedInv'
  BY <1>0 DEF RestInv, NamedInv
<1>6. LoadedInv'
  <2>1. "caddy" \in Parts /\ at'[1] \notin Reloaded
    BY <1>0, PartNames DEF Reloaded
  <2>2. CASE IsDone("caddy")' /\ broken' = {} /\ p # "caddy"
    <3>1. Proxied /\ file'["caddy"] = file["caddy"]
      BY <1>1, <2>1, <2>2 DEF RestInv, LoadedInv
    <3> QED
      BY <2>2, <3>1 DEF LoadedInv, Proxied
  <2>3. CASE broken' = {} /\ p = "caddy"
    BY <2>3 DEF LoadedInv
  <2> QED
    BY <2>1, <2>2, <2>3 DEF LoadedInv
<1> QED
  BY <1>2, <1>3, <1>4, <1>5, <1>6 DEF RestInv

LEMMA MergeEdge ==
  ASSUME NEW x \in Content, NEW services
  PROVE  Merge(x, services).edge = services /\ Merge(x, services).text # "absent"
BY DEF Merge, Content

LEMMA ApplyRest ==
  "probe" \notin Faults /\ TypeInv /\ RestInv /\ Apply /\ clean' => RestInv'
<1> SUFFICES ASSUME "probe" \notin Faults, TypeInv, RestInv, Apply, clean' PROVE RestInv'
  OBVIOUS
<1>0. "caddy" \in Parts /\ Parts # {} /\ "caddy" \in DOMAIN running
  BY PartNames DEF TypeInv, HostOK
<1>1. CASE ApplyRoutes \/ AdoptRoutes
  <2>1. ~AdoptRoutes
    BY DEF AdoptRoutes, RestInv, NamedInv
  <2>2. at' = <<"validate", "caddy">> /\ Plan(Missing) /\ at[1] = "idle" /\ selected # {} /\ Stale = {}
    BY <1>1, <2>1 DEF ApplyRoutes, Go
  <2>3. at'[1] = "validate" /\ Missing \subseteq selected
    BY <2>2 DEF Missing
  <2> QED
    BY <2>2, <2>3, RestPlan
<1>2. CASE Adopt
  BY <1>2 DEF Adopt, RestInv, NotedInv
<1>3. CASE Validate \/ Publish \/ Verify
  <2>1. /\ UNCHANGED <<file, running, loaded, backup, runtime, owned, before, changed, begun, broken>>
        /\ at[1] \in {"validate", "publish", "verify"}
    BY <1>3 DEF Validate, Publish, Verify, host, state, job
  <2>2. CASE at' = <<"unpublish", "caddy">>
    BY <2>1, <2>2, RestFails
  <2>3. CASE at' # <<"unpublish", "caddy">>
    <3>1. PICK stage \in {"backup", "own", "verify", "record"} :
            /\ at' = <<stage, "caddy">>
            /\ stage \in {"backup", "own"} => at[1] = "validate"
            /\ stage = "backup" => runtime = None
            /\ stage \in {"verify", "record"} => at[1] \in {"publish", "verify"}
            /\ stage \in {"verify", "record"} => done' = before.todo \/ (at[1] = "verify" /\ done' = done)
      <4>1. CASE Validate
        BY <2>3, <4>1 DEF Validate, Go
      <4>2. CASE Publish
        BY <2>3, <4>2 DEF Publish, Go
      <4>3. CASE Verify
        BY <2>3, <4>3 DEF Verify, Go, job
      <4> QED
        BY <1>3, <4>1, <4>2, <4>3
    <3>2. stage \in {"verify", "record"} => done' \subseteq before.selected
      BY <2>1, <3>1 DEF RestInv, KnownInv, Removing
    <3>3. "caddy" \notin changed \/ stage \in Reloaded => Proxied'
      BY <2>1, <3>1 DEF RestInv, LoadedInv, Proxied, Reloaded
    <3>4. /\ at[1] # "idle" /\ (at[1] \in Removing <=> stage \in Removing)
          /\ stage \in Wrote \cup {"r-activate"} => at[1] \in Wrote
          /\ stage \notin Unreloaded
      BY <2>1, <3>1 DEF Removing, Wrote, Unreloaded
    <3> QED
      BY <2>1, <3>1, <3>2, <3>3, <3>4, RestOn
  <2> QED
    BY <2>2, <2>3
<1>4. CASE Reload
  <2>1. /\ UNCHANGED <<file, running, backup, runtime, owned, before, changed, begun, broken>>
        /\ at[1] = "reload" /\ "caddy" \in changed
    BY <1>0, <1>4 DEF Reload, state, job, RestInv, NotedInv, Wrote
  <2>2. CASE at' = <<"unpublish", "caddy">>
    BY <2>1, <2>2, RestFails
  <2>3. CASE loaded' = file["caddy"].edge /\ at' = <<"publish", "caddy">>
    <3>1. /\ at[1] \notin Removing /\ "publish" \notin Removing /\ "publish" \notin Unreloaded
          /\ at[1] \in Wrote
      BY <2>1 DEF Removing, Unreloaded, Wrote
    <3>2. Proxied'
      BY <2>1, <2>3 DEF Proxied
    <3> QED
      BY <2>1, <2>3, <3>1, <3>2, RestOn
  <2> QED
    BY <1>4, <2>2, <2>3 DEF Reload, Go
<1>5. ASSUME NEW p \in Parts, Start(p) PROVE RestInv'
  <2>1. /\ UNCHANGED <<backup, runtime, owned, before, changed, broken>>
        /\ at[1] = "start" /\ "caddy" \in changed
    BY <1>0, <1>5 DEF Start, state, RestInv, NotedInv, Wrote
  <2>2. file' = file
    BY <1>5, CommandType DEF Start, host, TypeInv
  <2>3. CASE at' = <<"unpublish", "caddy">>
    BY <2>1, <2>2, <2>3, RestFails
  <2>4. CASE at' \in {<<"start", "caddy">>, <<"reload", "caddy">>}
    <3>1. PICK stage \in {"start", "reload"} : at' = <<stage, "caddy">>
      BY <2>4
    <3>2. /\ at[1] \notin Removing /\ stage \notin Removing /\ stage \notin Unreloaded
          /\ at[1] \in Wrote /\ stage \notin Reloaded
      BY <2>1 DEF Removing, Unreloaded, Wrote, Reloaded
    <3> QED
      BY <2>1, <2>2, <3>1, <3>2, RestOn
  <2> QED
    BY <1>5, <2>3, <2>4 DEF Start, Go
<1>6. CASE Unpublish \/ Own \/ Settle
  <2>1. /\ UNCHANGED <<file, running, loaded, backup, owned, before, changed, begun, broken>>
    BY <1>6 DEF Unpublish, Own, Settle, host, state, job
  <2>2. PICK from \in {"unpublish", "own", "settle"}, stage \in {"put back", "write", "blame"} :
          /\ at[1] = from /\ at' = <<stage, "caddy">>
          /\ from = "unpublish" => stage = "put back" /\ runtime' = runtime
          /\ from = "own" => stage = "write" /\ runtime'.status = "applying"
          /\ from = "settle" => stage = "blame"
                                /\ (broken = {} => runtime' = IF changed = {} THEN runtime ELSE before.runtime)
    <3>1. CASE Unpublish
      BY <3>1 DEF Unpublish, Go, state
    <3>2. CASE Own
      BY <3>2 DEF Own, Go
    <3>3. CASE Settle
      BY <3>3 DEF Settle, Go
    <3> QED
      BY <1>6, <3>1, <3>2, <3>3
  <2>3. at'[1] = stage /\ at'[2] = "caddy"
    BY <2>2
  <2>4. NotedInv'
    BY <2>1, <2>2, <2>3 DEF RestInv, NotedInv, Wrote, Unreloaded
  <2>5. KnownInv'
    BY <2>1, <2>2, <2>3 DEF RestInv, KnownInv, Removing, Final
  <2>6. /\ \A p : IsBack(p)' => IsBack(p)
        /\ \A p : ~Written(p)'
        /\ IsDone("caddy")' => IsDone("caddy")
    BY <2>2, <2>3 DEF IsBack, IsDone, Written, Wrote
  <2>7. KeptInv'
    BY <2>1, <2>2, <2>3, <2>6 DEF RestInv, KeptInv
  <2>8. NamedInv'
    <3>1. CASE from = "unpublish"
      <4>1. changed = {} => runtime = before.runtime
        BY <2>2, <3>1 DEF RestInv, NamedInv
      <4> QED
        BY <2>1, <2>2, <2>3, <3>1, <4>1 DEF NamedInv
    <3>2. CASE from = "own"
      <4>1. runtime' # None
        BY <2>2, <3>2 DEF None
      <4> QED
        BY <2>2, <2>3, <3>2, <4>1 DEF NamedInv
    <3>3. CASE from = "settle"
      <4>1. broken = {} => runtime' = before.runtime
        BY <2>2, <3>3 DEF RestInv, NamedInv
      <4> QED
        BY <2>1, <2>2, <2>3, <3>3, <4>1 DEF NamedInv
    <3> QED
      BY <3>1, <3>2, <3>3
  <2>9. LoadedInv'
    BY <2>1, <2>2, <2>3, <2>6 DEF RestInv, LoadedInv, Proxied, Reloaded
  <2> QED
    BY <2>4, <2>5, <2>7, <2>8, <2>9 DEF RestInv
<1>7. CASE Record
  <2>1. /\ UNCHANGED <<file, running, loaded, backup, runtime, before, changed, begun, broken>>
        /\ owned' = owned \cup done /\ at[1] = "record" /\ at' = <<"activate", "caddy">>
    BY <1>7 DEF Record, Go, host, job
  <2>2. at'[1] = "activate" /\ at'[2] = "caddy"
    BY <2>1
  <2>3. NotedInv'
    BY <2>1, <2>2 DEF RestInv, NotedInv, Wrote, Unreloaded
  <2>4. KnownInv'
    BY <2>1, <2>2 DEF RestInv, KnownInv, Removing, Final
  <2>5. /\ \A p : ~IsBack(p)' /\ ~IsDone(p)'
        /\ \A p : Written(p)
    BY <2>1, <2>2 DEF IsBack, IsDone, Written, Wrote
  <2>6. KeptInv'
    BY <2>1, <2>2, <2>5 DEF RestInv, KeptInv, Final
  <2>7. NamedInv'
    BY <2>1, <2>2 DEF RestInv, NamedInv
  <2>8. LoadedInv'
    BY <2>1, <2>2, <2>5 DEF RestInv, LoadedInv, Proxied, Reloaded
  <2> QED
    BY <2>3, <2>4, <2>6, <2>7, <2>8 DEF RestInv
<1>8. CASE Activate
  <2>1. /\ UNCHANGED <<file, running, loaded, backup, owned>> /\ Report("applied")
        /\ at[1] = "activate" /\ runtime' = [runtime EXCEPT !.status = "active"]
    BY <1>8 DEF Activate, host
  <2>2. runtime'.status = "active" /\ runtime' # None
    BY <2>1 DEF TypeInv, RecordOK, Runtime, None
  <2>3. \A p \in Parts : owned \subseteq file[p].edge
    <3>1. owned \subseteq before.selected \ before.stale
      BY <2>1 DEF RestInv, KnownInv, Removing
    <3>2. \A p : Written(p)
      BY <2>1 DEF Written
    <3> QED
      BY <3>1, <3>2 DEF RestInv, KeptInv
  <2>4. Proxied'
    BY <2>1 DEF RestInv, LoadedInv, Proxied, Reloaded
  <2> QED
    BY <2>1, <2>2, <2>3, <2>4, RestEnds DEF RestInv, KeptInv
<1>9. CASE Blame
  <2>1. /\ UNCHANGED <<file, running, loaded, backup, owned, runtime>> /\ \E r : Report(r)
        /\ at[1] = "blame" /\ broken = {}
    BY <1>9 DEF Blame, host
  <2>2. \A p : IsDone(p) /\ IsBack(p)
    BY <2>1 DEF IsBack, IsDone
  <2>3. runtime = before.runtime /\ runtime.status \in {"none", "active"}
    BY <2>1 DEF RestInv, NamedInv, KnownInv
  <2>4. \A p \in Parts : owned \subseteq file[p].edge /\ (file[p].edge # {} => runtime # None)
    BY <2>1, <2>2, <2>3 DEF RestInv, KnownInv, KeptInv
  <2>5. Proxied'
    BY <2>1, <2>2 DEF RestInv, LoadedInv, Proxied
  <2> QED
    BY <2>1, <2>3, <2>4, <2>5, RestEnds DEF RestInv, KeptInv
<1>10. ASSUME NEW p \in Parts, Backup(p) PROVE RestInv'
  <2>1. /\ UNCHANGED <<file, running, loaded, runtime, owned, before, changed, begun, broken>>
        /\ at[1] = "backup" /\ backup' = [backup EXCEPT ![p] = Text(file[p])]
    BY <1>10 DEF Backup, host, job
  <2>2. PICK stage \in {"backup", "own"}, q \in {"caddy", "tailscale"} : at' = <<stage, q>>
    BY <1>10 DEF Backup, Go, CaddyFirst
  <2>3. at'[1] = stage /\ at'[2] = q
    BY <2>2
  <2>4. file[p].edge = {} /\ Text(file[p]).edge = {}
    <3>1. file[p] = before.file[p] /\ before.runtime = None
      BY <2>1 DEF RestInv, NotedInv, KeptInv, NamedInv
    <3>2. before.file[p].edge = {}
      BY <2>1, <3>1 DEF RestInv, KnownInv
    <3> QED
      BY <3>1, <3>2, TextEdge
  <2>5. NotedInv'
    BY <2>1, <2>3 DEF RestInv, NotedInv, Wrote, Unreloaded
  <2>6. KnownInv'
    BY <2>1, <2>3 DEF RestInv, KnownInv, Removing, Final
  <2>7. /\ \A r : ~IsBack(r)' /\ ~IsDone(r)' /\ ~Written(r)'
    BY <2>3 DEF IsBack, IsDone, Written, Wrote
  <2>8. KeptInv'
    <3>1. \A r \in Parts : backup'[r].edge = {}
      BY <2>1, <2>4 DEF TypeInv, RecordOK, RestInv, KeptInv
    <3> QED
      BY <2>1, <2>3, <2>7, <3>1 DEF RestInv, KeptInv
  <2>9. NamedInv'
    BY <2>1, <2>3 DEF RestInv, NamedInv
  <2>10. LoadedInv'
    BY <2>1, <2>3, <2>7 DEF RestInv, LoadedInv, Proxied, Reloaded
  <2> QED
    BY <2>5, <2>6, <2>8, <2>9, <2>10 DEF RestInv
<1>11. ASSUME NEW p \in Parts, WriteConfig(p) PROVE RestInv'
  <2> DEFINE c == IF p = "caddy" THEN Merge(Text(file[p]), before.selected)
                  ELSE Merge(Text(before.file[p]), before.file[p].edge \cup before.selected)
  <2>1. /\ UNCHANGED <<running, backup, runtime, owned, before, begun, broken>>
        /\ at[1] = "write" /\ at[2] = p /\ changed' = changed \cup {p}
        /\ file' = [file EXCEPT ![p] = c]
    BY <1>11 DEF WriteConfig, Write, state
  <2>2. before.selected \subseteq c.edge /\ c.text # "absent"
    <3>1. /\ before.selected \in SUBSET Services
          /\ before.file[p] \in Content /\ file[p] \in Content
      BY DEF TypeInv, JobOK, Before, HostOK
    <3>2. Text(file[p]) \in Content /\ Text(before.file[p]) \in Content
          /\ before.file[p].edge \cup before.selected \in SUBSET Services
      BY <3>1, ContentType
    <3>3. CASE p = "caddy"
      <4>1. c = Merge(Text(file[p]), before.selected)
        BY <3>3
      <4> HIDE DEF c
      <4> QED
        BY <3>2, <4>1, MergeEdge
    <3>4. CASE p # "caddy"
      <4>1. c = Merge(Text(before.file[p]), before.file[p].edge \cup before.selected)
        BY <3>4
      <4> HIDE DEF c
      <4> QED
        BY <3>2, <4>1, MergeEdge
    <3> QED
      BY <3>3, <3>4
  <2> HIDE DEF c
  <2>3. PICK stage \in {"write", "start"}, q \in {"caddy", "tailscale"} :
          /\ at' = <<stage, q>>
          /\ stage = "write" => p = "caddy"
          /\ stage = "start" => ~(p = "caddy" /\ Sidecar)
    BY <1>11 DEF WriteConfig, CaddyFirst, Go
  <2>4. at'[1] = stage /\ at'[2] = q
    BY <2>3
  <2>5. "caddy" \in changed' /\ (stage = "start" => changed' = Parts)
    <3>1. p = "tailscale" => "caddy" \in changed
      BY <2>1 DEF RestInv, NotedInv
    <3>2. changed \subseteq Parts
      BY DEF TypeInv, JobOK
    <3>3. CASE p = "caddy"
      BY <2>1, <2>3, <3>2, <3>3 DEF Parts
    <3>4. CASE p = "tailscale"
      BY <2>1, <3>1, <3>2, <3>4 DEF Parts
    <3> QED
      BY <3>3, <3>4 DEF Parts
  <2>6. NotedInv'
    BY <2>4, <2>5 DEF NotedInv, Unreloaded, Wrote
  <2>7. KnownInv'
    BY <2>1, <2>4 DEF RestInv, KnownInv, Removing, Final
  <2>8. KeptInv'
    <3>1. file'[p] = c /\ \A r \in Parts \ {p} : file'[r] = file[r]
      BY <2>1 DEF TypeInv, HostOK
    <3>2. ASSUME NEW r \in Parts
          PROVE  (file'[r].text = "absent" => file'[r].edge = {}) /\ backup'[r].edge = {}
      <4>1. (file[r].text = "absent" => file[r].edge = {}) /\ backup[r].edge = {}
        BY DEF RestInv, KeptInv
      <4> QED
        BY <2>1, <2>2, <3>1, <4>1
    <3>3. ASSUME NEW r \in Parts, r \notin changed' PROVE file'[r] = before'.file[r]
      BY <2>1, <3>1, <3>3 DEF RestInv, KeptInv
    <3>4. \A r : ~IsBack(r)'
      BY <2>4 DEF IsBack, IsDone
    <3>5. before.stale = {} /\ before.selected # {}
      BY <2>1 DEF RestInv, KnownInv, Removing, Final
    <3>6. ASSUME NEW r \in Parts, Written(r)' PROVE before.selected \subseteq file'[r].edge
      <4>1. r = p \/ Written(r)
        BY <2>1, <2>3, <2>4, <3>6 DEF Written, Wrote, Parts
      <4>2. Written(r) => before.selected \subseteq file[r].edge
        BY <3>5 DEF RestInv, KeptInv
      <4> QED
        BY <2>2, <3>1, <4>1, <4>2
    <3> QED
      BY <2>1, <2>4, <3>2, <3>3, <3>4, <3>5, <3>6 DEF KeptInv, Final
  <2>9. NamedInv'
    BY <2>1, <2>4 DEF RestInv, NamedInv
  <2>10. LoadedInv'
    BY <2>4, <2>5 DEF LoadedInv, IsDone, Reloaded
  <2> QED
    BY <2>6, <2>7, <2>8, <2>9, <2>10 DEF RestInv
<1>12. ASSUME NEW p \in Parts, PutBack(p) PROVE RestInv'
  <2>1. /\ UNCHANGED <<running, loaded, backup, runtime, owned, before, changed, begun, broken>>
        /\ at[1] = "put back" /\ at[2] = p
    BY <1>12 DEF PutBack, Write, host, state, job
  <2>2. /\ p \notin changed => file[p] = before.file[p]
        /\ before.file[p].text = "absent" => before.file[p].edge = {}
    BY <2>1 DEF RestInv, KeptInv, KnownInv
  <2>3. CASE p \in changed
    <3>1. at' = <<"bring back", p>> /\ Write(p, IF p = "caddy" THEN Text(before.file[p]) ELSE before.file[p])
      BY <1>12, <2>3 DEF PutBack, Go
    <3>2. /\ \A q \in Parts \ {p} : file'[q] = file[q]
          /\ file'[p] = IF p = "caddy" THEN Text(before.file[p]) ELSE before.file[p]
      BY <3>1 DEF Write, TypeInv, HostOK
    <3>3. file'[p].edge = before.file[p].edge /\ (file'[p].text = "absent" => file'[p].edge = {})
      BY <2>2, <3>2, TextEdge
    <3> QED
      BY <2>1, <2>3, <3>1, <3>2, <3>3, RestPut
  <2>4. CASE p \notin changed
    <3>1. CaddyFirst(p, "put back", <<"settle", "caddy">>) /\ file' = file
      BY <1>12, <2>4 DEF PutBack, host
    <3>2. "caddy" \notin changed => Proxied'
      BY <2>1, <3>1 DEF RestInv, LoadedInv, Proxied
    <3>3. p = "caddy" => Proxied'
      BY <2>4, <2>1, <3>2
    <3> QED
      BY <2>1, <2>2, <2>4, <3>1, <3>2, <3>3, RestNext
  <2> QED
    BY <2>3, <2>4
<1>13. ASSUME NEW p \in Parts, BringBack(p) PROVE RestInv'
  <2>1. /\ UNCHANGED <<backup, runtime, owned, before, changed, begun>>
        /\ at[1] = "bring back" /\ at[2] = p /\ p \in changed
        /\ CaddyFirst(p, "put back", <<"settle", "caddy">>)
    BY <1>13 DEF BringBack, state, RestInv, NotedInv
  <2>2. /\ file[p].edge = before.file[p].edge
        /\ file[p].text = "absent" => file[p].edge = {}
        /\ before.file[p].text = "absent" => before.file[p].edge = {}
    BY <2>1 DEF RestInv, KeptInv, KnownInv, IsBack
  <2>3. "caddy" \notin changed => Proxied
    BY DEF RestInv, LoadedInv
  <2>4. CASE BroughtBack(p)
    <3>1. /\ broken' = broken
          /\ running' = [running EXCEPT ![p] = @ /\ p \notin begun]
          /\ loaded' = IF p # "caddy" THEN loaded ELSE IF running'[p] THEN file[p].edge ELSE {}
          /\ file' = [file EXCEPT ![p] = IF before.file[p].text = "absent" THEN Absent ELSE @]
      BY <2>4 DEF BroughtBack
    <3>2. /\ \A q \in Parts \ {p} : file'[q] = file[q]
          /\ file'[p] = IF before.file[p].text = "absent" THEN Absent ELSE file[p]
      BY <3>1 DEF TypeInv, HostOK
    <3>3. file'[p].edge = before.file[p].edge /\ (file'[p].text = "absent" => file'[p].edge = {})
      BY <2>2, <3>2, AbsentEdge
    <3>4. p = "caddy" => Proxied'
      BY <2>2, <3>1, <3>3 DEF Proxied
    <3>5. p # "caddy" => running'["caddy"] = running["caddy"] /\ loaded' = loaded
      BY <3>1 DEF TypeInv, HostOK
    <3>6. "caddy" \notin changed => Proxied'
      BY <1>0, <2>1, <2>3, <3>2, <3>5 DEF Proxied
    <3>7. p \in changed /\ broken' = broken /\ \A q \in Parts \ {p} : file'[q] = file[q]
      BY <2>1, <3>1, <3>2
    <3> QED
      BY <2>1, <3>3, <3>4, <3>5, <3>6, <3>7, RestNext
  <2>5. CASE NotBroughtBack(p)
    <3>1. broken' # {}
      BY <2>5 DEF NotBroughtBack
    <3>2. /\ file' = file
          /\ p # "caddy" => running'["caddy"] = running["caddy"] /\ loaded' = loaded
      <4>1. CASE UNCHANGED host
        BY <4>1 DEF host
      <4>2. ASSUME NEW outcome, Down(p, outcome)
            PROVE  /\ file' = file
                   /\ p # "caddy" => running'["caddy"] = running["caddy"] /\ loaded' = loaded
        <5>1. CASE outcome = "fail"
          BY <4>2, <5>1 DEF Down, host
        <5>2. CASE outcome # "fail"
          BY <4>2, <5>2 DEF Down, TypeInv, HostOK, Parts
        <5> QED
          BY <5>1, <5>2
      <4> QED
        BY <2>5, <4>1, <4>2 DEF NotBroughtBack
    <3>3. "caddy" \notin changed => Proxied'
      BY <1>0, <2>1, <2>3, <3>2 DEF Proxied
    <3> QED
      BY <2>1, <2>2, <3>1, <3>2, <3>3, RestNext
  <2> QED
    BY <1>13, <2>4, <2>5, BringBackCases
<1> QED
  BY <1>1, <1>2, <1>3, <1>4, <1>5, <1>6, <1>7, <1>8, <1>9, <1>10, <1>11, <1>12, <1>13 DEF Apply

LEMMA RemainingRest ==
  ASSUME TypeInv, RestInv, NEW p \in Parts
  PROVE  /\ before.selected \ before.stale \subseteq Remaining(p).edge
         /\ Final => Remaining(p).edge = {}
         /\ Remaining(p).text = "absent" => Remaining(p).edge = {}
<1>1. file[p] \in Content /\ backup[p] \in Content /\ backup[p].edge = {}
  BY DEF TypeInv, HostOK, RecordOK, RestInv, KeptInv
<1>2. Text(file[p]) \in Content
  BY <1>1, ContentType
<1>3. CASE Final
  <2>1. [Text(file[p]) EXCEPT !.edge = {}].edge = {}
    BY <1>2 DEF Content
  <2>2. Remaining(p).edge = {}
    BY <1>1, <1>3, <2>1 DEF Remaining
  <2> QED
    BY <1>3, <2>2 DEF Final
<1>4. CASE ~Final
  BY <1>1, <1>2, <1>4, MergeEdge DEF Remaining
<1> QED
  BY <1>3, <1>4

(* The end of a reconciliation: services and plan stay, files lose what    *)
(* they have left.                                                         *)
LEMMA RestCloses ==
  ASSUME RestInv, at[1] \in {"r-drop", "r-clear", "r-tidy", "r-activate", "r-forget"},
         UNCHANGED <<running, loaded, before, changed, begun, broken>>,
         NEW stage \in {"r-clear", "r-tidy", "r-forget", "r-plan"}, at' = <<stage, "caddy">>,
         \A p \in Parts : file'[p] = file[p] \/ (Final /\ file'[p].edge = {}),
         \A p \in Parts : backup'[p].edge = {},
         owned' \subseteq owned,
         stage = "r-plan" => owned' \cap before.stale = {},
         stage \in {"r-clear", "r-tidy"} => Final,
         stage = "r-tidy" => runtime' = None,
         stage \in {"r-forget", "r-plan"} =>
           runtime'.status \in {"none", "active"} /\ (runtime' # None \/ Final)
  PROVE  RestInv'
<1>0. at'[1] = stage /\ at'[2] = "caddy" /\ "caddy" \in Parts
  BY PartNames
<1>1. /\ \A p : ~IsBack(p)' /\ ~IsDone(p)'
      /\ \A p : Written(p)
      /\ at[1] \in Removing /\ stage \in Removing /\ at[1] \in Reloaded
  BY <1>0 DEF IsBack, IsDone, Written, Wrote, Removing, Reloaded
<1>2. changed = Parts
  BY <1>0 DEF RestInv, KeptInv, NotedInv, Wrote
<1>3. NotedInv'
  BY <1>0, <1>2 DEF NotedInv, Wrote, Unreloaded
<1>4. KnownInv'
  BY <1>0, <1>1 DEF RestInv, KnownInv, Final
<1>5. \A p \in Parts : file'[p].edge = file[p].edge
  <2>1. \A p \in Parts : Final => file[p].edge = {}
    BY <1>1 DEF RestInv, KeptInv
  <2> QED
    BY <2>1
<1>6. KeptInv'
  <2>1. ASSUME NEW p \in Parts PROVE file'[p].text = "absent" => file'[p].edge = {}
    BY <1>5 DEF RestInv, KeptInv
  <2>2. ASSUME NEW p \in Parts
        PROVE  before'.selected \ before'.stale \subseteq file'[p].edge /\ (Final' => file'[p].edge = {})
    BY <1>1, <1>5 DEF RestInv, KeptInv, Final
  <2> QED
    BY <1>0, <1>1, <1>2, <2>1, <2>2 DEF KeptInv
<1>7. NamedInv'
  BY <1>0 DEF NamedInv, Final
<1>8. LoadedInv'
  BY <1>0, <1>1, <1>5 DEF RestInv, LoadedInv, Proxied
<1> QED
  BY <1>3, <1>4, <1>6, <1>7, <1>8 DEF RestInv

(* What a command does to the other part, and what it leaves of Caddy.     *)
LEMMA CommandRest ==
  ASSUME TypeInv, NEW p \in Parts, NEW outcome, Up(p, outcome) \/ Down(p, outcome)
  PROVE  /\ file' = file
         /\ p # "caddy" => running'["caddy"] = running["caddy"] /\ loaded' = loaded
         /\ Proxied => Proxied'
<1>1. "caddy" \in Parts
  BY PartNames
<1>2. CASE UNCHANGED host
  BY <1>2 DEF host, Proxied
<1>3. CASE ~UNCHANGED host
  <2>1. CASE Up(p, outcome)
    BY <1>1, <1>3, <2>1 DEF Up, TypeInv, HostOK, Parts, Proxied
  <2>2. CASE Down(p, outcome)
    BY <1>1, <1>3, <2>2 DEF Down, TypeInv, HostOK, Parts, Proxied
  <2> QED
    BY <2>1, <2>2
<1> QED
  BY <1>2, <1>3

LEMMA RemovalRest ==
  "probe" \notin Faults /\ TypeInv /\ RestInv /\ Reconcile /\ clean' => RestInv'
<1> SUFFICES ASSUME "probe" \notin Faults, TypeInv, RestInv, Reconcile, clean' PROVE RestInv'
  OBVIOUS
<1>0. "caddy" \in Parts /\ Parts # {} /\ "caddy" \in DOMAIN running
  BY PartNames DEF TypeInv, HostOK
<1>1. CASE ReconcileRoutes
  <2>1. PICK stage \in {"r-start", "r-off"} :
          at' = <<stage, "tailscale">> /\ Plan(Active) /\ at[1] = "idle"
    BY <1>1 DEF ReconcileRoutes, Go
  <2>2. at'[1] = stage
    BY <2>1
  <2> QED
    BY <2>1, <2>2, RestPlan
<1>2. CASE RemoveRoutes \/ VerifyRemoved \/ ValidateRemoval
  <2>1. /\ UNCHANGED <<file, running, loaded, backup, runtime, owned, before, changed, begun, broken>>
        /\ at[1] \in {"r-off", "r-verify", "r-validate"}
    BY <1>2 DEF RemoveRoutes, VerifyRemoved, ValidateRemoval, host, state, job
  <2>2. PICK stage \in {"r-verify", "r-validate", "r-own", "r-put back"} : at' = <<stage, "caddy">>
    BY <1>2 DEF RemoveRoutes, VerifyRemoved, ValidateRemoval, GiveUp, Go
  <2>3. /\ at[1] \in Removing /\ stage \in Removing /\ at[1] # "idle"
        /\ stage \notin Wrote /\ stage \notin Reloaded /\ at[1] \in Unreloaded
    BY <2>1, <2>2 DEF Removing, Wrote, Reloaded, Unreloaded
  <2>4. CASE stage = "r-put back"
    BY <2>1, <2>2, <2>3, <2>4, RestFails
  <2>5. CASE stage # "r-put back"
    <3>1. stage \in {"r-verify", "r-validate", "r-own"} /\ stage \notin Wrote \cup {"r-activate"}
      BY <2>2, <2>3, <2>5
    <3>2. running'["caddy"] => before.running["caddy"] \/ "caddy" \in begun'
      BY <2>1, <2>3 DEF RestInv, NotedInv
    <3>3. "caddy" \notin changed => Proxied'
      BY <2>1 DEF RestInv, LoadedInv, Proxied
    <3> QED
      BY <2>1, <2>2, <2>3, <3>1, <3>2, <3>3, RestOn
  <2> QED
    BY <2>4, <2>5
<1>3. CASE StartSidecar
  <2>1. /\ UNCHANGED <<backup, runtime, owned, before, changed, broken>> /\ at[1] = "r-start"
        /\ begun \subseteq begun'
    BY <1>3 DEF StartSidecar, state
  <2>2. file' = file /\ running'["caddy"] = running["caddy"] /\ loaded' = loaded
    <3>1. "tailscale" \in Parts
      BY <2>1 DEF TypeInv, Parts
    <3>2. ASSUME NEW outcome, Up("tailscale", outcome)
          PROVE  file' = file /\ running'["caddy"] = running["caddy"] /\ loaded' = loaded
      BY <3>1, <3>2, CommandRest
    <3> QED
      BY <1>3, <3>2 DEF StartSidecar, host
  <2>3. at' = <<"r-off", "caddy">> \/ at' = <<"r-put back", "caddy">>
    BY <1>3 DEF StartSidecar, GiveUp, Go
  <2>4. /\ at[1] \in Removing /\ "r-off" \in Removing /\ at[1] \in Unreloaded
        /\ "r-off" \notin Wrote /\ "r-off" \notin Reloaded
    BY <2>1 DEF Removing, Unreloaded, Wrote, Reloaded
  <2>5. CASE at' = <<"r-put back", "caddy">>
    BY <2>1, <2>2, <2>4, <2>5, RestFails
  <2>6. CASE at' = <<"r-off", "caddy">>
    <3>1. running'["caddy"] => before.running["caddy"] \/ "caddy" \in begun'
      BY <2>1, <2>2, <2>4 DEF RestInv, NotedInv
    <3>2. "caddy" \notin changed => Proxied'
      BY <2>1, <2>2 DEF RestInv, LoadedInv, Proxied
    <3> QED
      BY <2>1, <2>2, <2>4, <2>6, <3>1, <3>2, RestOn
  <2> QED
    BY <2>3, <2>5, <2>6
<1>4. CASE OwnRemoval
  <2>1. /\ UNCHANGED <<file, running, loaded, backup, owned, before, changed, begun, broken>>
        /\ at[1] = "r-own" /\ at' = <<"r-write", "caddy">>
    BY <1>4 DEF OwnRemoval, Go, host, job
  <2>2. at'[1] = "r-write" /\ at'[2] = "caddy"
    BY <2>1
  <2>3. NotedInv'
    BY <2>1, <2>2 DEF RestInv, NotedInv, Wrote, Unreloaded
  <2>4. KnownInv'
    BY <2>1, <2>2 DEF RestInv, KnownInv, Removing, Final
  <2>5. \A p : ~IsBack(p)' /\ ~IsDone(p)' /\ ~Written(p)'
    BY <2>2 DEF IsBack, IsDone, Written, Wrote
  <2>6. KeptInv'
    BY <2>1, <2>2, <2>5 DEF RestInv, KeptInv
  <2>7. NamedInv'
    BY <2>2 DEF NamedInv
  <2>8. LoadedInv'
    BY <2>1, <2>2, <2>5 DEF RestInv, LoadedInv, Proxied, Reloaded
  <2> QED
    BY <2>3, <2>4, <2>6, <2>7, <2>8 DEF RestInv
<1>5. ASSUME NEW p \in Parts, WriteRemoval(p) PROVE RestInv'
  <2>1. /\ UNCHANGED <<running, backup, runtime, owned, before, begun, broken>>
        /\ at[1] = "r-write" /\ at[2] = p
    BY <1>5 DEF WriteRemoval, Write, host, state
  <2>2. CASE GiveUp /\ UNCHANGED <<host, changed>>
    <3>1. /\ UNCHANGED <<file, running, loaded, changed>> /\ at' = <<"r-put back", "caddy">>
      BY <2>2 DEF GiveUp, Go, host
    <3>2. at[1] \in Removing
      BY <2>1 DEF Removing
    <3> QED
      BY <2>1, <3>1, <3>2, RestFails
  <2>3. CASE /\ Write(p, Remaining(p)) /\ changed' = changed \cup {p}
             /\ CaddyFirst(p, "r-write", <<"r-restart", IF Sidecar THEN "tailscale" ELSE "caddy">>)
    <3>1. file'[p] = Remaining(p) /\ \A r \in Parts \ {p} : file'[r] = file[r]
      BY <2>3 DEF Write, TypeInv, HostOK
    <3>2. PICK stage \in {"r-write", "r-restart"}, q \in {"caddy", "tailscale"} :
            /\ at' = <<stage, q>>
            /\ stage = "r-write" => p = "caddy"
            /\ stage = "r-restart" => ~(p = "caddy" /\ Sidecar)
      BY <2>3 DEF CaddyFirst, Go
    <3>3. at'[1] = stage /\ at'[2] = q
      BY <3>2
    <3>4. "caddy" \in changed' /\ (stage = "r-restart" => changed' = Parts)
      <4>1. p = "tailscale" => "caddy" \in changed
        BY <2>1 DEF RestInv, NotedInv
      <4>2. changed \subseteq Parts
        BY DEF TypeInv, JobOK
      <4>3. CASE p = "caddy"
        BY <2>3, <3>2, <4>2, <4>3 DEF Parts
      <4>4. CASE p = "tailscale"
        BY <2>3, <4>1, <4>2, <4>4 DEF Parts
      <4> QED
        BY <4>3, <4>4 DEF Parts
    <3>5. NotedInv'
      BY <2>1, <3>3, <3>4 DEF RestInv, NotedInv, Unreloaded, Wrote
    <3>6. KnownInv'
      BY <2>1, <3>3 DEF RestInv, KnownInv, Removing, Final
    <3>7. KeptInv'
      <4>1. ASSUME NEW r \in Parts
            PROVE  (file'[r].text = "absent" => file'[r].edge = {}) /\ backup'[r].edge = {}
        <5>1. (file[r].text = "absent" => file[r].edge = {}) /\ backup[r].edge = {}
          BY DEF RestInv, KeptInv
        <5> QED
          BY <2>1, <3>1, <5>1, RemainingRest
      <4>2. ASSUME NEW r \in Parts, r \notin changed' PROVE file'[r] = before'.file[r]
        BY <2>1, <2>3, <3>1, <4>2 DEF RestInv, KeptInv
      <4>3. \A r : ~IsBack(r)'
        BY <3>3 DEF IsBack, IsDone
      <4>4. ASSUME NEW r \in Parts, Written(r)'
            PROVE  before.selected \ before.stale \subseteq file'[r].edge /\ (Final => file'[r].edge = {})
        <5>1. r = p \/ Written(r)
          BY <2>1, <3>2, <3>3, <4>4 DEF Written, Wrote, Parts
        <5>2. Written(r) => before.selected \ before.stale \subseteq file[r].edge /\ (Final => file[r].edge = {})
          BY DEF RestInv, KeptInv
        <5> QED
          BY <3>1, <5>1, <5>2, RemainingRest
      <4> QED
        BY <2>1, <3>3, <4>1, <4>2, <4>3, <4>4 DEF KeptInv, Final
    <3>8. NamedInv'
      BY <3>3 DEF NamedInv
    <3>9. LoadedInv'
      BY <3>3, <3>4 DEF LoadedInv, IsDone, Reloaded
    <3> QED
      BY <3>5, <3>6, <3>7, <3>8, <3>9 DEF RestInv
  <2> QED
    BY <1>5, <2>2, <2>3 DEF WriteRemoval
<1>6. ASSUME NEW p \in Parts, Restart(p) PROVE RestInv'
  <2>1. /\ UNCHANGED <<backup, runtime, owned, before, changed, broken>>
        /\ at[1] = "r-restart" /\ "caddy" \in changed
    BY <1>0, <1>6 DEF Restart, state, RestInv, NotedInv, Wrote
  <2>2. \/ UNCHANGED <<file, running, begun>>
        \/ /\ file' = file /\ begun' \in {begun, begun \cup {p}}
           /\ begun' = begun => at' = <<"r-put back", "caddy">>
           /\ p # "caddy" => running'["caddy"] = running["caddy"]
    BY <1>6, CommandRest DEF Restart, host, GiveUp, Go
  <2>3. PICK stage \in {"r-restart", "r-reload", "r-put back"} : at' = <<stage, "caddy">>
    BY <1>6 DEF Restart, GiveUp, Go
  <2>4. /\ at[1] \in Removing /\ stage \in Removing /\ at[1] \in Unreloaded
        /\ stage \notin Reloaded /\ at[1] \in Wrote /\ at[1] # "idle"
    BY <2>1, <2>3 DEF Removing, Unreloaded, Wrote, Reloaded
  <2>5. file' = file
    BY <2>2
  <2>6. CASE stage = "r-put back"
    BY <2>1, <2>3, <2>4, <2>5, <2>6, RestFails
  <2>7. CASE stage # "r-put back"
    <3>1. at' # <<"r-put back", "caddy">>
      BY <2>3, <2>7
    <3>2. running'["caddy"] => before.running["caddy"] \/ "caddy" \in begun'
      BY <2>1, <2>2, <2>4, <3>1 DEF RestInv, NotedInv
    <3> QED
      BY <2>1, <2>3, <2>4, <2>5, <2>7, <3>2, RestOn
  <2> QED
    BY <2>6, <2>7
<1>7. CASE ReloadRemoval
  <2>1. /\ UNCHANGED <<file, running, backup, runtime, owned, before, changed, begun, broken>>
        /\ at[1] = "r-reload" /\ "caddy" \in changed
    BY <1>0, <1>7 DEF ReloadRemoval, state, job, RestInv, NotedInv, Wrote
  <2>2. /\ at[1] \in Removing /\ "r-stop" \in Removing /\ at[1] \in Wrote
        /\ at[1] \in Unreloaded /\ "r-stop" \notin Unreloaded
    BY <2>1 DEF Removing, Unreloaded, Wrote
  <2>3. CASE at' = <<"r-put back", "caddy">>
    BY <2>1, <2>2, <2>3, RestFails
  <2>4. CASE /\ at' = <<"r-stop", "caddy">>
             /\ \/ loaded' = file["caddy"].edge
                \/ ~before.running["caddy"] /\ "caddy" \notin begun
    <3>1. Proxied'
      BY <2>1, <2>2, <2>4 DEF Proxied, RestInv, NotedInv
    <3> QED
      BY <2>1, <2>2, <2>4, <3>1, RestOn
  <2> QED
    BY <1>7, <2>3, <2>4 DEF ReloadRemoval, GiveUp, Go
<1>8. ASSUME NEW p \in Parts, Stop(p) PROVE RestInv'
  <2>1. /\ UNCHANGED <<backup, runtime, owned, before, changed, begun, broken>>
        /\ at[1] = "r-stop" /\ "caddy" \in changed
    BY <1>0, <1>8 DEF Stop, state, RestInv, NotedInv, Wrote
  <2>2. Proxied /\ file' = file /\ Proxied'
    <3>1. Proxied
      BY <2>1 DEF RestInv, LoadedInv, Reloaded
    <3>2. UNCHANGED host \/ \E outcome : Down(p, outcome)
      BY <1>8 DEF Stop, host
    <3>3. UNCHANGED host => file' = file /\ Proxied'
      BY <3>1 DEF host, Proxied
    <3> QED
      BY <3>1, <3>2, <3>3, CommandRest
  <2>3. PICK stage \in {"r-stop", "r-drop", "r-activate", "r-put back"}, q \in {"caddy", "tailscale"} :
          /\ at' = <<stage, q>> /\ (stage = "r-put back" => q = "caddy")
          /\ stage = "r-drop" => Final
    BY <1>8 DEF Stop, GiveUp, Go, CaddyFirst
  <2>4. /\ at[1] \in Removing /\ stage \in Removing /\ stage \notin Unreloaded
        /\ at[1] \in Wrote /\ at[1] # "idle"
    BY <2>1, <2>3 DEF Removing, Unreloaded, Wrote
  <2>5. CASE stage = "r-put back"
    BY <2>1, <2>2, <2>3, <2>4, <2>5, RestFails
  <2>6. CASE stage # "r-put back"
    BY <2>1, <2>2, <2>3, <2>4, <2>6, RestOn
  <2> QED
    BY <2>5, <2>6
<1>9. CASE Drop \/ Clear \/ Tidy \/ ActivateRemoval \/ Forget
  <2>1. /\ UNCHANGED <<running, loaded, before, changed, begun, broken>>
        /\ at[1] \in {"r-drop", "r-clear", "r-tidy", "r-activate", "r-forget"}
    BY <1>9 DEF Drop, Clear, Tidy, ActivateRemoval, Forget, host, job
  <2>2. at[1] \in {"r-drop", "r-clear", "r-tidy"} => Final
    BY DEF RestInv, NamedInv
  <2>3. \A p \in Parts : backup[p].edge = {}
    BY DEF RestInv, KeptInv
  <2>4. CASE Drop
    <3>1. /\ at' = <<"r-clear", "caddy">> /\ UNCHANGED <<backup, runtime, owned>> /\ Final
          /\ file' = [file EXCEPT !["caddy"] = IF Unused("caddy") THEN Absent ELSE @]
      BY <2>2, <2>4 DEF Drop, Go, state
    <3>2. \A p \in Parts : file'[p] = file[p] \/ (Final /\ file'[p].edge = {})
      BY <3>1, AbsentEdge DEF TypeInv, HostOK
    <3> QED
      BY <2>1, <2>3, <3>1, <3>2, RestCloses
  <2>5. CASE Clear
    <3>1. /\ at' = <<"r-tidy", "caddy">> /\ UNCHANGED <<file, backup, owned>> /\ Final
          /\ runtime' = None
      BY <2>2, <2>5 DEF Clear, Go, host
    <3> QED
      BY <2>1, <2>3, <3>1, RestCloses
  <2>6. CASE Tidy
    <3>1. /\ at' = <<"r-forget", "caddy">> /\ UNCHANGED <<runtime, owned>> /\ Final
          /\ backup' = [p \in Parts |-> Absent]
          /\ file' = [p \in Parts |-> IF p = "tailscale" /\ Unused(p) THEN Absent ELSE file[p]]
      BY <2>2, <2>6 DEF Tidy, Go
    <3>2. \A p \in Parts : file'[p] = file[p] \/ (Final /\ file'[p].edge = {})
      BY <3>1, AbsentEdge
    <3>3. \A p \in Parts : backup'[p].edge = {}
      BY <3>1, AbsentEdge
    <3>4. runtime'.status \in {"none", "active"}
      BY <2>6, <3>1 DEF Tidy, RestInv, NamedInv, None
    <3> QED
      BY <2>1, <3>1, <3>2, <3>3, <3>4, RestCloses
  <2>7. CASE ActivateRemoval
    <3>1. at' = <<"r-forget", "caddy">> /\ UNCHANGED <<file, backup, owned>>
      BY <2>7 DEF ActivateRemoval, Go, host
    <3>2. runtime'.status = "active" /\ runtime' # None
      BY <2>7 DEF ActivateRemoval, TypeInv, JobOK, Before, Runtime, None
    <3> QED
      BY <2>1, <2>3, <3>1, <3>2, RestCloses
  <2>8. CASE Forget
    <3>1. /\ at' = <<"r-plan", "caddy">> /\ UNCHANGED <<file, backup, runtime>>
          /\ owned' = owned \ before.stale /\ at[1] = "r-forget"
      BY <2>8 DEF Forget, Go, host
    <3>2. runtime.status \in {"none", "active"} /\ (runtime # None \/ Final)
      BY <3>1 DEF RestInv, NamedInv
    <3>3. owned' \subseteq owned /\ owned' \cap before.stale = {}
      BY <3>1
    <3> QED
      BY <2>1, <2>3, <3>1, <3>2, <3>3, RestCloses
  <2> QED
    BY <1>9, <2>4, <2>5, <2>6, <2>7, <2>8
<1>10. CASE PlanAgain
  <2>1. /\ UNCHANGED <<file, running, loaded, backup, runtime, owned>> /\ at[1] = "r-plan"
    BY <1>10 DEF PlanAgain, host, state
  <2>2. CASE Report("reconciled")
    <3>1. /\ \A p : Written(p)
          /\ at[1] \in Removing /\ at[1] \in Reloaded
      BY <2>1 DEF Written, Wrote, Removing, Reloaded
    <3>2. owned \subseteq before.selected \ before.stale
      BY <2>1 DEF RestInv, KnownInv
    <3>3. \A p \in Parts : owned \subseteq file[p].edge /\ (file[p].edge # {} => runtime # None)
      BY <2>1, <3>1, <3>2 DEF RestInv, KeptInv, NamedInv
    <3>4. runtime.status \in {"none", "active"} /\ Proxied'
      BY <2>1, <3>1 DEF RestInv, NamedInv, LoadedInv, Proxied
    <3> QED
      BY <2>1, <2>2, <3>3, <3>4, RestEnds DEF RestInv, KeptInv
  <2>3. CASE GiveUp /\ UNCHANGED <<job, result>>
    <3>1. UNCHANGED <<before, changed>> /\ at' = <<"r-put back", "caddy">>
      BY <2>3 DEF GiveUp, Go, job
    <3>2. at[1] \in Removing
      BY <2>1 DEF Removing
    <3> QED
      BY <2>1, <3>1, <3>2, RestFails
  <2> QED
    BY <1>10, <2>2, <2>3 DEF PlanAgain
<1>11. CASE Republish
  <2>1. /\ UNCHANGED <<file, running, loaded, backup, owned, runtime>> /\ \E r : Report(r)
        /\ at[1] = "r-republish" /\ broken = {}
    BY <1>11 DEF Republish, state
  <2>2. \A p : IsDone(p) /\ IsBack(p)
    BY <2>1 DEF IsBack, IsDone
  <2>3. runtime = before.runtime /\ runtime.status \in {"none", "active"}
    BY <2>1 DEF RestInv, NamedInv, KnownInv
  <2>4. \A p \in Parts : owned \subseteq file[p].edge /\ (file[p].edge # {} => runtime # None)
    BY <2>1, <2>2, <2>3 DEF RestInv, KnownInv, KeptInv
  <2>5. Proxied'
    BY <2>1, <2>2 DEF RestInv, LoadedInv, Proxied
  <2> QED
    BY <2>1, <2>3, <2>4, <2>5, RestEnds DEF RestInv, KeptInv
<1>12. ASSUME NEW p \in Parts, RestoreFile(p) PROVE RestInv'
  <2>1. /\ UNCHANGED <<running, loaded, backup, owned, before, changed, begun, broken>>
        /\ at[1] = "r-put back" /\ at[2] = p
    BY <1>12 DEF RestoreFile, Write, host, job
  <2>2. /\ p \notin changed => file[p] = before.file[p]
        /\ file[p].text = "absent" => file[p].edge = {}
        /\ before.file[p].text = "absent" => before.file[p].edge = {}
    BY <2>1 DEF RestInv, KeptInv, KnownInv
  <2>3. CASE p \in changed \cup (begun \cap {"tailscale"})
    <3>1. at' = <<"r-bring back", p>> /\ runtime' = runtime
      BY <1>12, <2>3 DEF RestoreFile, Go
    <3>2. /\ \A q \in Parts \ {p} : file'[q] = file[q]
          /\ p \in changed => file'[p] = Text(before.file[p])
          /\ p \notin changed => file' = file
      BY <1>12 DEF RestoreFile, Write, TypeInv, HostOK, host
    <3>3. file'[p].edge = before.file[p].edge /\ (file'[p].text = "absent" => file'[p].edge = {})
      BY <2>2, <3>2, TextEdge
    <3> QED
      BY <2>1, <3>1, <3>2, <3>3, RestPut
  <2>4. CASE p \notin changed \cup (begun \cap {"tailscale"})
    <3>1. /\ CaddyFirst(p, "r-put back", <<"r-republish", "caddy">>) /\ file' = file
          /\ runtime' = IF p = "caddy" THEN before.runtime ELSE runtime
      BY <1>12, <2>4 DEF RestoreFile, host
    <3>2. broken = {} => runtime' = before.runtime
      BY <2>1, <3>1 DEF RestInv, NamedInv, Parts
    <3>3. "caddy" \notin changed => Proxied'
      BY <2>1, <3>1 DEF RestInv, LoadedInv, Proxied
    <3>4. p = "caddy" => Proxied'
      BY <2>4, <3>3
    <3> QED
      BY <2>1, <2>2, <2>4, <3>1, <3>2, <3>3, <3>4, RestNext
  <2> QED
    BY <2>3, <2>4
<1>13. ASSUME NEW p \in Parts, RestoreRun(p) PROVE RestInv'
  <2>1. /\ UNCHANGED <<backup, owned, before, changed, begun>>
        /\ at[1] = "r-bring back" /\ at[2] = p
        /\ CaddyFirst(p, "r-put back", <<"r-republish", "caddy">>)
    BY <1>13 DEF RestoreRun
  <2>2. /\ file[p].edge = before.file[p].edge
        /\ file[p].text = "absent" => file[p].edge = {}
        /\ p \notin changed => file[p] = before.file[p]
    BY <2>1 DEF RestInv, KeptInv, IsBack
  <2>3. "caddy" \notin changed => Proxied
    BY DEF RestInv, LoadedInv
  <2>4. CASE RestoredRun(p)
    <3>1. /\ file' = file /\ broken' = broken /\ runtime' = before.runtime
          /\ \A q \in Parts \ {p} : running'[q] = running[q]
          /\ p # "caddy" => loaded' = loaded
          /\ p = "caddy" => (running'[p] => loaded' = file[p].edge)
      BY <2>4 DEF RestoredRun, TypeInv, HostOK
    <3>2. p = "caddy" => Proxied'
      BY <3>1 DEF Proxied
    <3>3. p # "caddy" => running'["caddy"] = running["caddy"] /\ loaded' = loaded
      BY <1>0, <3>1
    <3>4. "caddy" \notin changed => Proxied'
      BY <2>3, <3>1, <3>2, <3>3 DEF Proxied
    <3> QED
      BY <2>1, <2>2, <3>1, <3>2, <3>3, <3>4, RestNext
  <2>5. CASE NotRestoredRun(p)
    <3>1. broken' # {}
      BY <2>5 DEF NotRestoredRun
    <3>2. UNCHANGED host \/ \E outcome : Up(p, outcome) \/ Down(p, outcome)
      BY <2>5 DEF NotRestoredRun
    <3>3. /\ file' = file
          /\ p # "caddy" => running'["caddy"] = running["caddy"] /\ loaded' = loaded
          /\ Proxied => Proxied'
      <4>1. CASE UNCHANGED host
        BY <4>1 DEF host, Proxied
      <4> QED
        BY <3>2, <4>1, CommandRest
    <3> QED
      BY <2>1, <2>2, <2>3, <3>1, <3>3, RestNext
  <2> QED
    BY <1>13, <2>4, <2>5, RestoreRunCases
<1> QED
  BY <1>1, <1>2, <1>3, <1>4, <1>5, <1>6, <1>7, <1>8, <1>9, <1>10, <1>11, <1>12, <1>13 DEF Reconcile

LEMMA RestStep ==
  ASSUME "probe" \notin Faults, TypeInv, clean => RestInv, [Next]_vars PROVE clean' => RestInv'
<1> SUFFICES ASSUME clean' PROVE RestInv'
  OBVIOUS
<1>1. CASE Crash
  BY <1>1 DEF Crash
<1>2. ASSUME ~Crash PROVE clean
  <2>1. CASE Apply
    <3>1. ASSUME NEW p \in Parts, Backup(p) \/ WriteConfig(p) \/ Start(p) \/ PutBack(p) \/ BringBack(p)
          PROVE  clean' = clean
      BY <3>1 DEF Backup, WriteConfig, Start, PutBack, BringBack
    <3>2. CASE \/ ApplyRoutes \/ AdoptRoutes \/ Adopt \/ Validate \/ Own \/ Reload \/ Publish
               \/ Verify \/ Record \/ Activate \/ Unpublish \/ Settle \/ Blame
      BY <3>2 DEF ApplyRoutes, AdoptRoutes, Adopt, Validate, Own, Reload, Publish, Verify, Record,
                  Activate, Unpublish, Settle, Blame, Plan, TypeInv, RecordOK
    <3> QED
      BY <2>1, <3>1, <3>2 DEF Apply
  <2>2. CASE Reconcile
    <3>1. ASSUME NEW p \in Parts,
                 WriteRemoval(p) \/ Restart(p) \/ Stop(p) \/ RestoreFile(p) \/ RestoreRun(p)
          PROVE  clean' = clean
      BY <3>1 DEF WriteRemoval, Restart, Stop, RestoreFile, RestoreRun
    <3>2. CASE \/ ReconcileRoutes \/ StartSidecar \/ RemoveRoutes \/ VerifyRemoved \/ ValidateRemoval
               \/ OwnRemoval \/ ReloadRemoval \/ Drop \/ Clear \/ Tidy \/ ActivateRemoval \/ Forget
               \/ PlanAgain \/ Republish
      BY <3>2 DEF ReconcileRoutes, StartSidecar, RemoveRoutes, VerifyRemoved, ValidateRemoval,
                  OwnRemoval, ReloadRemoval, Drop, Clear, Tidy, ActivateRemoval, Forget, PlanAgain,
                  Republish, Plan, TypeInv, RecordOK
    <3> QED
      BY <2>2, <3>1, <3>2 DEF Reconcile
  <2>3. CASE User \/ UNCHANGED vars
    BY <2>3 DEF User, ConfigEdited, UserStops, vars
  <2> QED
    BY <1>2, <2>1, <2>2, <2>3 DEF Next
<1>3. CASE ConfigEdited \/ UNCHANGED vars
  <2>1. UNCHANGED <<file, running, loaded, backup, runtime, owned, at, before, done, changed, begun, broken>>
    BY <1>3 DEF ConfigEdited, host, state, job, vars
  <2>2. RestInv
    BY <1>2, <1>3 DEF Crash, Report, ConfigEdited, vars
  <2>3. /\ \A p : IsDone(p)' = IsDone(p) /\ Written(p)' = Written(p) /\ IsBack(p)' = IsBack(p)
        /\ Proxied' = Proxied /\ Final' = Final
    BY <2>1 DEF Proxied, Written, IsBack, IsDone, Final
  <2>4. NotedInv'
    BY <2>1, <2>2 DEF RestInv, NotedInv
  <2>7. NamedInv'
    BY <2>1, <2>2, <2>3 DEF RestInv, NamedInv
  <2>8. KnownInv'
    BY <2>1, <2>2, <2>3 DEF RestInv, KnownInv
  <2>5. KeptInv'
    BY <2>1, <2>2, <2>3 DEF RestInv, KeptInv
  <2>6. LoadedInv'
    BY <2>1, <2>2, <2>3 DEF RestInv, LoadedInv
  <2> QED
    BY <2>4, <2>5, <2>6, <2>7, <2>8 DEF RestInv
<1>4. ASSUME NEW p \in Parts, UserStops(p) PROVE RestInv'
  <2>1. /\ UNCHANGED <<backup, runtime, owned, at, before, done, changed, begun, broken>>
        /\ at[1] = "idle" /\ Down(p, "ok") /\ RestInv
    BY <1>4 DEF UserStops, state, job
  <2>2. file' = file /\ (Proxied => Proxied')
    BY <2>1, CommandRest
  <2>3. Proxied
    BY <2>1 DEF RestInv, NotedInv, LoadedInv
  <2>4. NotedInv'
    BY <2>1 DEF RestInv, NotedInv, Unreloaded
  <2>5. LoadedInv'
    BY <2>2, <2>3 DEF LoadedInv
  <2> QED
    BY <2>1, <2>2, <2>4, <2>5 DEF RestInv, KnownInv, KeptInv, NamedInv, Written, IsBack, IsDone, Final
<1> QED
  BY <1>1, <1>2, <1>3, <1>4, ApplyRest, RemovalRest DEF Next, User

(* Between attempts, unless one was cut short or could not be rolled back, *)
(* a route that is owned and served is in every file, and a Caddy that     *)
(* runs proxies what its file says: neither a failed attempt at any step   *)
(* nor a late effect of a command nor a plan that throws nor a user who    *)
(* stops the services leads anywhere else.  docker compose ps must tell    *)
(* what is running: a reconciliation reloads only a Caddy it has seen      *)
(* (planner.ts:1057).                                                      *)
THEOREM RestartsChangeNothing == "probe" \notin Faults => (Spec => []RestartSafe)
<1> SUFFICES ASSUME "probe" \notin Faults PROVE Spec => []RestartSafe
  OBVIOUS
<1>1. Init => RestInv
  <2> SUFFICES ASSUME Init PROVE RestInv
    OBVIOUS
  <2>1. at[1] = "idle"
    BY DEF Init
  <2>2. \A p : ~IsBack(p) /\ ~IsDone(p) /\ ~Written(p)
    BY <2>1 DEF IsBack, IsDone, Written, Wrote
  <2>3. \A p \in Parts : file[p].edge = {} /\ backup[p].edge = {}
    BY AbsentEdge DEF Init
  <2>4. Proxied
    BY <2>3, PartNames DEF Init, Proxied
  <2>5. NotedInv
    BY <2>1 DEF Init, NotedInv, Wrote, Unreloaded
  <2>6. NamedInv
    BY <2>1 DEF Init, NamedInv, None
  <2> QED
    BY <2>1, <2>2, <2>3, <2>4, <2>5, <2>6 DEF Init, RestInv, KnownInv, KeptInv, LoadedInv
<1>2. TypeInv /\ (clean => RestInv) /\ [Next]_vars => (clean => RestInv)'
  BY RestStep
<1>3. TypeInv /\ (clean => RestInv) => RestartSafe
  <2> SUFFICES ASSUME RestInv, at[1] = "idle" PROVE
                 /\ \A s \in owned \cap live, p \in Parts : s \in file[p].edge
                 /\ running["caddy"] => loaded = file["caddy"].edge
    BY DEF RestartSafe
  <2>1. \A p \in Parts : owned \subseteq file[p].edge
    BY DEF RestInv, KeptInv
  <2>2. Proxied
    BY DEF RestInv, NotedInv, LoadedInv
  <2> QED
    BY <2>1, <2>2 DEF Proxied
<1> QED
  BY <1>1, <1>2, <1>3, TypesHold, PTL DEF Spec
=============================================================================
