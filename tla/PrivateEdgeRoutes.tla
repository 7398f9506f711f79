------------------------- MODULE PrivateEdgeRoutes -------------------------
(***************************************************************************)
(* Private Edge with the tailscale-serve adapter: ExtensionPlanner.plan,   *)
(* apply, reload, applyRoutes and reconcileRoutes                          *)
(* (src/extensions/planner.ts) over planPrivateEdgeRoutes and              *)
(* planPrivateEdgeRouteRemovals (src/runtime/network-edge.ts).             *)
(*                                                                         *)
(* An attempt previews a plan, is confirmed with the token of that plan,   *)
(* plans again, and then runs one external command per listener, each with *)
(* a timeout.  A failure undoes what the attempt has done so far.  HTTP,   *)
(* MCP and the configuration watcher may have several attempts in flight,  *)
(* and the tailscale CLI's own user may change any listener meanwhile.     *)
(*                                                                         *)
(* Each service has one HTTPS listener of its own (the duplicate port case *)
(* of the planner is a conflict like any other); the order in which the    *)
(* services of an attempt are handled is left open.                        *)
(***************************************************************************)
EXTENDS Naturals, FiniteSets

CONSTANTS
  Services,  \* the services with a declared port
  Inspectable, \* those whose HTTPS port lies in 1024..65500, see Inspected
  Attempts,  \* calls of applyRoutes and reconcileRoutes, each repeatable
  Nobody,    \* not an attempt: a listener the CLI's own user changed last
  Earlier,   \* not an attempt: a listener an attempt that is over changed last
  Faults     \* what may go wrong besides a failing command, see below

(* "offline":  tailscale status fails, or says that it is not running      *)
(* "probe":    tailscale serve status fails and reads as no listeners      *)
(* "late":     a command times out and takes effect all the same           *)
(* "external": someone changes a listener with the tailscale CLI           *)
(* "crash":    the LocalLink process ends                                  *)
ASSUME RoutesAssumption ==
  /\ Services # {}
  /\ Inspectable \subseteq Services
  /\ Nobody \notin Attempts /\ Earlier \notin Attempts /\ Nobody # Earlier
  /\ Nobody \notin Services
  /\ Faults \subseteq {"offline", "probe", "late", "external", "crash"}

VARIABLES
  live,      \* what each service's listener targets: "none", "ours", "other"
  hand,      \* who changed it last
  owned,     \* privateEdgeRoutes of the workspace state, "active" or "rollback-failed"
  selected,  \* exposedPorts of the network-edge declaration
  declared,  \* are the declaration and the preference in place (~canApply)?
  at,        \* where each attempt is
  token,     \* the plan it is confirmed for
  todo,      \* services it has still to handle
  done,      \* services its commands succeeded for: "applied", "removed"
  pick,      \* the service whose listener it has just checked
  failed,    \* rollbackFailures, restoreFailures
  result,    \* the claim in its error, or "none" for any other answer
  calm       \* from now on nothing goes wrong

world == <<live, hand>>
settings == <<selected, declared>>
job == <<at, token, todo, done, pick, failed>>
vars == <<live, hand, owned, selected, declared, at, token, todo, done, pick,
          failed, result, calm>>

Listener == {"none", "ours", "other"}
Token == [for : {"routes", "removals"}, all : SUBSET Services, view : [Services -> Listener]]
Results == {"none", "rolled back", "restored"}

TypeOK ==
  /\ live \in [Services -> Listener]
  /\ hand \in [Services -> Attempts \cup {Nobody, Earlier}]
  /\ owned \in SUBSET Services
  /\ selected \in SUBSET Services
  /\ declared \in BOOLEAN
  /\ at \in [Attempts -> {"idle", "confirm", "publish", "verify", "record", "rollback",
                          "undo", "remove", "check", "forget", "restore", "redo"}]
  /\ token \in [Attempts -> Token]
  /\ todo \in [Attempts -> SUBSET Services]
  /\ done \in [Attempts -> SUBSET Services]
  /\ pick \in [Attempts -> Services \cup {Nobody}]
  /\ failed \in [Attempts -> SUBSET Services]
  /\ result \in [Attempts -> Results]
  /\ calm \in BOOLEAN
  /\ \A a \in Attempts : at[a] \in {"undo", "redo"} <=> pick[a] # Nobody

(* No listeners at all. *)
Blank == [s \in Services |-> "none"]

NoToken == [for |-> "routes", all |-> {}, view |-> Blank]

Init ==
  /\ live \in [Services -> Listener]
  /\ hand = [s \in Services |-> Nobody]
  /\ owned = {}
  /\ selected \in SUBSET Services
  /\ declared \in BOOLEAN
  /\ at = [a \in Attempts |-> "idle"]
  /\ token = [a \in Attempts |-> NoToken]
  /\ todo = [a \in Attempts |-> {}]
  /\ done = [a \in Attempts |-> {}]
  /\ pick = [a \in Attempts |-> Nobody]
  /\ failed = [a \in Attempts |-> {}]
  /\ result = [a \in Attempts |-> "none"]
  /\ calm = FALSE

-----------------------------------------------------------------------------
(* The read-only plan.  A probe returns the listeners, or Offline; a       *)
(* failing "serve status" reads as the empty configuration {}.             *)
Offline == [s \in Services |-> "unknown"]

Views ==
  {live} \cup (IF ~calm /\ "offline" \in Faults THEN {Offline} ELSE {})
         \cup (IF ~calm /\ "probe" \in Faults THEN {Blank} ELSE {})

Conflict(sel, view) == \E s \in sel : view[s] = "other"

InSync(sel, view) == sel # {} /\ \A s \in sel : view[s] = "ours"

Ready(sel, view) ==
  /\ view # Offline
  /\ ~Conflict(sel, view)
  /\ \E s \in sel : view[s] = "none"

(* Owned records without a matching desired route: no route is desired     *)
(* while tailscale is offline.                                             *)
Stale(view) ==
  {s \in Services : s \in owned /\ (s \notin selected \/ view[s] \in {"other", "unknown"})}

(* reconciliation.state is "ready": view is what planRoutes saw, again     *)
(* what planRemovals saw after it.                                         *)
Removable(view, again) == Stale(view) # {} /\ again # Offline

RouteToken == [for |-> "routes", all |-> selected, view |-> Blank]

RemovalToken(view, again) ==
  [for |-> "removals", all |-> Stale(view),
   view |-> [s \in Services |-> IF s \in Stale(view) THEN again[s] ELSE "none"]]

(* The attempt is over, with result r. *)
Report(a, r) ==
  /\ at' = [at EXCEPT ![a] = "idle"]
  /\ token' = [token EXCEPT ![a] = NoToken]
  /\ todo' = [todo EXCEPT ![a] = {}]
  /\ done' = [done EXCEPT ![a] = {}]
  /\ failed' = [failed EXCEPT ![a] = {}]
  /\ result' = [result EXCEPT ![a] = r]

(* The attempt goes on to a stage, with these services to handle. *)
Begin(a, stage, services) ==
  /\ at' = [at EXCEPT ![a] = stage]
  /\ todo' = [todo EXCEPT ![a] = services]
  /\ UNCHANGED <<token, done, failed, result>>

(* The user previews the plan and confirms it with its token; reload takes *)
(* the route token of the plan that it has just applied.                   *)
Confirm(a, t) ==
  /\ at[a] = "idle"
  /\ at' = [at EXCEPT ![a] = "confirm"]
  /\ token' = [token EXCEPT ![a] = t]
  /\ result' = [result EXCEPT ![a] = "none"]
  /\ hand' = [s \in Services |-> IF hand[s] = a THEN Earlier ELSE hand[s]]
  /\ UNCHANGED <<live, owned, settings, todo, done, pick, failed, calm>>

PreviewRoutes(a) == \E view \in Views : Ready(selected, view) /\ Confirm(a, RouteToken)

PreviewRemovals(a) ==
  \E view, again \in Views : Removable(view, again) /\ Confirm(a, RemovalToken(view, again))

(* ExtensionPlanner.apply: write the declaration, its selection and the    *)
(* preference.  Once calm, only a pending declaration is completed.        *)
ApplyWorkspace ==
  /\ declared' = TRUE
  /\ \/ ~calm /\ selected' \in SUBSET Services
     \/ ~declared /\ UNCHANGED selected
  /\ UNCHANGED <<world, owned, job, result, calm>>

-----------------------------------------------------------------------------
(* External commands.  What the caller sees, and whether it took effect.   *)
Outcomes == IF calm THEN {"ok"} ELSE {"ok", "fail"} \cup ({"late"} \cap Faults)

(* tailscale serve --https=PORT TARGET: puts our target there, whatever    *)
(* was there before.                                                       *)
Serve(a, s, outcome) ==
  IF outcome = "fail" \/ live[s] = "ours" THEN UNCHANGED world
  ELSE live' = [live EXCEPT ![s] = "ours"] /\ hand' = [hand EXCEPT ![s] = a]

(* tailscale serve --https=PORT off: whatever is there goes. *)
Off(a, s, outcome) ==
  IF outcome = "fail" \/ live[s] = "none" THEN UNCHANGED world
  ELSE live' = [live EXCEPT ![s] = "none"] /\ hand' = [hand EXCEPT ![s] = a]

(* Go on to the next service, or to the next stage after the last one. *)
Handled(a, s, next) ==
  /\ todo' = [todo EXCEPT ![a] = @ \ {s}]
  /\ done' = [done EXCEPT ![a] = @ \cup {s}]
  /\ at' = [at EXCEPT ![a] = IF todo[a] = {s} THEN next ELSE @]

(* A mutant: the catch block only reports. *)
GiveUpAtOnce(a, stage) ==
  /\ at' = [at EXCEPT ![a] = stage]
  /\ todo' = [todo EXCEPT ![a] = {}]
  /\ UNCHANGED done

(* The catch block: undo what succeeded. *)
GiveUp(a, stage) ==
  /\ at' = [at EXCEPT ![a] = stage]
  /\ todo' = [todo EXCEPT ![a] = done[a]]
  /\ UNCHANGED done

-----------------------------------------------------------------------------
(* A mutant: the token is not compared. *)
ApplyUnconfirmed(a) ==
  /\ at[a] = "confirm" /\ token[a].for = "routes"
  /\ \E view, again \in Views :
       \/ /\ declared /\ ~Removable(view, again) /\ Ready(selected, view)
          /\ Begin(a, "publish", {s \in selected : view[s] = "none"})
       \/ Report(a, "none")
  /\ UNCHANGED <<world, owned, settings, pick, calm>>

(* applyRoutes plans again; a pending declaration, a pending               *)
(* reconciliation, an unready plan and another token are refused.          *)
ApplyRoutes(a) ==
  /\ at[a] = "confirm" /\ token[a].for = "routes"
  /\ \E view, again \in Views :
       LET allowed == declared /\ ~Removable(view, again) IN
       \/ /\ allowed /\ Ready(selected, view) /\ token[a] = RouteToken
          /\ Begin(a, "publish", {s \in selected : view[s] = "none"})
       \/ allowed /\ InSync(selected, view) /\ Report(a, "none")
       \/ /\ ~allowed \/ ~InSync(selected, view)
          /\ ~allowed \/ ~Ready(selected, view) \/ token[a] # RouteToken
          /\ Report(a, "none")
  /\ UNCHANGED <<world, owned, settings, pick, calm>>

Publish(a) ==
  /\ at[a] = "publish"
  /\ \E s \in todo[a], outcome \in Outcomes :
       /\ Serve(a, s, outcome)
       /\ IF outcome = "ok" THEN Handled(a, s, "verify") ELSE GiveUp(a, "rollback")
  /\ UNCHANGED <<owned, settings, token, pick, failed, result, calm>>

(* The plan must now be in sync, for what is selected now. *)
Verify(a) ==
  /\ at[a] = "verify"
  /\ \E view \in Views :
       IF InSync(selected, view)
       THEN at' = [at EXCEPT ![a] = "record"] /\ UNCHANGED <<todo, done>>
       ELSE GiveUp(a, "rollback")
  /\ UNCHANGED <<world, owned, settings, token, pick, failed, result, calm>>

(* upsertPrivateEdgeRoutes *)
Record(a) ==
  /\ at[a] = "record"
  /\ owned' = owned \cup done[a]
  /\ Report(a, "none")
  /\ UNCHANGED <<world, settings, pick, calm>>

(* What the re-check of one listener may see.  Rollback and restore pass   *)
(* the listener's port to planRoutes as the start of generated ports, and  *)
(* configuredHttpsPortStart accepts 1024..65500 only; for any other port   *)
(* (443) they look at the port generated for the service instead, whatever *)
(* that one's state is.                                                    *)
Inspected(s, view) ==
  IF s \in Inspectable \/ view = Offline THEN {view[s]} ELSE Listener

(* A mutant: a listener that cannot be checked counts as gone. *)
RollbackTrusting(a) ==
  /\ at[a] = "rollback"
  /\ \E s \in todo[a], view \in Views : \E seen \in Inspected(s, view) :
       /\ todo' = [todo EXCEPT ![a] = @ \ {s}]
       /\ \/ seen # "ours" /\ UNCHANGED <<at, pick, failed>>
          \/ /\ seen = "ours"
             /\ at' = [at EXCEPT ![a] = "undo"]
             /\ pick' = [pick EXCEPT ![a] = s]
             /\ UNCHANGED failed
  /\ UNCHANGED <<world, owned, settings, token, done, result, calm>>

(* Re-check the listener: already gone (state "ready"), changed or unknown, *)
(* or still ours ("in-sync").                                              *)
Rollback(a) ==
  /\ at[a] = "rollback"
  /\ \E s \in todo[a], view \in Views : \E seen \in Inspected(s, view) :
       /\ todo' = [todo EXCEPT ![a] = @ \ {s}]
       /\ \/ seen = "none" /\ UNCHANGED <<at, pick, failed>>
          \/ /\ seen \in {"other", "unknown"}
             /\ failed' = [failed EXCEPT ![a] = @ \cup {s}]
             /\ UNCHANGED <<at, pick>>
          \/ /\ seen = "ours"
             /\ at' = [at EXCEPT ![a] = "undo"]
             /\ pick' = [pick EXCEPT ![a] = s]
             /\ UNCHANGED failed
  /\ UNCHANGED <<world, owned, settings, token, done, result, calm>>

(* A mutant: the attempt forgets that the listener was handled. *)
UndoStuck(a) ==
  /\ at[a] = "undo"
  /\ Off(a, pick[a], "ok")
  /\ at' = [at EXCEPT ![a] = "rollback"]
  /\ UNCHANGED <<owned, settings, token, todo, done, pick, failed, result, calm>>

Undo(a) ==
  /\ at[a] = "undo"
  /\ \E outcome \in Outcomes :
       /\ Off(a, pick[a], outcome)
       /\ failed' = [failed EXCEPT ![a] = IF outcome = "ok" THEN @ ELSE @ \cup {pick[a]}]
  /\ at' = [at EXCEPT ![a] = "rollback"]
  /\ pick' = [pick EXCEPT ![a] = Nobody]
  /\ UNCHANGED <<owned, settings, token, todo, done, result, calm>>

(* A mutant: a failed rollback leaves no ownership record. *)
RolledBackForgetful(a) ==
  /\ at[a] = "rollback" /\ todo[a] = {}
  /\ Report(a, IF failed[a] = {} THEN "rolled back" ELSE "none")
  /\ UNCHANGED <<world, owned, settings, pick, calm>>

(* What could not be undone is recorded, so that it can be reconciled. *)
RolledBack(a) ==
  /\ at[a] = "rollback" /\ todo[a] = {}
  /\ owned' = owned \cup failed[a]
  /\ Report(a, IF failed[a] = {} THEN "rolled back" ELSE "none")
  /\ UNCHANGED <<world, settings, pick, calm>>

-----------------------------------------------------------------------------
(* reconcileRoutes plans again, like applyRoutes. *)
ReconcileRoutes(a) ==
  /\ at[a] = "confirm" /\ token[a].for = "removals"
  /\ \E view, again \in Views :
       \/ /\ declared /\ Removable(view, again) /\ token[a] = RemovalToken(view, again)
          /\ LET removals == {s \in Stale(view) : again[s] = "ours"}
             IN  Begin(a, IF removals = {} THEN "check" ELSE "remove", removals)
       \/ declared /\ Stale(view) = {} /\ Report(a, "none")
       \/ /\ ~declared \/ Stale(view) # {}
          /\ ~declared \/ ~Removable(view, again) \/ token[a] # RemovalToken(view, again)
          /\ Report(a, "none")
  /\ UNCHANGED <<world, owned, settings, pick, calm>>

(* One off command after the other, without another look at the listener. *)
Remove(a) ==
  /\ at[a] = "remove"
  /\ \E s \in todo[a], outcome \in Outcomes :
       /\ Off(a, s, outcome)
       /\ IF outcome = "ok" THEN Handled(a, s, "check") ELSE GiveUp(a, "restore")
  /\ UNCHANGED <<owned, settings, token, pick, failed, result, calm>>

(* No stale listener may still be active; with nothing to see, none is. *)
Check(a) ==
  /\ at[a] = "check"
  /\ \E view, again \in Views :
       IF \E s \in Stale(view) : again[s] = "ours"
       THEN GiveUp(a, "restore")
       ELSE at' = [at EXCEPT ![a] = "forget"] /\ UNCHANGED <<todo, done>>
  /\ UNCHANGED <<world, owned, settings, token, pick, failed, result, calm>>

(* A mutant: only the removed routes are forgotten. *)
ForgetRemoved(a) ==
  /\ at[a] = "forget"
  /\ owned' = owned \ done[a]
  /\ Report(a, "none")
  /\ UNCHANGED <<world, settings, pick, calm>>

(* removePrivateEdgeRoutes, of removed and forgotten routes alike. *)
Forget(a) ==
  /\ at[a] = "forget"
  /\ owned' = owned \ token[a].all
  /\ Report(a, "none")
  /\ UNCHANGED <<world, settings, pick, calm>>

(* Re-check the listener: back already, changed or unknown, or still gone. *)
Restore(a) ==
  /\ at[a] = "restore"
  /\ \E s \in todo[a], view \in Views : \E seen \in Inspected(s, view) :
       /\ todo' = [todo EXCEPT ![a] = @ \ {s}]
       /\ \/ seen = "ours" /\ UNCHANGED <<at, pick, failed>>
          \/ /\ seen \in {"other", "unknown"}
             /\ failed' = [failed EXCEPT ![a] = @ \cup {s}]
             /\ UNCHANGED <<at, pick>>
          \/ /\ seen = "none"
             /\ at' = [at EXCEPT ![a] = "redo"]
             /\ pick' = [pick EXCEPT ![a] = s]
             /\ UNCHANGED failed
  /\ UNCHANGED <<world, owned, settings, token, done, result, calm>>

Redo(a) ==
  /\ at[a] = "redo"
  /\ \E outcome \in Outcomes :
       /\ Serve(a, pick[a], outcome)
       /\ failed' = [failed EXCEPT ![a] = IF outcome = "ok" THEN @ ELSE @ \cup {pick[a]}]
  /\ at' = [at EXCEPT ![a] = "restore"]
  /\ pick' = [pick EXCEPT ![a] = Nobody]
  /\ UNCHANGED <<owned, settings, token, todo, done, result, calm>>

Restored(a) ==
  /\ at[a] = "restore" /\ todo[a] = {}
  /\ Report(a, IF failed[a] = {} THEN "restored" ELSE "none")
  /\ UNCHANGED <<world, owned, settings, pick, calm>>

-----------------------------------------------------------------------------
(* The process ends; the workspace state and the listeners stay. *)
Crash(a) ==
  /\ "crash" \in Faults /\ ~calm
  /\ at[a] # "idle"
  /\ Report(a, "none")
  /\ pick' = [pick EXCEPT ![a] = Nobody]
  /\ UNCHANGED <<world, owned, settings, calm>>

(* External: someone uses the tailscale CLI. *)
ListenerChanges ==
  /\ "external" \in Faults /\ ~calm
  /\ \E s \in Services, l \in Listener :
       /\ l # live[s]
       /\ live' = [live EXCEPT ![s] = l]
       /\ hand' = [hand EXCEPT ![s] = Nobody]
  /\ UNCHANGED <<owned, settings, job, result, calm>>

(* External: the user edits locallink.extensions.yml or .env. *)
ConfigEdited ==
  /\ ~calm
  /\ selected' \in SUBSET Services
  /\ declared' \in BOOLEAN
  /\ UNCHANGED <<world, owned, job, result, calm>>

CalmDown == calm' = TRUE /\ UNCHANGED <<world, owned, settings, job, result>>

Step(a) ==
  \/ ApplyRoutes(a) \/ Publish(a) \/ Verify(a) \/ Record(a)
  \/ Rollback(a) \/ Undo(a) \/ RolledBack(a)
  \/ ReconcileRoutes(a) \/ Remove(a) \/ Check(a) \/ Forget(a)
  \/ Restore(a) \/ Redo(a) \/ Restored(a)

Next ==
  \/ \E a \in Attempts : PreviewRoutes(a) \/ PreviewRemovals(a) \/ Step(a) \/ Crash(a)
  \/ ApplyWorkspace \/ ListenerChanges \/ ConfigEdited \/ CalmDown

Spec == Init /\ [][Next]_vars

(* Commands have timeouts and continuations run: an attempt goes on to its *)
(* end.  The user completes the declaration and keeps following the plan.  *)
Fairness ==
  /\ WF_vars(ApplyWorkspace)
  /\ \A a \in Attempts : /\ WF_vars(Step(a))
                         /\ SF_vars(PreviewRoutes(a))
                         /\ SF_vars(PreviewRemovals(a))

FairSpec == Spec /\ Fairness

-----------------------------------------------------------------------------
(* Only the listeners of the plan that was confirmed change: neither the   *)
(* configuration nor the listeners may have moved since the preview.       *)
OnlyConfirmedListeners ==
  [][\A s \in Services : live'[s] # live[s] /\ hand'[s] \in Attempts
                           => s \in token[hand'[s]].all]_vars

(* "every route created by this attempt was rolled back" and "every route  *)
(* removed by this attempt was restored" are true, when they are reported, *)
(* of every listener that the re-checks can look at.                       *)
FailureReport ==
  \A a \in Attempts, s \in Inspectable :
    hand[s] = a => /\ result[a] = "rolled back" => live[s] = "none"
                   /\ result[a] = "restored" => live[s] = "ours"

(* The strengthening of FailureReport: what an attempt has changed is among *)
(* what succeeded, and while it undoes that, undone, to do or failed.      *)
Undone(a, s, state) ==
  live[s] = state \/ s \in todo[a] \/ s \in failed[a] \/ s = pick[a]

HandInv ==
  \A a \in Attempts, s \in Inspectable :
    hand[s] = a =>
      /\ at[a] # "confirm"
      /\ live[s] # "other"
      /\ at[a] \in {"publish", "verify", "record", "remove", "check", "forget"} => s \in done[a]
      /\ at[a] \in {"rollback", "undo"} => Undone(a, s, "none")
      /\ at[a] \in {"restore", "redo"} => Undone(a, s, "ours")

OnlyIdleReport == \A a \in Attempts : result[a] # "none" => at[a] = "idle"

ReportInv == FailureReport /\ HandInv /\ OnlyIdleReport

(* A listener that LocalLink published and nobody changed since is in the  *)
(* ownership records, or an attempt in flight still has it in hand: it can *)
(* always be reconciled, if a rollback can look at it.                     *)
AllAccounted ==
  \A s \in Inspectable :
    live[s] = "ours" /\ hand[s] # Nobody =>
      \/ s \in owned
      \/ \E a \in Attempts : at[a] # "idle" /\ s \in done[a]

(* Reconciliation never deletes a listener that now targets something else. *)
NeverDeletesChanged ==
  [][\A s \in Services, a \in Attempts :
       live[s] = "other" /\ live'[s] = "none" /\ hand'[s] = a => at[a] # "remove"]_vars

(* Once nothing goes wrong any more, following the plan ends with every    *)
(* selected route live, unless a conflict is left to the user, and with no *)
(* stale record.                                                           *)
Settled ==
  /\ Stale(live) = {}
  /\ selected = {} \/ InSync(selected, live) \/ Conflict(selected, live)

Converges == calm ~> []Settled
=============================================================================
