---------------------- MODULE PrivateEdgeRoutesProofs ----------------------
(***************************************************************************)
(* Proofs about PrivateEdgeRoutes for any number of services, whoever else *)
(* changes listeners and tailscale going offline: the types, the claims of *)
(* error messages and which listeners an attempt changes, for any number   *)
(* of attempts in flight and crashes at any step; and, with one attempt at *)
(* a time and no crash, that what is published is on record.               *)
(***************************************************************************)
EXTENDS PrivateEdgeRoutes, TLAPS

USE RoutesAssumption

(* What the commands report is what they did, and a probe that fails says  *)
(* so: no "late" and no "probe" faults.                                    *)
Truthful == Faults \subseteq {"offline", "external", "crash"}

-----------------------------------------------------------------------------
(* The operators of the module have the types they should have.            *)

LEMMA TokenTypes ==
  ASSUME TypeOK, NEW view \in Views, NEW again \in Views
  PROVE  /\ Stale(view) \in SUBSET Services
         /\ RouteToken \in Token
         /\ again # Offline => RemovalToken(view, again) \in Token
         /\ NoToken \in Token
<1>1. again \in [Services -> Listener] \/ again = Offline
  BY DEF Views, TypeOK, Blank, Listener
<1>2. Stale(view) \in SUBSET Services
  BY DEF Stale
<1>3. again # Offline => RemovalToken(view, again) \in Token
  <2> SUFFICES ASSUME again \in [Services -> Listener] PROVE RemovalToken(view, again) \in Token
    BY <1>1
  <2>1. [s \in Services |-> IF s \in Stale(view) THEN again[s] ELSE "none"]
           \in [Services -> Listener]
    BY DEF Listener
  <2> QED
    BY <1>2, <2>1 DEF RemovalToken, Token
<1>4. Blank \in [Services -> Listener]
  BY DEF Blank, Listener
<1> QED
  BY <1>2, <1>3, <1>4 DEF RouteToken, NoToken, Token, TypeOK

(* A step of the commands keeps the listeners typed. *)
LEMMA CommandTypes ==
  ASSUME TypeOK, NEW a \in Attempts, NEW s \in Services, NEW outcome,
         Serve(a, s, outcome) \/ Off(a, s, outcome)
  PROVE  /\ live' \in [Services -> Listener]
         /\ hand' \in [Services -> Attempts \cup {Nobody, Earlier}]
BY DEF TypeOK, Serve, Off, world, Listener

(* Every variable keeps its type, and an attempt has a listener in hand    *)
(* exactly between its check of it and its command for it.                 *)
LEMMA TypeStep == TypeOK /\ [Next]_vars => TypeOK'
<1> SUFFICES ASSUME TypeOK, [Next]_vars PROVE TypeOK'
  OBVIOUS
<1>1. ASSUME NEW a \in Attempts, PreviewRoutes(a) PROVE TypeOK'
  <2>1. Confirm(a, RouteToken)
    BY <1>1 DEF PreviewRoutes
  <2>2. RouteToken \in Token
    BY TokenTypes, <1>1 DEF PreviewRoutes
  <2> QED
    BY <2>1, <2>2 DEF Confirm, TypeOK, settings, Results
<1>2. ASSUME NEW a \in Attempts, PreviewRemovals(a) PROVE TypeOK'
  <2>1. PICK view \in Views, again \in Views :
          Removable(view, again) /\ Confirm(a, RemovalToken(view, again))
    BY <1>2 DEF PreviewRemovals
  <2>2. RemovalToken(view, again) \in Token
    BY <2>1, TokenTypes DEF Removable
  <2> QED
    BY <2>1, <2>2 DEF Confirm, TypeOK, settings, Results
<1>3. ASSUME NEW a \in Attempts, NEW r \in Results, Report(a, r), at[a] \notin {"undo", "redo"},
             UNCHANGED <<world, settings, pick, calm>>, owned' \in SUBSET Services
      PROVE  TypeOK'
  <2>1. NoToken \in Token
    BY DEF NoToken, Token, Blank, Listener
  <2> QED
    BY <1>3, <2>1 DEF Report, TypeOK, world, settings
<1>4. ASSUME NEW a \in Attempts, ApplyRoutes(a) PROVE TypeOK'
  <2>1. CASE Report(a, "none")
    BY <1>3, <1>4, <2>1 DEF ApplyRoutes, Results, TypeOK
  <2>2. CASE \E view \in Views : Begin(a, "publish", {s \in selected : view[s] = "none"})
    BY <1>4, <2>2 DEF ApplyRoutes, Begin, TypeOK, world, settings
  <2> QED
    BY <1>4, <2>1, <2>2 DEF ApplyRoutes
<1>5. ASSUME NEW a \in Attempts, Publish(a) PROVE TypeOK'
  <2>1. PICK s \in todo[a], outcome \in Outcomes : Serve(a, s, outcome)
          /\ IF outcome = "ok" THEN Handled(a, s, "verify") ELSE GiveUp(a, "rollback")
    BY <1>5 DEF Publish
  <2>2. s \in Services
    BY DEF TypeOK
  <2>3. live' \in [Services -> Listener] /\ hand' \in [Services -> Attempts \cup {Nobody, Earlier}]
    BY <2>1, <2>2, CommandTypes
  <2>4. CASE outcome = "ok"
    BY <1>5, <2>1, <2>2, <2>3, <2>4 DEF Publish, Handled, TypeOK, settings
  <2>5. CASE outcome # "ok"
    BY <1>5, <2>1, <2>3, <2>5 DEF Publish, GiveUp, TypeOK, settings
  <2> QED
    BY <2>4, <2>5
<1>6. ASSUME NEW a \in Attempts, Verify(a) PROVE TypeOK'
  BY <1>6 DEF Verify, GiveUp, TypeOK, world, settings
<1>7. ASSUME NEW a \in Attempts, Record(a) PROVE TypeOK'
  BY <1>3, <1>7 DEF Record, Results, TypeOK
<1>8. ASSUME NEW a \in Attempts, Rollback(a) PROVE TypeOK'
  BY <1>8 DEF Rollback, TypeOK, world, settings
<1>9. ASSUME NEW a \in Attempts, Undo(a) PROVE TypeOK'
  <2>1. PICK outcome \in Outcomes : Off(a, pick[a], outcome)
          /\ failed' = [failed EXCEPT ![a] = IF outcome = "ok" THEN @ ELSE @ \cup {pick[a]}]
    BY <1>9 DEF Undo
  <2>2. pick[a] \in Services
    BY <1>9 DEF Undo, TypeOK
  <2> QED
    BY <1>9, <2>1, <2>2, CommandTypes DEF Undo, TypeOK, settings
<1>10. ASSUME NEW a \in Attempts, RolledBack(a) PROVE TypeOK'
  BY <1>3, <1>10 DEF RolledBack, Results, TypeOK
<1>11. ASSUME NEW a \in Attempts, ReconcileRoutes(a) PROVE TypeOK'
  <2>1. CASE Report(a, "none")
    BY <1>3, <1>11, <2>1 DEF ReconcileRoutes, Results, TypeOK
  <2>2. CASE \E removals \in SUBSET Services :
               Begin(a, IF removals = {} THEN "check" ELSE "remove", removals)
    BY <1>11, <2>2 DEF ReconcileRoutes, Begin, TypeOK, world, settings
  <2> QED
    BY <1>11, <2>1, <2>2 DEF ReconcileRoutes, Stale
<1>12. ASSUME NEW a \in Attempts, Remove(a) PROVE TypeOK'
  <2>1. PICK s \in todo[a], outcome \in Outcomes : Off(a, s, outcome)
          /\ IF outcome = "ok" THEN Handled(a, s, "check") ELSE GiveUp(a, "restore")
    BY <1>12 DEF Remove
  <2>2. s \in Services
    BY DEF TypeOK
  <2>3. live' \in [Services -> Listener] /\ hand' \in [Services -> Attempts \cup {Nobody, Earlier}]
    BY <2>1, <2>2, CommandTypes
  <2>4. CASE outcome = "ok"
    BY <1>12, <2>1, <2>2, <2>3, <2>4 DEF Remove, Handled, TypeOK, settings
  <2>5. CASE outcome # "ok"
    BY <1>12, <2>1, <2>3, <2>5 DEF Remove, GiveUp, TypeOK, settings
  <2> QED
    BY <2>4, <2>5
<1>13. ASSUME NEW a \in Attempts, Check(a) PROVE TypeOK'
  BY <1>13 DEF Check, GiveUp, TypeOK, world, settings
<1>14. ASSUME NEW a \in Attempts, Forget(a) PROVE TypeOK'
  BY <1>3, <1>14 DEF Forget, Results, TypeOK
<1>15. ASSUME NEW a \in Attempts, Restore(a) PROVE TypeOK'
  BY <1>15 DEF Restore, TypeOK, world, settings
<1>16. ASSUME NEW a \in Attempts, Redo(a) PROVE TypeOK'
  <2>1. PICK outcome \in Outcomes : Serve(a, pick[a], outcome)
          /\ failed' = [failed EXCEPT ![a] = IF outcome = "ok" THEN @ ELSE @ \cup {pick[a]}]
    BY <1>16 DEF Redo
  <2>2. pick[a] \in Services
    BY <1>16 DEF Redo, TypeOK
  <2> QED
    BY <1>16, <2>1, <2>2, CommandTypes DEF Redo, TypeOK, settings
<1>17. ASSUME NEW a \in Attempts, Restored(a) PROVE TypeOK'
  BY <1>3, <1>17 DEF Restored, Results, TypeOK
<1>18. ASSUME NEW a \in Attempts, Crash(a) PROVE TypeOK'
  <2>1. NoToken \in Token
    BY DEF NoToken, Token, Blank, Listener
  <2> QED
    BY <1>18, <2>1 DEF Crash, Report, TypeOK, world, settings, Results
<1>19. CASE ApplyWorkspace
  BY <1>19 DEF ApplyWorkspace, TypeOK, world, job
<1>20. CASE ListenerChanges
  BY <1>20 DEF ListenerChanges, TypeOK, settings, job
<1>21. CASE ConfigEdited
  BY <1>21 DEF ConfigEdited, TypeOK, world, job
<1>22. CASE CalmDown
  BY <1>22 DEF CalmDown, TypeOK, world, settings, job
<1>23. CASE UNCHANGED vars
  BY <1>23 DEF vars, TypeOK
<1> QED
  BY <1>1, <1>2, <1>4, <1>5, <1>6, <1>7, <1>8, <1>9, <1>10, <1>11, <1>12, <1>13, <1>14,
     <1>15, <1>16, <1>17, <1>18, <1>19, <1>20, <1>21, <1>22, <1>23 DEF Next, Step

(* Type correctness under every fault. *)
THEOREM TypeCorrect == Spec => []TypeOK
<1>1. Init => TypeOK
  <2> SUFFICES ASSUME Init PROVE TypeOK
    OBVIOUS
  <2>1. token \in [Attempts -> Token]
    BY DEF Init, NoToken, Token, Blank, Listener
  <2>2. /\ live \in [Services -> Listener]
        /\ hand \in [Services -> Attempts \cup {Nobody, Earlier}]
        /\ owned \in SUBSET Services
        /\ selected \in SUBSET Services
    BY DEF Init
  <2>3. declared \in BOOLEAN /\ calm \in BOOLEAN
    BY DEF Init
  <2>4. at \in [Attempts -> {"idle", "confirm", "publish", "verify", "record", "rollback",
                              "undo", "remove", "check", "forget", "restore", "redo"}]
    BY DEF Init
  <2>5. /\ todo \in [Attempts -> SUBSET Services]
        /\ done \in [Attempts -> SUBSET Services]
        /\ failed \in [Attempts -> SUBSET Services]
    BY DEF Init
  <2>6. pick \in [Attempts -> Services \cup {Nobody}]
    BY DEF Init
  <2>7. result \in [Attempts -> Results]
    BY DEF Init, Results
  <2>8. \A a \in Attempts : at[a] \in {"undo", "redo"} <=> pick[a] # Nobody
    BY DEF Init
  <2> QED
    BY <2>1, <2>2, <2>3, <2>4, <2>5, <2>6, <2>7, <2>8 DEF TypeOK
<1> QED
  BY <1>1, TypeStep, PTL DEF Spec
-----------------------------------------------------------------------------
(* The claims an attempt makes when it fails                               *)

(* What the re-check of an inspectable listener says, if probes are        *)
(* truthful.                                                               *)
LEMMA TruthfulProbe ==
  ASSUME Truthful, TypeOK, NEW view \in Views, NEW s \in Inspectable,
         NEW seen \in Inspected(s, view)
  PROVE  seen \in {"none", "ours"} => live[s] = seen
<1>1. view = live \/ view = Offline
  BY DEF Truthful, Views
<1>2. s \in Services /\ Offline[s] = "unknown"
  BY DEF Offline
<1> QED
  BY <1>1, <1>2 DEF Inspected

(* A command that fails does nothing; one that does not, does its job.     *)
LEMMA TruthfulCommand ==
  ASSUME Truthful, TypeOK, NEW a \in Attempts, NEW s \in Services, NEW outcome \in Outcomes
  PROVE  /\ outcome # "ok" /\ (Serve(a, s, outcome) \/ Off(a, s, outcome)) => UNCHANGED world
         /\ outcome = "ok" /\ Serve(a, s, outcome) => live'[s] = "ours"
         /\ outcome = "ok" /\ Off(a, s, outcome) => live'[s] = "none"
<1>1. outcome # "ok" => outcome = "fail"
  BY DEF Truthful, Outcomes
<1> QED
  BY <1>1 DEF Serve, Off, TypeOK, world

(* A command of attempt a for s leaves every other listener alone, and a   *)
(* listener that it changes is in the hand of a from then on.              *)
LEMMA CommandFrame ==
  ASSUME TypeOK, NEW a \in Attempts, NEW s \in Services, NEW outcome,
         Serve(a, s, outcome) \/ Off(a, s, outcome),
         NEW b \in Attempts, NEW t \in Services, hand'[t] = b
  PROVE  \/ hand[t] = b /\ live'[t] = live[t]
         \/ b = a /\ t = s /\ live'[t] # "other"
BY DEF Serve, Off, TypeOK, world

(* Every step preserves the strengthened invariant.  A listener that       *)
(* somebody else changes is no longer in the hand of the attempt.          *)
LEMMA ReportStep ==
  ASSUME Truthful, TypeOK, TypeOK', ReportInv, [Next]_vars
  PROVE  ReportInv'
<1> DEFINE Good(b, t) ==
      /\ result[b] # "none" => at[b] = "idle"
      /\ t \in Inspectable /\ hand[t] = b =>
           /\ result[b] = "rolled back" => live[t] = "none"
           /\ result[b] = "restored" => live[t] = "ours"
           /\ at[b] # "confirm"
           /\ live[t] # "other"
           /\ at[b] \in {"publish", "verify", "record", "remove", "check", "forget"} => t \in done[b]
           /\ at[b] \in {"rollback", "undo"} => Undone(b, t, "none")
           /\ at[b] \in {"restore", "redo"} => Undone(b, t, "ours")
<1>a. \A b \in Attempts, t \in Services : Good(b, t)
  BY DEF ReportInv, FailureReport, HandInv, OnlyIdleReport
<1> SUFFICES ASSUME NEW b \in Attempts, NEW t \in Services PROVE Good(b, t)'
  BY ZenonT(60) DEF ReportInv, FailureReport, HandInv, OnlyIdleReport
<1>b. Good(b, t)
  BY <1>a
<1>f. ASSUME at'[b] = at[b], todo'[b] = todo[b], done'[b] = done[b], pick'[b] = pick[b],
             failed'[b] = failed[b], result'[b] = result[b],
             hand'[t] = b => hand[t] = b /\ live'[t] = live[t]
      PROVE  Good(b, t)'
  BY <1>b, <1>f DEF Undone
<1>0. ASSUME UNCHANGED <<hand, live, at, todo, done, pick, failed, result>> PROVE Good(b, t)'
  BY <1>0, <1>f
<1>1. ASSUME NEW a \in Attempts, NEW k, Confirm(a, k) PROVE Good(b, t)'
  <2>1. hand'[t] = b => b # a /\ hand[t] = b
    BY <1>1 DEF Confirm, TypeOK
  <2> QED
    BY ZenonT(60), <1>1, <1>b, <2>1 DEF Confirm, Undone, TypeOK
<1>2. ASSUME NEW a \in Attempts, Report(a, "none"), UNCHANGED world, pick' = [pick EXCEPT ![a] = Nobody]
      PROVE  Good(b, t)'
  BY ZenonT(60), <1>2, <1>b DEF Report, Undone, TypeOK, world
<1>3. ASSUME NEW a \in Attempts, Report(a, "none"), UNCHANGED world, UNCHANGED pick
      PROVE  Good(b, t)'
  BY ZenonT(60), <1>3, <1>b DEF Report, Undone, TypeOK, world
<1>4. ASSUME NEW a \in Attempts, ApplyRoutes(a) PROVE Good(b, t)'
  <2>1. CASE Report(a, "none")
    BY <1>3, <1>4, <2>1 DEF ApplyRoutes
  <2>2. CASE \E services : Begin(a, "publish", services)
    BY ZenonT(60), <1>4, <1>b, <2>2 DEF ApplyRoutes, Begin, Undone, TypeOK, world
  <2> QED
    BY <1>4, <2>1, <2>2 DEF ApplyRoutes
<1>5. ASSUME NEW a \in Attempts, ReconcileRoutes(a) PROVE Good(b, t)'
  <2>1. CASE Report(a, "none")
    BY <1>3, <1>5, <2>1 DEF ReconcileRoutes
  <2>2. CASE \E removals : Begin(a, IF removals = {} THEN "check" ELSE "remove", removals)
    BY ZenonT(60), <1>5, <1>b, <2>2 DEF ReconcileRoutes, Begin, Undone, TypeOK, world
  <2> QED
    BY <1>5, <2>1, <2>2 DEF ReconcileRoutes
<1>6. ASSUME NEW a \in Attempts, GiveUp(a, "rollback") \/ GiveUp(a, "restore"),
             at[a] \in {"publish", "verify", "remove", "check"},
             UNCHANGED <<world, pick, failed, result>>
      PROVE  Good(b, t)'
  <2>1. CASE b # a
    BY <1>6, <1>f, <2>1 DEF GiveUp, TypeOK, world
  <2>2. CASE b = a
    <3>1. todo'[a] = done[a] /\ at'[a] \in {"rollback", "restore"}
      BY <1>6 DEF GiveUp, TypeOK
    <3> QED
      BY <1>6, <1>b, <2>2, <3>1 DEF Undone, world
  <2> QED
    BY <2>1, <2>2
<1>7. ASSUME NEW a \in Attempts, NEW s \in Services, NEW outcome \in Outcomes,
             Serve(a, s, outcome) \/ Off(a, s, outcome), outcome = "ok",
             Handled(a, s, "verify") \/ Handled(a, s, "check"),
             at[a] \in {"publish", "remove"}, UNCHANGED <<pick, failed, result>>
      PROVE  Good(b, t)'
  <2>1. hand'[t] = b => \/ hand[t] = b /\ live'[t] = live[t]
                        \/ b = a /\ t = s /\ live'[t] # "other"
    BY <1>7, CommandFrame
  <2>2. result[a] = "none"
    BY <1>7, <1>a
  <2>3. CASE b # a
    BY ZenonT(60), <1>7, <1>f, <2>1, <2>3 DEF Handled, TypeOK
  <2>4. CASE b = a
    <3>1. /\ done'[a] = done[a] \cup {s}
          /\ at'[a] \in {"publish", "remove", "verify", "check"}
          /\ result'[a] = "none"
      BY <1>7, <2>2 DEF Handled, TypeOK
    <3> QED
      BY <1>7, <1>b, <2>1, <2>4, <3>1
  <2> QED
    BY <2>3, <2>4
<1>8. ASSUME NEW a \in Attempts, Publish(a) PROVE Good(b, t)'
  <2>1. PICK s \in todo[a], outcome \in Outcomes : Serve(a, s, outcome)
          /\ IF outcome = "ok" THEN Handled(a, s, "verify") ELSE GiveUp(a, "rollback")
    BY <1>8 DEF Publish
  <2>2. s \in Services
    BY DEF TypeOK
  <2> QED
    BY <1>6, <1>7, <1>8, <2>1, <2>2, TruthfulCommand DEF Publish
<1>9. ASSUME NEW a \in Attempts, Remove(a) PROVE Good(b, t)'
  <2>1. PICK s \in todo[a], outcome \in Outcomes : Off(a, s, outcome)
          /\ IF outcome = "ok" THEN Handled(a, s, "check") ELSE GiveUp(a, "restore")
    BY <1>9 DEF Remove
  <2>2. s \in Services
    BY DEF TypeOK
  <2> QED
    BY <1>6, <1>7, <1>9, <2>1, <2>2, TruthfulCommand DEF Remove
<1>10. ASSUME NEW a \in Attempts, Verify(a) \/ Check(a) PROVE Good(b, t)'
  <2>1. CASE GiveUp(a, "rollback") \/ GiveUp(a, "restore")
    BY <1>6, <1>10, <2>1 DEF Verify, Check
  <2>2. CASE at' = [at EXCEPT ![a] = "record"] /\ UNCHANGED <<todo, done>>
    BY <1>10, <1>b, <2>2 DEF Verify, Check, Undone, TypeOK, world
  <2>3. CASE at' = [at EXCEPT ![a] = "forget"] /\ UNCHANGED <<todo, done>>
    BY <1>10, <1>b, <2>3 DEF Verify, Check, Undone, TypeOK, world
  <2> QED
    BY <1>10, <2>1, <2>2, <2>3 DEF Verify, Check
<1>11. ASSUME NEW a \in Attempts, Record(a) \/ Forget(a) PROVE Good(b, t)'
  BY <1>3, <1>11 DEF Record, Forget
<1>12. ASSUME NEW a \in Attempts, Rollback(a) PROVE Good(b, t)'
  <2>0. PICK s \in todo[a], view \in Views : \E seen \in Inspected(s, view) :
          /\ todo' = [todo EXCEPT ![a] = @ \ {s}]
          /\ \/ seen = "none" /\ UNCHANGED <<at, pick, failed>>
             \/ failed' = [failed EXCEPT ![a] = @ \cup {s}] /\ UNCHANGED <<at, pick>>
             \/ /\ at' = [at EXCEPT ![a] = "undo"]
                /\ pick' = [pick EXCEPT ![a] = s]
                /\ UNCHANGED failed
    BY <1>12 DEF Rollback
  <2>1. PICK seen \in Inspected(s, view) :
          /\ todo' = [todo EXCEPT ![a] = @ \ {s}]
          /\ \/ seen = "none" /\ UNCHANGED <<at, pick, failed>>
             \/ failed' = [failed EXCEPT ![a] = @ \cup {s}] /\ UNCHANGED <<at, pick>>
             \/ /\ at' = [at EXCEPT ![a] = "undo"]
                /\ pick' = [pick EXCEPT ![a] = s]
                /\ UNCHANGED failed
    BY <2>0
  <2>2. s \in Services /\ pick[a] = Nobody
    BY <1>12 DEF Rollback, TypeOK
  <2>3. s = t /\ t \in Inspectable /\ seen = "none" => live[s] = "none"
    BY TruthfulProbe
  <2>4. UNCHANGED <<live, hand, done, result>> /\ at[a] = "rollback"
    BY <1>12 DEF Rollback, world
  <2>5. CASE b # a
    BY ZenonT(60), <1>f, <2>1, <2>4, <2>5 DEF TypeOK
  <2>6. CASE b = a
    <3>1. /\ todo'[a] = todo[a] \ {s}
          /\ \/ at'[a] = "rollback" /\ failed'[a] = failed[a] /\ (s = t /\ t \in Inspectable => live[s] = "none")
             \/ at'[a] = "rollback" /\ s \in failed'[a] /\ failed[a] \subseteq failed'[a]
             \/ at'[a] = "undo" /\ pick'[a] = s /\ failed'[a] = failed[a]
      BY <2>1, <2>2, <2>3, <2>4 DEF TypeOK
    <3> QED
      BY <1>b, <2>2, <2>4, <2>6, <3>1 DEF Undone
  <2> QED
    BY <2>5, <2>6
<1>13. ASSUME NEW a \in Attempts, Restore(a) PROVE Good(b, t)'
  <2>0. PICK s \in todo[a], view \in Views : \E seen \in Inspected(s, view) :
          /\ todo' = [todo EXCEPT ![a] = @ \ {s}]
          /\ \/ seen = "ours" /\ UNCHANGED <<at, pick, failed>>
             \/ failed' = [failed EXCEPT ![a] = @ \cup {s}] /\ UNCHANGED <<at, pick>>
             \/ /\ at' = [at EXCEPT ![a] = "redo"]
                /\ pick' = [pick EXCEPT ![a] = s]
                /\ UNCHANGED failed
    BY <1>13 DEF Restore
  <2>1. PICK seen \in Inspected(s, view) :
          /\ todo' = [todo EXCEPT ![a] = @ \ {s}]
          /\ \/ seen = "ours" /\ UNCHANGED <<at, pick, failed>>
             \/ failed' = [failed EXCEPT ![a] = @ \cup {s}] /\ UNCHANGED <<at, pick>>
             \/ /\ at' = [at EXCEPT ![a] = "redo"]
                /\ pick' = [pick EXCEPT ![a] = s]
                /\ UNCHANGED failed
    BY <2>0
  <2>2. s \in Services /\ pick[a] = Nobody
    BY <1>13 DEF Restore, TypeOK
  <2>3. s = t /\ t \in Inspectable /\ seen = "ours" => live[s] = "ours"
    BY TruthfulProbe
  <2>4. UNCHANGED <<live, hand, done, result>> /\ at[a] = "restore"
    BY <1>13 DEF Restore, world
  <2>5. CASE b # a
    BY ZenonT(60), <1>f, <2>1, <2>4, <2>5 DEF TypeOK
  <2>6. CASE b = a
    <3>1. /\ todo'[a] = todo[a] \ {s}
          /\ \/ at'[a] = "restore" /\ failed'[a] = failed[a] /\ (s = t /\ t \in Inspectable => live[s] = "ours")
             \/ at'[a] = "restore" /\ s \in failed'[a] /\ failed[a] \subseteq failed'[a]
             \/ at'[a] = "redo" /\ pick'[a] = s /\ failed'[a] = failed[a]
      BY <2>1, <2>2, <2>3, <2>4 DEF TypeOK
    <3> QED
      BY <1>b, <2>2, <2>4, <2>6, <3>1 DEF Undone
  <2> QED
    BY <2>5, <2>6
<1>14. ASSUME NEW a \in Attempts, Undo(a) PROVE Good(b, t)'
  <2>1. PICK outcome \in Outcomes : Off(a, pick[a], outcome)
          /\ failed' = [failed EXCEPT ![a] = IF outcome = "ok" THEN @ ELSE @ \cup {pick[a]}]
    BY <1>14 DEF Undo
  <2>2. pick[a] \in Services
    BY <1>14 DEF Undo, TypeOK
  <2>3. outcome = "ok" => live'[pick[a]] = "none"
    BY <2>1, <2>2, TruthfulCommand
  <2>4. hand'[t] = b => \/ hand[t] = b /\ live'[t] = live[t]
                        \/ b = a /\ t = pick[a] /\ live'[t] # "other"
    BY <2>1, <2>2, CommandFrame
  <2>5. outcome # "ok" => UNCHANGED world
    BY <2>1, <2>2, TruthfulCommand
  <2>6. result[a] = "none"
    BY <1>14, <1>a DEF Undo
  <2>7. /\ at[a] = "undo" /\ at' = [at EXCEPT ![a] = "rollback"]
        /\ pick' = [pick EXCEPT ![a] = Nobody]
        /\ UNCHANGED <<todo, done, result>>
    BY <1>14 DEF Undo
  <2>8. CASE b # a
    BY <1>f, <2>1, <2>4, <2>7, <2>8 DEF TypeOK
  <2>9. CASE b = a
    <3>1. /\ at'[a] = "rollback" /\ todo'[a] = todo[a]
          /\ failed[a] \subseteq failed'[a]
          /\ outcome = "ok" \/ pick[a] \in failed'[a]
      BY <2>1, <2>7 DEF TypeOK
    <3> QED
      BY <1>b, <2>3, <2>4, <2>5, <2>6, <2>7, <2>9, <3>1 DEF Undone, world
  <2> QED
    BY <2>8, <2>9
<1>15. ASSUME NEW a \in Attempts, Redo(a) PROVE Good(b, t)'
  <2>1. PICK outcome \in Outcomes : Serve(a, pick[a], outcome)
          /\ failed' = [failed EXCEPT ![a] = IF outcome = "ok" THEN @ ELSE @ \cup {pick[a]}]
    BY <1>15 DEF Redo
  <2>2. pick[a] \in Services
    BY <1>15 DEF Redo, TypeOK
  <2>3. outcome = "ok" => live'[pick[a]] = "ours"
    BY <2>1, <2>2, TruthfulCommand
  <2>4. hand'[t] = b => \/ hand[t] = b /\ live'[t] = live[t]
                        \/ b = a /\ t = pick[a] /\ live'[t] # "other"
    BY <2>1, <2>2, CommandFrame
  <2>5. outcome # "ok" => UNCHANGED world
    BY <2>1, <2>2, TruthfulCommand
  <2>6. result[a] = "none"
    BY <1>15, <1>a DEF Redo
  <2>7. /\ at[a] = "redo" /\ at' = [at EXCEPT ![a] = "restore"]
        /\ pick' = [pick EXCEPT ![a] = Nobody]
        /\ UNCHANGED <<todo, done, result>>
    BY <1>15 DEF Redo
  <2>8. CASE b # a
    BY <1>f, <2>1, <2>4, <2>7, <2>8 DEF TypeOK
  <2>9. CASE b = a
    <3>1. /\ at'[a] = "restore" /\ todo'[a] = todo[a]
          /\ failed[a] \subseteq failed'[a]
          /\ outcome = "ok" \/ pick[a] \in failed'[a]
      BY <2>1, <2>7 DEF TypeOK
    <3> QED
      BY <1>b, <2>3, <2>4, <2>5, <2>6, <2>7, <2>9, <3>1 DEF Undone, world
  <2> QED
    BY <2>8, <2>9
<1>16. ASSUME NEW a \in Attempts, RolledBack(a) PROVE Good(b, t)'
  <2>1. pick[a] = Nobody /\ todo[a] = {}
    BY <1>16 DEF RolledBack, TypeOK
  <2>2. UNCHANGED <<live, hand, pick>> /\ at[a] = "rollback"
    BY <1>16 DEF RolledBack, world
  <2>3. PICK r \in {"none", "rolled back"} : Report(a, r) /\ (failed[a] = {} \/ r = "none")
    BY <1>16 DEF RolledBack
  <2>4. CASE b # a
    BY <1>f, <2>2, <2>3, <2>4 DEF Report, TypeOK
  <2>5. CASE b = a
    <3>1. at'[a] = "idle" /\ result'[a] = r
      BY ZenonT(60), <2>3 DEF Report, TypeOK
    <3>2. t \notin todo[a] /\ t # pick[a]
      BY <2>1
    <3> QED
      BY <1>b, <2>2, <2>3, <2>5, <3>1, <3>2 DEF Undone
  <2> QED
    BY <2>4, <2>5
<1>17. ASSUME NEW a \in Attempts, Restored(a) PROVE Good(b, t)'
  <2>1. pick[a] = Nobody /\ todo[a] = {}
    BY <1>17 DEF Restored, TypeOK
  <2>2. UNCHANGED <<live, hand, pick>> /\ at[a] = "restore"
    BY <1>17 DEF Restored, world
  <2>3. PICK r \in {"none", "restored"} : Report(a, r) /\ (failed[a] = {} \/ r = "none")
    BY <1>17 DEF Restored
  <2>4. CASE b # a
    BY <1>f, <2>2, <2>3, <2>4 DEF Report, TypeOK
  <2>5. CASE b = a
    <3>1. at'[a] = "idle" /\ result'[a] = r
      BY <2>3 DEF Report, TypeOK
    <3>2. t \notin todo[a] /\ t # pick[a]
      BY <2>1
    <3> QED
      BY <1>b, <2>2, <2>3, <2>5, <3>1, <3>2 DEF Undone
  <2> QED
    BY <2>4, <2>5
<1>18. ASSUME NEW a \in Attempts, Crash(a) PROVE Good(b, t)'
  BY <1>2, <1>18 DEF Crash
<1>19. CASE ListenerChanges
  <2>1. hand'[t] = b => hand[t] = b /\ live'[t] = live[t]
    BY <1>19 DEF ListenerChanges, TypeOK
  <2> QED
    BY <1>19, <1>b, <2>1 DEF ListenerChanges, Undone, job
<1>20. CASE ApplyWorkspace \/ ConfigEdited \/ CalmDown
  BY <1>0, <1>20 DEF ApplyWorkspace, ConfigEdited, CalmDown, world, job
<1>21. CASE UNCHANGED vars
  BY <1>0, <1>21 DEF vars
<1> QED
  BY <1>1, <1>4, <1>5, <1>8, <1>9, <1>10, <1>11, <1>12, <1>13, <1>14, <1>15, <1>16, <1>17,
     <1>18, <1>19, <1>20, <1>21 DEF Next, Step, PreviewRoutes, PreviewRemovals

(* "every route created by this attempt was rolled back" and "every route  *)
(* removed by this attempt was restored" are true when they are reported,  *)
(* for any number of services and attempts, as long as a command that      *)
(* fails has no effect and a failing probe is noticed.                     *)
THEOREM ReportsAreTrue == Truthful => (Spec => []FailureReport)
<1>1. Init => ReportInv
  BY DEF Init, ReportInv, FailureReport, HandInv, OnlyIdleReport
<1>2. Truthful /\ TypeOK /\ TypeOK' /\ ReportInv /\ [Next]_vars => ReportInv'
  BY ReportStep
<1>3. ReportInv => FailureReport
  BY DEF ReportInv
<1>4. CASE Truthful
  <2>1. TypeOK /\ TypeOK' /\ ReportInv /\ [Next]_vars => ReportInv'
    BY <1>2, <1>4
  <2> QED
    BY <1>1, <1>3, <2>1, TypeCorrect, PTL DEF Spec
<1> QED
  BY <1>4

-----------------------------------------------------------------------------
(* Which listeners an attempt changes                                      *)

(* What an attempt handles is in the plan it was confirmed for; before it  *)
(* begins it has nothing to handle.                                        *)
Planned(a) ==
  /\ at[a] \in {"idle", "confirm"} => todo[a] = {} /\ done[a] = {}
  /\ todo[a] \cup done[a] \subseteq token[a].all
  /\ pick[a] # Nobody => pick[a] \in token[a].all

PlannedInv == \A a \in Attempts : Planned(a)

LEMMA PlannedStep ==
  ASSUME TypeOK, PlannedInv, [Next]_vars
  PROVE  PlannedInv'
<1> SUFFICES ASSUME NEW b \in Attempts PROVE Planned(b)'
  BY DEF PlannedInv
<1>a. \A a \in Attempts : Planned(a)
  BY DEF PlannedInv
<1>b. /\ at[b] \in {"idle", "confirm"} => todo[b] = {} /\ done[b] = {}
      /\ todo[b] \cup done[b] \subseteq token[b].all
      /\ pick[b] # Nobody => pick[b] \in token[b].all
  BY <1>a DEF Planned
<1>f. ASSUME at'[b] = at[b], todo'[b] = todo[b], done'[b] = done[b], pick'[b] = pick[b], token'[b] = token[b]
      PROVE  Planned(b)'
  BY <1>b, <1>f DEF Planned
<1>0. ASSUME UNCHANGED job PROVE Planned(b)'
  BY <1>0, <1>f DEF job
<1>1. ASSUME NEW a \in Attempts, NEW k, Confirm(a, k) PROVE Planned(b)'
  <2>1. CASE b # a
    BY <1>1, <1>f, <2>1 DEF Confirm, TypeOK
  <2>2. CASE b = a
    <3>1. at[a] = "idle" /\ at'[a] = "confirm" /\ pick[a] = Nobody /\ UNCHANGED <<todo, done, pick>>
      BY <1>1 DEF Confirm, TypeOK
    <3> QED
      BY <1>b, <2>2, <3>1 DEF Planned
  <2> QED
    BY <2>1, <2>2
<1>2. ASSUME NEW a \in Attempts, NEW r, Report(a, r), pick'[a] = Nobody,
             \A c \in Attempts \ {a} : pick'[c] = pick[c]
      PROVE  Planned(b)'
  <2>1. CASE b # a
    BY <1>2, <1>f, <2>1 DEF Report, TypeOK
  <2>2. CASE b = a
    <3>1. at'[a] = "idle" /\ todo'[a] = {} /\ done'[a] = {}
      BY <1>2 DEF Report, TypeOK
    <3> QED
      BY <1>2, <2>2, <3>1 DEF Planned
  <2> QED
    BY <2>1, <2>2
<1>3. ASSUME NEW a \in Attempts, NEW r, Report(a, r), at[a] \notin {"undo", "redo"}, UNCHANGED pick
      PROVE  Planned(b)'
  BY <1>2, <1>3 DEF TypeOK
<1>4. ASSUME NEW a \in Attempts, NEW stage, NEW services, Begin(a, stage, services), services \subseteq token[a].all,
             at[a] = "confirm", UNCHANGED pick, stage \notin {"idle", "confirm"}
      PROVE  Planned(b)'
  <2>1. CASE b # a
    BY <1>4, <1>f, <2>1 DEF Begin, TypeOK
  <2>2. CASE b = a
    <3>1. at'[a] = stage /\ todo'[a] = services /\ UNCHANGED <<token, done, pick>>
      BY <1>4 DEF Begin, TypeOK
    <3> QED
      BY <1>4, <1>b, <2>2, <3>1 DEF Planned
  <2> QED
    BY <2>1, <2>2
<1>5. ASSUME NEW a \in Attempts, ApplyRoutes(a) PROVE Planned(b)'
  <2>1. at[a] = "confirm" /\ UNCHANGED pick
    BY <1>5 DEF ApplyRoutes
  <2>2. CASE Report(a, "none")
    BY <1>3, <2>1, <2>2
  <2>3. CASE ~Report(a, "none")
    <3>1. PICK view \in Views : /\ token[a] = RouteToken
                                /\ Begin(a, "publish", {s \in selected : view[s] = "none"})
      BY <1>5, <2>3 DEF ApplyRoutes
    <3>2. {s \in selected : view[s] = "none"} \subseteq token[a].all
      BY <3>1 DEF RouteToken
    <3> QED
      BY <1>4, <2>1, <3>1, <3>2
  <2> QED
    BY <2>2, <2>3
<1>6. ASSUME NEW a \in Attempts, ReconcileRoutes(a) PROVE Planned(b)'
  <2>1. at[a] = "confirm" /\ UNCHANGED pick
    BY <1>6 DEF ReconcileRoutes
  <2>2. CASE Report(a, "none")
    BY <1>3, <2>1, <2>2
  <2>3. CASE ~Report(a, "none")
    <3>1. PICK view \in Views, again \in Views :
            /\ token[a] = RemovalToken(view, again)
            /\ LET removals == {s \in Stale(view) : again[s] = "ours"}
               IN  Begin(a, IF removals = {} THEN "check" ELSE "remove", removals)
      BY <1>6, <2>3 DEF ReconcileRoutes
    <3>2. {s \in Stale(view) : again[s] = "ours"} \subseteq token[a].all
      BY <3>1 DEF RemovalToken
    <3> QED
      BY <1>4, <2>1, <3>1, <3>2
  <2> QED
    BY <2>2, <2>3
<1>7. ASSUME NEW a \in Attempts, NEW s \in todo[a], NEW next \in {"verify", "check"}, Handled(a, s, next),
             at[a] \in {"publish", "remove"}, UNCHANGED <<token, pick>>
      PROVE  Planned(b)'
  <2>1. CASE b # a
    BY <1>7, <1>f, <2>1 DEF Handled, TypeOK
  <2>2. CASE b = a
    <3>1. /\ at'[a] \in {"publish", "remove", "verify", "check"}
          /\ todo'[a] = todo[a] \ {s} /\ done'[a] = done[a] \cup {s} /\ UNCHANGED <<token, pick>>
      BY <1>7 DEF Handled, TypeOK
    <3> QED
      BY <1>b, <2>2, <3>1 DEF Planned
  <2> QED
    BY <2>1, <2>2
<1>8. ASSUME NEW a \in Attempts, NEW stage \in {"rollback", "restore"}, GiveUp(a, stage), UNCHANGED <<token, pick>>
      PROVE  Planned(b)'
  <2>1. CASE b # a
    BY <1>8, <1>f, <2>1 DEF GiveUp, TypeOK
  <2>2. CASE b = a
    <3>1. at'[a] = stage /\ todo'[a] = done[a] /\ UNCHANGED <<done, token, pick>>
      BY <1>8 DEF GiveUp, TypeOK
    <3> QED
      BY <1>b, <2>2, <3>1 DEF Planned
  <2> QED
    BY <2>1, <2>2
<1>9. ASSUME NEW a \in Attempts, Publish(a) \/ Remove(a) PROVE Planned(b)'
  <2>1. PICK s \in todo[a] : \/ Handled(a, s, "verify") \/ Handled(a, s, "check")
                             \/ GiveUp(a, "rollback") \/ GiveUp(a, "restore")
    BY <1>9 DEF Publish, Remove
  <2>2. at[a] \in {"publish", "remove"} /\ UNCHANGED <<token, pick>>
    BY <1>9 DEF Publish, Remove
  <2> QED
    BY <1>7, <1>8, <2>1, <2>2
<1>10. ASSUME NEW a \in Attempts, Verify(a) \/ Check(a) PROVE Planned(b)'
  <2>1. CASE GiveUp(a, "rollback") \/ GiveUp(a, "restore")
    BY <1>8, <1>10, <2>1 DEF Verify, Check
  <2>2. CASE ~(GiveUp(a, "rollback") \/ GiveUp(a, "restore"))
    <3>1. PICK stage \in {"record", "forget"} : at' = [at EXCEPT ![a] = stage]
      BY <1>10, <2>2 DEF Verify, Check
    <3>2. UNCHANGED <<todo, done, token, pick>> /\ at[a] \notin {"idle", "confirm"}
      BY <1>10, <2>2 DEF Verify, Check
    <3>3. at'[b] \in {"idle", "confirm"} => at[b] = at'[b]
      BY <3>1 DEF TypeOK
    <3> QED
      BY <1>b, <3>2, <3>3 DEF Planned
  <2> QED
    BY <2>1, <2>2
<1>11. ASSUME NEW a \in Attempts, Record(a) \/ Forget(a) \/ RolledBack(a) \/ Restored(a) PROVE Planned(b)'
  <2>1. (\E r : Report(a, r)) /\ at[a] \notin {"undo", "redo"} /\ UNCHANGED pick
    BY <1>11 DEF Record, Forget, RolledBack, Restored
  <2> QED
    BY <1>3, <2>1
<1>12. ASSUME NEW a \in Attempts, Rollback(a) \/ Restore(a) PROVE Planned(b)'
  <2>1. PICK s \in todo[a] :
          /\ todo' = [todo EXCEPT ![a] = @ \ {s}]
          /\ \/ UNCHANGED <<at, pick>>
             \/ /\ \E stage \in {"undo", "redo"} : at' = [at EXCEPT ![a] = stage]
                /\ pick' = [pick EXCEPT ![a] = s]
    BY <1>12 DEF Rollback, Restore
  <2>2. at[a] \in {"rollback", "restore"} /\ UNCHANGED <<token, done>>
    BY <1>12 DEF Rollback, Restore
  <2>3. CASE b # a
    BY <1>f, <2>1, <2>2, <2>3 DEF TypeOK
  <2>4. CASE b = a
    <3>1. /\ todo'[a] = todo[a] \ {s} /\ at'[a] \in {"rollback", "restore", "undo", "redo"}
          /\ pick'[a] = pick[a] \/ pick'[a] = s
      BY <2>1, <2>2 DEF TypeOK
    <3> QED
      BY <1>b, <2>2, <2>4, <3>1 DEF Planned
  <2> QED
    BY <2>3, <2>4
<1>13. ASSUME NEW a \in Attempts, Undo(a) \/ Redo(a) PROVE Planned(b)'
  <2>1. /\ \E stage \in {"rollback", "restore"} : at' = [at EXCEPT ![a] = stage]
        /\ pick' = [pick EXCEPT ![a] = Nobody] /\ UNCHANGED <<token, todo, done>>
    BY <1>13 DEF Undo, Redo
  <2>2. CASE b # a
    BY <1>f, <2>1, <2>2 DEF TypeOK
  <2>3. CASE b = a
    <3>1. at'[a] \in {"rollback", "restore"} /\ pick'[a] = Nobody
      BY <2>1 DEF TypeOK
    <3> QED
      BY <1>b, <2>1, <2>3, <3>1 DEF Planned
  <2> QED
    BY <2>2, <2>3
<1>14. ASSUME NEW a \in Attempts, Crash(a) PROVE Planned(b)'
  BY <1>2, <1>14 DEF Crash, TypeOK
<1>15. CASE ApplyWorkspace \/ ListenerChanges \/ ConfigEdited \/ CalmDown
  BY <1>0, <1>15 DEF ApplyWorkspace, ListenerChanges, ConfigEdited, CalmDown
<1>16. CASE UNCHANGED vars
  BY <1>f, <1>16 DEF vars
<1> QED
  BY <1>1, <1>5, <1>6, <1>9, <1>10, <1>11, <1>12, <1>13, <1>14, <1>15, <1>16
     DEF Next, Step, PreviewRoutes, PreviewRemovals

LEMMA PlannedInvariance == Spec => [](TypeOK /\ PlannedInv)
<1>1. Init => PlannedInv
  BY DEF Init, PlannedInv, Planned
<1>2. TypeOK /\ PlannedInv /\ [Next]_vars => PlannedInv'
  BY PlannedStep
<1> QED
  BY <1>1, <1>2, TypeCorrect, PTL DEF Spec

(* The commands of an attempt change only a listener it has to handle.     *)
LEMMA ChangedIsHandled ==
  ASSUME TypeOK, [Next]_vars, NEW s \in Services, live'[s] # live[s], hand'[s] \in Attempts
  PROVE  s \in todo[hand'[s]] \/ s = pick[hand'[s]]
<1>1. ASSUME NEW a \in Attempts, NEW t \in Services, NEW outcome, Serve(a, t, outcome) \/ Off(a, t, outcome)
      PROVE  s = t /\ hand'[s] = a
  BY <1>1 DEF Serve, Off, TypeOK, world
<1>2. ASSUME NEW a \in Attempts, Publish(a) \/ Remove(a)
      PROVE  s \in todo[hand'[s]]
  <2>1. PICK t \in todo[a], outcome \in Outcomes : Serve(a, t, outcome) \/ Off(a, t, outcome)
    BY <1>2 DEF Publish, Remove
  <2>2. t \in Services
    BY DEF TypeOK
  <2> QED
    BY <1>1, <2>1, <2>2
<1>3. ASSUME NEW a \in Attempts, Undo(a) \/ Redo(a)
      PROVE  s = pick[hand'[s]]
  <2>1. PICK outcome \in Outcomes : Serve(a, pick[a], outcome) \/ Off(a, pick[a], outcome)
    BY <1>3 DEF Undo, Redo
  <2>2. pick[a] \in Services
    BY <1>3 DEF Undo, Redo, TypeOK
  <2> QED
    BY <1>1, <2>1, <2>2
<1>4. ASSUME ListenerChanges PROVE FALSE
  <2>1. hand'[s] = Nobody
    BY <1>4 DEF ListenerChanges, TypeOK
  <2> QED
    BY <2>1, RoutesAssumption
<1>5. live' # live
  OBVIOUS
<1> QED
  BY <1>2, <1>3, <1>4, <1>5
     DEF Next, Step, PreviewRoutes, PreviewRemovals, Confirm, ApplyRoutes, Verify, Record, Rollback, RolledBack,
         ReconcileRoutes, Check, Forget, Restore, Restored, Crash, ApplyWorkspace, ConfigEdited, CalmDown, vars, world

(* Whatever goes wrong and however many attempts are in flight, an attempt *)
(* changes only listeners of the plan it was confirmed for: applyRoutes    *)
(* and reconcileRoutes compare the token of the plan they have just made,  *)
(* and what they undo is among what they did.                              *)
THEOREM OnlyConfirmedChange == Spec => OnlyConfirmedListeners
<1> DEFINE Confirmed == \A s \in Services : live'[s] # live[s] /\ hand'[s] \in Attempts
                                             => s \in token[hand'[s]].all
<1>1. TypeOK /\ PlannedInv /\ [Next]_vars => [Confirmed]_vars
  <2> SUFFICES ASSUME TypeOK, PlannedInv, [Next]_vars, NEW s \in Services, live'[s] # live[s], hand'[s] \in Attempts
               PROVE  s \in token[hand'[s]].all
    OBVIOUS
  <2>1. s \in todo[hand'[s]] \/ s = pick[hand'[s]]
    BY ChangedIsHandled
  <2>2. Planned(hand'[s])
    BY DEF PlannedInv
  <2>3. s # Nobody
    BY RoutesAssumption
  <2> QED
    BY <2>1, <2>2, <2>3 DEF Planned
<1> QED
  BY <1>1, PlannedInvariance, PTL DEF Spec, OnlyConfirmedListeners

-----------------------------------------------------------------------------
(* What has been published is on record                                    *)

(* Commands do what they report, probes that fail say so, nobody crashes,  *)
(* and one attempt is made at a time.                                      *)
Reliable == Faults \subseteq {"offline", "external"}

Removing == {"remove", "check", "forget", "restore", "redo"}

(* A listener that the re-checks can look at, that LocalLink published and *)
(* nobody changed since.                                                   *)
Kept(s) == s \in Inspectable /\ live[s] = "ours" /\ hand[s] # Nobody

Accounted(a) ==
  /\ at[a] \in Removing => token[a].all \subseteq owned
  /\ at[a] \in {"idle", "confirm", "publish", "verify"} => failed[a] = {}
  /\ at[a] \in {"rollback", "undo"} =>
       todo[a] \subseteq done[a] /\ failed[a] \subseteq done[a] /\ (pick[a] # Nobody => pick[a] \in done[a])
  /\ \A s \in Services : Kept(s) =>
       /\ at[a] \in Removing \cup {"idle", "confirm"} => s \in owned
       /\ at[a] \in {"publish", "verify", "record"} => s \in owned \/ s \in done[a]
       /\ at[a] \in {"rollback", "undo"} => s \in owned \/ s \in todo[a] \/ s \in failed[a] \/ s = pick[a]
       /\ at[a] = "remove" => s \notin token[a].all \/ s \in todo[a]
       /\ at[a] \in {"check", "forget"} => s \notin token[a].all

(* A command that succeeds leaves all other listeners and what they are.   *)
LEMMA CommandKeeps ==
  ASSUME Reliable, TypeOK, NEW a \in Attempts, NEW s \in Services, NEW outcome \in Outcomes,
         Serve(a, s, outcome) \/ Off(a, s, outcome)
  PROVE  /\ outcome # "ok" => \A t \in Services : Kept(t)' => Kept(t)
         /\ \A t \in Services \ {s} : Kept(t)' => Kept(t)
         /\ outcome = "ok" /\ Off(a, s, outcome) => ~Kept(s)'
<1>1. outcome # "ok" => outcome = "fail"
  BY DEF Reliable, Outcomes
<1> QED
  BY <1>1 DEF Serve, Off, TypeOK, world, Kept

LEMMA AccountedStep ==
  ASSUME Reliable, NEW a \in Attempts, Attempts = {a}, TypeOK, TypeOK', Planned(a), Accounted(a), [Next]_vars
  PROVE  Accounted(a)'
<1>t. Truthful
  BY DEF Reliable, Truthful
<1>n. \A s \in Services : s # Nobody
  BY RoutesAssumption
<1>0. ASSUME UNCHANGED job, owned' = owned, \A s \in Services : Kept(s)' => Kept(s) PROVE Accounted(a)'
  BY <1>0 DEF Accounted, job
<1>1. ASSUME NEW k, Confirm(a, k) PROVE Accounted(a)'
  <2>1. /\ at[a] = "idle" /\ at'[a] = "confirm" /\ UNCHANGED <<live, owned, failed>>
        /\ \A s \in Services : hand'[s] = hand[s] \/ hand[s] = a
    BY <1>1 DEF Confirm, TypeOK
  <2>2. \A s \in Services : Kept(s)' => Kept(s)
    BY <2>1, RoutesAssumption DEF Kept
  <2> QED
    BY <2>1, <2>2 DEF Accounted, Removing
<1>2. ASSUME NEW r, Report(a, r), UNCHANGED world, \A s \in Services : Kept(s) => s \in owned'
      PROVE  Accounted(a)'
  <2>1. at'[a] = "idle" /\ failed'[a] = {}
    BY <1>2 DEF Report, TypeOK
  <2> QED
    BY <1>2, <2>1 DEF Accounted, Removing, Kept, world
<1>3. ASSUME ApplyRoutes(a) PROVE Accounted(a)'
  <2>1. at[a] = "confirm" /\ UNCHANGED <<live, hand, owned, pick>>
    BY <1>3 DEF ApplyRoutes, world
  <2>2. CASE Report(a, "none")
    BY <1>2, <2>1, <2>2 DEF Accounted, world
  <2>3. CASE ~Report(a, "none")
    <3>1. \E services : Begin(a, "publish", services)
      BY <1>3, <2>3 DEF ApplyRoutes
    <3>2. at'[a] = "publish" /\ UNCHANGED <<done, failed>>
      BY <3>1 DEF Begin, TypeOK
    <3> QED
      BY <2>1, <3>2 DEF Accounted, Removing, Kept
  <2> QED
    BY <2>2, <2>3
<1>4. ASSUME ReconcileRoutes(a) PROVE Accounted(a)'
  <2>1. at[a] = "confirm" /\ UNCHANGED <<live, hand, owned, pick>>
    BY <1>4 DEF ReconcileRoutes, world
  <2>2. CASE Report(a, "none")
    BY <1>2, <2>1, <2>2 DEF Accounted, world
  <2>3. CASE ~Report(a, "none")
    <3>1. PICK view \in Views, again \in Views :
            /\ Removable(view, again) /\ token[a] = RemovalToken(view, again)
            /\ LET removals == {s \in Stale(view) : again[s] = "ours"}
               IN  Begin(a, IF removals = {} THEN "check" ELSE "remove", removals)
      BY <1>4, <2>3 DEF ReconcileRoutes
    <3> DEFINE removals == {s \in Stale(view) : live[s] = "ours"}
    <3>2. again = live
      BY <3>1, <1>t DEF Views, Removable, Truthful
    <3>3. token[a].all = Stale(view) /\ Stale(view) \subseteq owned /\ Stale(view) \subseteq Services
      BY <3>1 DEF RemovalToken, Stale
    <3>4. /\ at'[a] = IF removals = {} THEN "check" ELSE "remove"
          /\ todo'[a] = removals /\ UNCHANGED <<token, done, failed>>
      BY <3>1, <3>2 DEF Begin, TypeOK
    <3> QED
      BY <2>1, <3>3, <3>4 DEF Accounted, Removing, Kept
  <2> QED
    BY <2>2, <2>3
<1>5. ASSUME Publish(a) PROVE Accounted(a)'
  <2>1. PICK s \in todo[a], outcome \in Outcomes : Serve(a, s, outcome)
          /\ IF outcome = "ok" THEN Handled(a, s, "verify") ELSE GiveUp(a, "rollback")
    BY <1>5 DEF Publish
  <2>2. s \in Services
    BY DEF TypeOK
  <2>3. at[a] = "publish" /\ UNCHANGED <<owned, token, pick, failed>> /\ pick[a] = Nobody /\ failed[a] = {}
    BY <1>5 DEF Publish, TypeOK, Accounted
  <2>4. \A t \in Services : Kept(t)' => t = s \/ Kept(t)
    BY <2>1, <2>2, CommandKeeps
  <2>5. CASE outcome = "ok"
    <3>1. at'[a] \in {"publish", "verify"} /\ done'[a] = done[a] \cup {s}
      BY <2>1, <2>3, <2>5 DEF Handled, TypeOK
    <3> QED
      BY <2>3, <2>4, <3>1 DEF Accounted, Removing
  <2>6. CASE outcome # "ok"
    <3>1. at'[a] = "rollback" /\ todo'[a] = done[a] /\ done' = done
      BY <2>1, <2>6 DEF GiveUp, TypeOK
    <3>2. \A t \in Services : Kept(t)' => Kept(t)
      BY <2>1, <2>2, <2>6, CommandKeeps
    <3> QED
      BY <2>3, <3>1, <3>2 DEF Accounted, Removing
  <2> QED
    BY <2>5, <2>6
<1>6. ASSUME Verify(a) PROVE Accounted(a)'
  <2>1. at[a] = "verify" /\ UNCHANGED <<live, hand, owned, token, pick, failed, done>> /\ pick[a] = Nobody
    BY <1>6 DEF Verify, GiveUp, TypeOK, world
  <2>2. CASE GiveUp(a, "rollback")
    <3>1. at'[a] = "rollback" /\ todo'[a] = done[a]
      BY <2>2 DEF GiveUp, TypeOK
    <3> QED
      BY <2>1, <3>1 DEF Accounted, Removing, Kept
  <2>3. CASE ~GiveUp(a, "rollback")
    <3>1. at'[a] = "record"
      BY <1>6, <2>3 DEF Verify, TypeOK
    <3> QED
      BY <2>1, <3>1 DEF Accounted, Removing, Kept
  <2> QED
    BY <2>2, <2>3
<1>7. ASSUME Record(a) PROVE Accounted(a)'
  <2>1. at[a] = "record" /\ owned' = owned \cup done[a]
    BY <1>7 DEF Record
  <2> QED
    BY <1>2, <1>7, <2>1 DEF Record, Accounted
<1>8. ASSUME Rollback(a) PROVE Accounted(a)'
  <2>0. PICK s \in todo[a], view \in Views : \E seen \in Inspected(s, view) :
          /\ todo' = [todo EXCEPT ![a] = @ \ {s}]
          /\ \/ seen = "none" /\ UNCHANGED <<at, pick, failed>>
             \/ failed' = [failed EXCEPT ![a] = @ \cup {s}] /\ UNCHANGED <<at, pick>>
             \/ /\ at' = [at EXCEPT ![a] = "undo"]
                /\ pick' = [pick EXCEPT ![a] = s]
                /\ UNCHANGED failed
    BY <1>8 DEF Rollback
  <2>1. PICK seen \in Inspected(s, view) :
          /\ todo' = [todo EXCEPT ![a] = @ \ {s}]
          /\ \/ seen = "none" /\ UNCHANGED <<at, pick, failed>>
             \/ failed' = [failed EXCEPT ![a] = @ \cup {s}] /\ UNCHANGED <<at, pick>>
             \/ /\ at' = [at EXCEPT ![a] = "undo"]
                /\ pick' = [pick EXCEPT ![a] = s]
                /\ UNCHANGED failed
    BY <2>0
  <2>2. s \in Services /\ pick[a] = Nobody /\ at[a] = "rollback" /\ UNCHANGED <<live, hand, owned, token, done>>
    BY <1>8 DEF Rollback, TypeOK, world
  <2>3. s \in Inspectable /\ seen = "none" => live[s] = "none"
    BY <1>t, TruthfulProbe
  <2>4. /\ todo'[a] = todo[a] \ {s} /\ s \in done[a]
        /\ \/ at'[a] = "rollback" /\ pick'[a] = Nobody /\ failed'[a] = failed[a] /\ ~Kept(s)
           \/ at'[a] = "rollback" /\ pick'[a] = Nobody /\ failed'[a] = failed[a] \cup {s}
           \/ at'[a] = "undo" /\ pick'[a] = s /\ failed'[a] = failed[a]
    BY <2>1, <2>2, <2>3 DEF TypeOK, Kept, Accounted
  <2>5. \A t \in Services : Kept(t)' <=> Kept(t)
    BY <2>2 DEF Kept
  <2>6. todo[a] \subseteq done[a] /\ failed[a] \subseteq done[a]
    BY <2>2 DEF Accounted
  <2>7. \A t \in Services : Kept(t) => t \in owned \/ t \in todo[a] \/ t \in failed[a]
    BY <2>2, <1>n DEF Accounted
  <2>8. at'[a] \in {"rollback", "undo"} /\ todo'[a] \subseteq done'[a] /\ failed'[a] \subseteq done'[a]
        /\ (pick'[a] # Nobody => pick'[a] \in done'[a])
    BY <2>2, <2>4, <2>6
  <2>9. \A t \in Services : Kept(t)' => t \in owned' \/ t \in todo'[a] \/ t \in failed'[a] \/ t = pick'[a]
    BY <2>2, <2>4, <2>5, <2>7
  <2> QED
    BY <2>8, <2>9 DEF Accounted, Removing
<1>9. ASSUME Undo(a) PROVE Accounted(a)'
  <2>1. PICK outcome \in Outcomes : Off(a, pick[a], outcome)
          /\ failed' = [failed EXCEPT ![a] = IF outcome = "ok" THEN @ ELSE @ \cup {pick[a]}]
    BY <1>9 DEF Undo
  <2>2. pick[a] \in Services /\ at[a] = "undo" /\ at'[a] = "rollback" /\ pick'[a] = Nobody
        /\ UNCHANGED <<owned, token, todo, done>>
    BY <1>9 DEF Undo, TypeOK
  <2>p. PICK s \in Services : s = pick[a]
    BY <2>2
  <2>3. /\ outcome = "ok" => ~Kept(s)'
        /\ \A t \in Services : Kept(t)' => Kept(t)
    <3>1. Off(a, s, outcome)
      BY <2>1, <2>p
    <3>2. /\ outcome = "ok" => ~Kept(s)'
          /\ \A t \in Services : t # s \/ outcome # "ok" => (Kept(t)' => Kept(t))
      BY <3>1, CommandKeeps
    <3> QED
      BY <3>2
  <2>4. failed'[a] = IF outcome = "ok" THEN failed[a] ELSE failed[a] \cup {s}
    BY <2>1, <2>p DEF TypeOK
  <2>5. s \in done[a]
    BY <2>2, <2>p, <1>n DEF Accounted
  <2> QED
    BY <2>2, <2>p, <2>3, <2>4, <2>5 DEF Accounted, Removing
<1>10. ASSUME RolledBack(a) PROVE Accounted(a)'
  <2>1. at[a] = "rollback" /\ todo[a] = {} /\ pick[a] = Nobody /\ owned' = owned \cup failed[a]
    BY <1>10 DEF RolledBack, TypeOK
  <2> QED
    BY <1>2, <1>10, <1>n, <2>1 DEF RolledBack, Accounted
<1>11. ASSUME Remove(a) PROVE Accounted(a)'
  <2>1. PICK s \in todo[a], outcome \in Outcomes : Off(a, s, outcome)
          /\ IF outcome = "ok" THEN Handled(a, s, "check") ELSE GiveUp(a, "restore")
    BY <1>11 DEF Remove
  <2>2. s \in Services
    BY DEF TypeOK
  <2>3. at[a] = "remove" /\ UNCHANGED <<owned, token, pick, failed>>
    BY <1>11 DEF Remove
  <2>4. \A t \in Services : Kept(t)' => Kept(t)
    <3>1. \A t \in Services : t # s \/ outcome # "ok" => (Kept(t)' => Kept(t))
      BY <2>1, <2>2, CommandKeeps
    <3>2. outcome = "ok" => ~Kept(s)'
      BY <2>1, <2>2, CommandKeeps
    <3> QED
      BY <3>1, <3>2
  <2>5. CASE outcome = "ok"
    <3>1. /\ todo'[a] = todo[a] \ {s}
          /\ \/ at'[a] = "remove"
             \/ at'[a] = "check" /\ todo[a] = {s}
      BY <2>1, <2>3, <2>5 DEF Handled, TypeOK
    <3>2. ~Kept(s)'
      BY <2>1, <2>2, <2>5, CommandKeeps
    <3> QED
      BY <2>3, <2>4, <3>1, <3>2 DEF Accounted, Removing
  <2>6. CASE outcome # "ok"
    <3>1. at'[a] = "restore"
      BY <2>1, <2>6 DEF GiveUp, TypeOK
    <3> QED
      BY <2>3, <2>4, <3>1 DEF Accounted, Removing
  <2> QED
    BY <2>5, <2>6
<1>12. ASSUME Check(a) PROVE Accounted(a)'
  <2>1. at[a] = "check" /\ at'[a] \in {"restore", "forget"} /\ UNCHANGED <<live, hand, owned, token, failed>>
    BY <1>12 DEF Check, GiveUp, TypeOK, world
  <2> QED
    BY <2>1 DEF Accounted, Removing, Kept
<1>13. ASSUME Forget(a) PROVE Accounted(a)'
  <2>1. at[a] = "forget" /\ owned' = owned \ token[a].all
    BY <1>13 DEF Forget
  <2> QED
    BY <1>2, <1>13, <2>1 DEF Forget, Accounted, Removing
<1>14. ASSUME Restore(a) PROVE Accounted(a)'
  <2>1. at[a] = "restore" /\ at'[a] \in {"restore", "redo"} /\ UNCHANGED <<live, hand, owned, token>>
    BY <1>14 DEF Restore, TypeOK, world
  <2> QED
    BY <2>1 DEF Accounted, Removing, Kept
<1>15. ASSUME Redo(a) PROVE Accounted(a)'
  <2>1. PICK outcome \in Outcomes : Serve(a, pick[a], outcome)
    BY <1>15 DEF Redo
  <2>2. pick[a] \in Services /\ at[a] = "redo" /\ at'[a] = "restore" /\ UNCHANGED <<owned, token>>
    BY <1>15 DEF Redo, TypeOK
  <2>3. \A t \in Services : Kept(t)' => t = pick[a] \/ Kept(t)
    BY <2>1, <2>2, CommandKeeps
  <2>4. pick[a] \in owned
    BY <2>2, <1>n DEF Planned, Accounted, Removing
  <2> QED
    BY <2>2, <2>3, <2>4 DEF Accounted, Removing
<1>16. ASSUME Restored(a) PROVE Accounted(a)'
  <2>1. at[a] = "restore" /\ owned' = owned
    BY <1>16 DEF Restored
  <2> QED
    BY <1>2, <1>16, <2>1 DEF Restored, Accounted, Removing
<1>17. ~Crash(a)
  BY DEF Crash, Reliable
<1>18. CASE ListenerChanges
  <2>1. \A s \in Services : Kept(s)' => Kept(s)
    BY <1>18 DEF ListenerChanges, TypeOK, Kept
  <2> QED
    BY <1>0, <1>18, <2>1 DEF ListenerChanges
<1>19. CASE ApplyWorkspace \/ ConfigEdited \/ CalmDown
  BY <1>0, <1>19 DEF ApplyWorkspace, ConfigEdited, CalmDown, world, Kept
<1>20. CASE UNCHANGED vars
  BY <1>0, <1>20 DEF vars, job, Kept
<1> QED
  BY <1>1, <1>3, <1>4, <1>5, <1>6, <1>7, <1>8, <1>9, <1>10, <1>11, <1>12, <1>13, <1>14, <1>15, <1>16, <1>17,
     <1>18, <1>19, <1>20 DEF Next, Step, PreviewRoutes, PreviewRemovals

(* With one attempt at a time, commands that do what they report, probes   *)
(* that say when they fail and no crash, every listener that LocalLink has *)
(* published is on record or in hand, for any number of services and       *)
(* whoever else changes listeners: it can always be reconciled.            *)
THEOREM PublishedIsAccounted ==
  ASSUME Reliable, NEW a \in Attempts, Attempts = {a}
  PROVE  Spec => []AllAccounted
<1>1. Init => Accounted(a)
  <2> SUFFICES ASSUME Init PROVE Accounted(a)
    OBVIOUS
  <2>1. at[a] = "idle" /\ failed[a] = {} /\ \A s \in Services : ~Kept(s)
    BY DEF Init, Kept
  <2> QED
    BY <2>1 DEF Accounted, Removing
<1>2. TypeOK /\ TypeOK' /\ PlannedInv /\ Accounted(a) /\ [Next]_vars => Accounted(a)'
  BY AccountedStep DEF PlannedInv
<1>3. TypeOK /\ Accounted(a) => AllAccounted
  <2> SUFFICES ASSUME TypeOK, Accounted(a), NEW s \in Services, Kept(s)
               PROVE  s \in owned \/ (at[a] # "idle" /\ s \in done[a])
    BY DEF AllAccounted, Kept
  <2>1. at[a] \in {"idle", "confirm"} \cup Removing \cup {"publish", "verify", "record", "rollback", "undo"}
    BY DEF TypeOK, Removing
  <2>2. s # Nobody
    BY RoutesAssumption
  <2> QED
    BY <2>1, <2>2 DEF Accounted, Removing
<1> QED
  BY <1>1, <1>2, <1>3, PlannedInvariance, PTL DEF Spec
=============================================================================
