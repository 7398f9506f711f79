----------------------------- MODULE MCLiveness -----------------------------
(***************************************************************************)
(* What must eventually happen: waits for the PM2 lock end, and changes of *)
(* the configuration are reloaded.  The two parts share no state; the      *)
(* initial state picks the one that runs.                                  *)
(***************************************************************************)
EXTENDS Pm2WorkspaceLock, Dashboard, TLC

CONSTANTS c1, c2, c3, p1, p2

VARIABLE part

(* Three calls, two of them in one process. *)
ProcOfShared == (c1 :> p1) @@ (c2 :> p2) @@ (c3 :> p1)

Init == part \in {"lock", "dashboard"} /\ LockInit /\ DashInit

Next ==
  /\ UNCHANGED part
  /\ \/ part = "lock" /\ LockNext /\ UNCHANGED dashVars
     \/ part = "dashboard" /\ DashNext /\ UNCHANGED lockVars

(* LockPollingSpec asks for requests; those of the part that runs. *)
Polling == \A c \in Calls : WF_lockVars(part = "lock" /\ Request(c))

Spec == Init /\ [][Next]_<<part, lockVars, dashVars>> /\ LockFairness /\ Polling /\ DashFairness
=============================================================================
