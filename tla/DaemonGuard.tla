---------------------------- MODULE DaemonGuard ----------------------------
(***************************************************************************)
(* What withPm2WorkspaceLock promises its callers (README: lifecycle,      *)
(* status, logs, save and resurrect operations share one PM2_HOME and one  *)
(* daemon-initialization lock): callers enter one at a time, only a caller *)
(* inside may launch the PM2 daemon, and only when none is running.  The   *)
(* exception is a strain, which begins while a caller is inside: a daemon  *)
(* that hangs after it was inspected, or a launch cut off by a timeout;    *)
(* until it is over, daemons may come up beside one another.               *)
(***************************************************************************)
EXTENDS Naturals

CONSTANTS Calls, Nobody

VARIABLES
  inside,   \* the caller that runs under the lock, or Nobody
  running,  \* the number of PM2 daemons of this PM2_HOME
  strain    \* may a daemon come up beside another?

guardVars == <<inside, running, strain>>

GuardInit == inside = Nobody /\ running \in 0..1 /\ strain = FALSE

Enter(c) == inside = Nobody /\ inside' = c /\ UNCHANGED <<running, strain>>

Leave(c) == inside = c /\ inside' = Nobody /\ UNCHANGED <<running, strain>>

Launch(c) == inside = c /\ running = 0 /\ running' = 1 /\ UNCHANGED <<inside, strain>>

DaemonExit == running > 0 /\ running' = running - 1 /\ UNCHANGED <<inside, strain>>

StrainBegins == inside # Nobody /\ strain' = TRUE /\ UNCHANGED <<inside, running>>

LateLaunch == strain /\ running' = running + 1 /\ UNCHANGED <<inside, strain>>

StrainEnds == running <= 1 /\ strain' = FALSE /\ UNCHANGED <<inside, running>>

GuardNext ==
  \/ \E c \in Calls : Enter(c) \/ Leave(c) \/ Launch(c)
  \/ DaemonExit \/ StrainBegins \/ LateLaunch \/ StrainEnds

GuardSpec == GuardInit /\ [][GuardNext]_guardVars
=============================================================================
