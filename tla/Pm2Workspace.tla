---------------------------- MODULE Pm2Workspace ----------------------------
(***************************************************************************)
(* withPm2WorkspaceLock (src/runtime/pm2-workspace.ts): what a caller does *)
(* while it holds the daemon-initialization lock of Pm2WorkspaceLock.      *)
(* It inspects the PM2 home (how many daemons, is the RPC socket           *)
(* reachable, are there artifacts of a dead one), refuses or skips, runs   *)
(* the guarded PM2 command and inspects again.                             *)
(*                                                                         *)
(* The PM2 command line itself is external: it pings the daemon and, when  *)
(* nobody answers, launches one: a detached process that outlives the      *)
(* command.                                                                *)
(***************************************************************************)
EXTENDS Pm2WorkspaceLock

CONSTANTS
  Spawners,   \* the calls with allowSpawn: start, restart, reload, resurrect...
  Nobody,     \* no caller is inside
  MaxDaemons  \* bound: no more daemons and launches under way than this

ASSUME WorkspaceAssumption ==
  /\ Spawners \subseteq Calls
  /\ Nobody \notin Calls
  /\ MaxDaemons \in Nat

VARIABLES
  daemons,    \* PM2 daemons that resolve to this PM2_HOME
  reachable,  \* does the daemon's RPC socket accept a connection?
  artifacts,  \* pm2.pid or sockets left by a daemon that is gone
  phase,      \* what a holder does next; "inspect" outside the lock
  orphans,    \* daemon launches whose PM2 command has ended without them
  strained    \* history: what a holder inspected was overtaken, see Settle

daemonVars == <<daemons, reachable, artifacts>>
vars == <<lockVars, daemonVars, phase, orphans, strained>>

Phases == {"inspect", "run", "launch", "recheck", "return"}

TypeOK ==
  /\ LockTypeOK
  /\ daemons \in Nat
  /\ reachable \in BOOLEAN
  /\ artifacts \in BOOLEAN
  /\ phase \in [Calls -> Phases]
  /\ orphans \in Nat
  /\ strained \in BOOLEAN

(* LocalLink may come up beside a healthy daemon, a hung one, none, or the *)
(* remains of one.                                                         *)
Init ==
  /\ LockInit
  /\ \/ daemons = 0 /\ reachable = FALSE /\ artifacts \in BOOLEAN
     \/ daemons = 1 /\ reachable \in BOOLEAN /\ artifacts = FALSE
  /\ phase = [c \in Calls |-> "inspect"]
  /\ orphans = 0
  /\ strained = FALSE

-----------------------------------------------------------------------------
Proceed(c, next) == phase' = [phase EXCEPT ![c] = next]

(* The refusals and the early return before the operation runs.  *)
MayRun(c) ==
  /\ daemons <= 1
  /\ daemons = 1 => reachable
  /\ daemons = 0 => c \in Spawners /\ ~artifacts

(* A mutant: a daemon that does not answer is taken for no daemon. *)
InspectLenient(c) ==
  /\ pc[c] = "held" /\ phase[c] = "inspect"
  /\ \/ /\ daemons <= 1
        /\ daemons = 0 => c \in Spawners /\ ~artifacts
        /\ Proceed(c, "run")
     \/ /\ daemons > 1 \/ (daemons = 0 /\ (c \notin Spawners \/ artifacts))
        /\ Proceed(c, "return")
  /\ UNCHANGED <<lockVars, daemonVars, orphans, strained>>

(* inspectPm2Workspace, then PM2_DUPLICATE_DAEMONS, PM2_DAEMON_UNREACHABLE, *)
(* PM2_STALE_DAEMON_STATE, an undefined result, or the operation.           *)
Inspect(c) ==
  /\ pc[c] = "held" /\ phase[c] = "inspect"
  /\ \/ MayRun(c) /\ Proceed(c, "run")
     \/ ~MayRun(c) /\ Proceed(c, "return")
  /\ UNCHANGED <<lockVars, daemonVars, orphans, strained>>

(* External: a PM2 command of the operation pings the daemon and launches  *)
(* one if nobody answers.                                                  *)
Ping(c) ==
  /\ pc[c] = "held" /\ phase[c] = "run"
  /\ \/ reachable /\ Proceed(c, "recheck")
     \/ /\ ~reachable
        /\ daemons + orphans < MaxDaemons
        /\ Proceed(c, "launch")
  /\ UNCHANGED <<lockVars, daemonVars, orphans, strained>>

(* The daemon writes its pid and opens its sockets.  *)
DaemonRises ==
  /\ daemons' = daemons + 1
  /\ reachable' = TRUE
  /\ artifacts' = FALSE

(* External: the launched daemon comes up and the command returns.  The    *)
(* operation may have another one to run.                                  *)
DaemonUp(c) ==
  /\ phase[c] = "launch"
  /\ DaemonRises
  /\ \E next \in {"run", "recheck"} : Proceed(c, next)
  /\ UNCHANGED <<lockVars, orphans, strained>>

(* The command's timeout kills it (jlist after 5 s, the others after 60 s) *)
(* or it fails: the daemon it was launching is a detached process and may  *)
(* still come up.                                                          *)
Cut(c) ==
  /\ phase[c] = "launch"
  /\ \E next \in {"run", "recheck"} : Proceed(c, next)
  /\ \/ orphans' = orphans + 1 /\ strained' = TRUE
     \/ UNCHANGED <<orphans, strained>>
  /\ UNCHANGED <<lockVars, daemonVars>>

(* External: a daemon whose command has ended comes up after all, or not. *)
OrphanUp ==
  /\ orphans > 0
  /\ orphans' = orphans - 1
  /\ DaemonRises \/ UNCHANGED daemonVars
  /\ UNCHANGED <<lockVars, phase, strained>>

(* The second inspection can only turn the result into an error; an        *)
(* operation that throws does not come to it.                              *)
Recheck(c) ==
  /\ pc[c] = "held" /\ phase[c] \in {"run", "recheck"}
  /\ Proceed(c, "return")
  /\ UNCHANGED <<lockVars, daemonVars, orphans, strained>>

(* A mutant: the lock is given back while the PM2 command still runs. *)
ReturnEarly(c) ==
  /\ phase[c] \in {"launch", "return"}
  /\ Release(c)
  /\ Proceed(c, "inspect")
  /\ orphans' = IF phase[c] = "launch" THEN orphans + 1 ELSE orphans
  /\ UNCHANGED <<daemonVars, strained>>

(* finally { await release() } *)
Return(c) ==
  /\ phase[c] = "return"
  /\ Release(c)
  /\ Proceed(c, "inspect")
  /\ UNCHANGED <<daemonVars, orphans, strained>>

(* The process ends; the PM2 command it was waiting for goes on. *)
End(p) ==
  /\ Die(p)
  /\ phase' = [c \in Calls |-> IF ProcOf[c] = p THEN "inspect" ELSE phase[c]]
  /\ IF \E c \in Calls : ProcOf[c] = p /\ phase[c] = "launch"
     THEN orphans' = orphans + 1 /\ strained' = TRUE
     ELSE UNCHANGED <<orphans, strained>>
  /\ UNCHANGED daemonVars

(* External: a daemon exits, with or without removing its files.  Of two   *)
(* daemons it may be the one that had the socket.                          *)
DaemonExits ==
  /\ daemons > 0
  /\ daemons' = daemons - 1
  /\ reachable' \in {FALSE, reachable /\ daemons > 1}
  /\ artifacts' \in IF daemons = 1 THEN BOOLEAN ELSE {artifacts}
  /\ UNCHANGED <<lockVars, phase, orphans, strained>>

(* External: the daemon stops answering.  When a holder has just inspected *)
(* it, the PM2 command that follows takes it for dead.                     *)
DaemonHangs ==
  /\ daemons > 0 /\ reachable
  /\ reachable' = FALSE
  /\ strained' = (strained \/ \E c \in Calls : phase[c] = "run")
  /\ UNCHANGED <<lockVars, daemons, artifacts, phase, orphans>>

(* External: the user removes what a dead daemon left behind. *)
UserCleans ==
  /\ daemons = 0 /\ artifacts
  /\ artifacts' = FALSE
  /\ UNCHANGED <<lockVars, daemons, reachable, phase, orphans, strained>>

(* What a caller between its inspection and its launch found still holds. *)
InspectionStands ==
  \A c \in Calls : /\ phase[c] = "run" => (daemons = 0 \/ reachable)
                   /\ phase[c] = "launch" => daemons = 0

Calm == daemons <= 1 /\ orphans = 0 /\ InspectionStands

(* History only: the strain is over when no launch of it is under way, no  *)
(* holder relies on what it overtook and no second daemon is left.         *)
Settle ==
  /\ strained /\ Calm
  /\ strained' = FALSE
  /\ UNCHANGED <<lockVars, daemonVars, phase, orphans>>

LockStep ==
  /\ Tick \/ \E c \in Calls : Request(c) \/ Acquire(c)
  /\ UNCHANGED <<daemonVars, phase, orphans, strained>>

Next ==
  \/ LockStep
  \/ \E c \in Calls : \/ Inspect(c) \/ Ping(c) \/ DaemonUp(c) \/ Cut(c)
                      \/ Recheck(c) \/ Return(c)
  \/ \E p \in Procs : End(p)
  \/ OrphanUp \/ DaemonExits \/ DaemonHangs \/ UserCleans \/ Settle

Spec == Init /\ [][Next]_vars

-----------------------------------------------------------------------------
(* Two PM2 daemons share one PM2_HOME only in a strain: a daemon stopped   *)
(* answering between a holder's inspection and its PM2 command, or a       *)
(* command was cut off with its launch under way.  Whatever else daemons,  *)
(* users, holders and waiters do, the lock and the inspections keep the    *)
(* promise "LocalLink will not start another", and once a strain is over   *)
(* they keep it again.                                                     *)
SingleDaemon == daemons > 1 => strained

(* The strengthening of SingleDaemon: a caller that is about to use the    *)
(* daemon or to launch one is inside the lock, and what it found still     *)
(* holds.                                                                  *)
PhaseInsideLock == \A c \in Calls : phase[c] # "inspect" => pc[c] = "held"

WorkspaceInv == PhaseInsideLock /\ (~strained => Calm)

(* The workspace implements the guard: Enter is the mkdir that succeeds,   *)
(* Leave the removal in the finally block.                                 *)
Inside == IF \E c \in Calls : Holds(c) THEN CHOOSE c \in Calls : Holds(c) ELSE Nobody

Guard == INSTANCE DaemonGuard WITH inside <- Inside, running <- daemons, strain <- strained

GuardSpec == Guard!GuardSpec
=============================================================================
