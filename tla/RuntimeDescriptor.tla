------------------------- MODULE RuntimeDescriptor -------------------------
(***************************************************************************)
(* The runtime descriptor of a workspace, .locallink/runtime.json, through *)
(* which users and agents find the dashboard (src/src/app-context.ts,      *)
(* src/src/cli.ts).  Every LocalLink process reads it as it initializes    *)
(* and removes it when the pid in it is dead; a dashboard records itself   *)
(* once it listens and clears its own record at a shutdown.  Several       *)
(* processes do so at once, each may be killed between any two awaits, and *)
(* the system gives the pid of a dead process to another.                  *)
(***************************************************************************)
EXTENDS Naturals, FiniteSets

CONSTANTS Pids, NoPid

ASSUME DescriptorAssumption == NoPid \notin Pids

VARIABLES
  phase,       \* how far the LocalLink process of each pid has come
  readPid,     \* the pid it has read in the descriptor
  descriptor,  \* the pid in the file, NoPid when there is none
  foreign,     \* pids that belong to other programs
  stale        \* history: processes that began when the descriptor named a dead pid,
               \* which it names ever since and which is still dead

descriptorVars == <<phase, readPid, descriptor, foreign, stale>>

Initializing == {"look", "judge", "unlink"}
Running == Initializing \cup {"run", "record", "serving", "closing", "clear"}
Gone == {"none", "ended", "closed", "dead"}

DescriptorInit ==
  /\ phase = [p \in Pids |-> "none"] /\ readPid = [p \in Pids |-> NoPid]
  /\ descriptor = NoPid /\ foreign = {} /\ stale = {}

-----------------------------------------------------------------------------
(* process.kill(pid, 0), for a pid of ours or anyone's. *)
Alive(p) == phase[p] \in Running \/ p \in foreign

GoesTo(p, to) == phase' = [phase EXCEPT ![p] = to]

StartCommand(p) ==
  /\ phase[p] \in Gone /\ p \notin foreign
  /\ GoesTo(p, "look")
  /\ stale' = IF descriptor = p THEN {}
              ELSE IF descriptor # NoPid /\ ~Alive(descriptor) THEN stale \cup {p} ELSE stale \ {p}
  /\ UNCHANGED <<readPid, descriptor, foreign>>

(* A mutant: whatever is there is taken for a live dashboard's. *)
LookOnly(p) ==
  /\ phase[p] = "look"
  /\ readPid' = [readPid EXCEPT ![p] = descriptor]
  /\ GoesTo(p, "run")
  /\ UNCHANGED <<descriptor, foreign, stale>>

(* clearStaleRuntimeBinding: the file is read; its absence ends it. *)
Look(p) ==
  /\ phase[p] = "look"
  /\ readPid' = [readPid EXCEPT ![p] = descriptor]
  /\ GoesTo(p, IF descriptor = NoPid THEN "run" ELSE "judge")
  /\ UNCHANGED <<descriptor, foreign, stale>>

(* A signal 0 to the pid that was read, which may be our own again. *)
Judge(p) ==
  /\ phase[p] = "judge"
  /\ GoesTo(p, IF Alive(readPid[p]) THEN "run" ELSE "unlink")
  /\ readPid' = [readPid EXCEPT ![p] = NoPid]
  /\ UNCHANGED <<descriptor, foreign, stale>>

(* unlink removes the file as it is by then. *)
UnlinkStale(p) ==
  /\ phase[p] = "unlink"
  /\ descriptor' = NoPid /\ stale' = {}
  /\ GoesTo(p, "run")
  /\ UNCHANGED <<readPid, foreign>>

-----------------------------------------------------------------------------
(* The command was another one, or its port is taken. *)
CommandEnds(p) ==
  /\ phase[p] = "run"
  /\ GoesTo(p, "ended")
  /\ UNCHANGED <<readPid, descriptor, foreign, stale>>

ListenOnPort(p) ==
  /\ phase[p] = "run"
  /\ GoesTo(p, "record")
  /\ UNCHANGED <<readPid, descriptor, foreign, stale>>

(* recordRuntimeBinding renames a file of its own over the descriptor; if  *)
(* that fails the server is closed and the command ends.                   *)
RecordBinding(p) ==
  /\ phase[p] = "record"
  /\ \/ descriptor' = p /\ stale' = {} /\ GoesTo(p, "serving")
     \/ UNCHANGED <<descriptor, stale>> /\ GoesTo(p, "ended")
  /\ UNCHANGED <<readPid, foreign>>

(* SIGINT or SIGTERM: server.close() runs the onClose hook. *)
Close(p) ==
  /\ phase[p] = "serving"
  /\ GoesTo(p, "closing")
  /\ UNCHANGED <<readPid, descriptor, foreign, stale>>

(* clearRuntimeBinding reads the file, and only its own is unlinked. *)
LookBeforeClearing(p) ==
  /\ phase[p] = "closing"
  /\ GoesTo(p, IF descriptor = p THEN "clear" ELSE "closed")
  /\ UNCHANGED <<readPid, descriptor, foreign, stale>>

ClearBinding(p) ==
  /\ phase[p] = "clear"
  /\ descriptor' = NoPid /\ stale' = {}
  /\ GoesTo(p, "closed")
  /\ UNCHANGED <<readPid, foreign>>

(* External: a process is killed, and its pid is given to another program, *)
(* which ends in its turn.                                                 *)
Killed(p) ==
  /\ phase[p] \in Running
  /\ GoesTo(p, "dead")
  /\ readPid' = [readPid EXCEPT ![p] = NoPid]
  /\ UNCHANGED <<descriptor, foreign, stale>>

PidReused(p) ==
  /\ phase[p] \in Gone
  /\ \/ p \notin foreign /\ foreign' = foreign \cup {p}
        /\ stale' = IF descriptor = p THEN {} ELSE stale
     \/ p \in foreign /\ foreign' = foreign \ {p} /\ UNCHANGED stale
  /\ UNCHANGED <<phase, readPid, descriptor>>

DescriptorNext ==
  \E p \in Pids : \/ StartCommand(p) \/ Look(p) \/ Judge(p) \/ UnlinkStale(p)
                  \/ CommandEnds(p) \/ ListenOnPort(p) \/ RecordBinding(p)
                  \/ Close(p) \/ LookBeforeClearing(p) \/ ClearBinding(p)
                  \/ Killed(p) \/ PidReused(p)

DescriptorSpec == DescriptorInit /\ [][DescriptorNext]_descriptorVars

-----------------------------------------------------------------------------
(* A dashboard that was shut down is not named, whatever others recorded   *)
(* and removed meanwhile; and a dead pid that the descriptor named when a  *)
(* command began is gone when the command has initialized, unless the pid  *)
(* came to life again.  (README.md:196-198 says both.)                     *)
DescriptorIsTruthful ==
  /\ \A p \in Pids : phase[p] = "closed" => descriptor # p
  /\ \A p \in stale : phase[p] \in Initializing \cup {"dead"}
=============================================================================
