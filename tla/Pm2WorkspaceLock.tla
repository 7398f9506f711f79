-------------------------- MODULE Pm2WorkspaceLock --------------------------
(***************************************************************************)
(* The daemon-initialization lock of one canonical PM2_HOME: a directory   *)
(* "<PM2_HOME>.locallink-init.lock" with the holder's pid in owner.json,   *)
(* taken by acquireWorkspaceLock and given back by the function it returns *)
(* (src/runtime/pm2-workspace.ts).  Dashboards, MCP servers and CLI        *)
(* commands are separate operating-system processes; each may have several *)
(* calls in flight, and every file-system call is an await, so the calls   *)
(* interleave between any two of them.                                     *)
(*                                                                         *)
(* Time is counted in units of a Tick: LockTimeout stands for              *)
(* LOCK_TIMEOUT_MS (65 s) and StaleAfter for STALE_LOCK_MS (120 s).        *)
(***************************************************************************)
EXTENDS Naturals, FiniteSets

CONSTANTS
  Calls,        \* invocations of acquireWorkspaceLock
  Procs,        \* operating-system processes (a restart gets a new pid)
  ProcOf,       \* the process a call runs in
  NoOwner,      \* owner.json is absent, empty or not JSON
  LockTimeout,  \* a waiter gives up after this many ticks
  StaleAfter,   \* an ownerless directory older than this is abandoned
  Deaths        \* when a process may end: "quiet" or "any", see Die

ASSUME LockAssumption ==
  /\ ProcOf \in [Calls -> Procs]
  /\ NoOwner \notin Procs
  /\ LockTimeout \in Nat \ {0}
  /\ StaleAfter \in Nat
  /\ LockTimeout < StaleAfter
  /\ Deaths \in {"quiet", "any"}

VARIABLES
  dir,     \* is the lock directory there?
  owner,   \* the pid in owner.json
  age,     \* ticks since the directory's mtime, capped above StaleAfter
  pc,      \* where each call is in acquireWorkspaceLock
  seen,    \* the owner a waiter last read
  waited,  \* ticks since the call's startedAt, capped at LockTimeout
  alive    \* the processes that run

lockVars == <<dir, owner, age, pc, seen, waited, alive>>

Steps == {"idle", "mkdir", "write", "held", "read", "judge", "remove",
          "failed", "dead"}

LockTypeOK ==
  /\ dir \in {"absent", "present"}
  /\ owner \in Procs \cup {NoOwner}
  /\ age \in 0..(StaleAfter + 1)
  /\ pc \in [Calls -> Steps]
  /\ seen \in [Calls -> Procs \cup {NoOwner}]
  /\ waited \in [Calls -> 0..LockTimeout]
  /\ alive \in SUBSET Procs

LockInit ==
  /\ dir = "absent"
  /\ owner = NoOwner
  /\ age = 0
  /\ pc = [c \in Calls |-> "idle"]
  /\ seen = [c \in Calls |-> NoOwner]
  /\ waited = [c \in Calls |-> 0]
  /\ alive = Procs

-----------------------------------------------------------------------------
(* A call in "write" or "held" has made the directory; in "held" the       *)
(* caller has its release function and runs the PM2 operation.             *)
Holds(c) == pc[c] \in {"write", "held"}

Waiting(c) == pc[c] \in {"mkdir", "read", "judge", "remove"}

Goto(c, step) == pc' = [pc EXCEPT ![c] = step]

(* fs.rm(lockPath, { recursive: true, force: true }) *)
RemoveDirectory ==
  /\ dir' = "absent"
  /\ owner' = NoOwner
  /\ age' = 0

(* owner.pid is set and that process no longer answers signal 0. *)
OwnerDead(c) == seen[c] # NoOwner /\ seen[c] \notin alive

(* No pid could be read and the directory has outlived STALE_LOCK_MS. *)
OwnerlessTooLong(c) == seen[c] = NoOwner /\ dir = "present" /\ age > StaleAfter

Request(c) ==
  /\ pc[c] \in {"idle", "failed"}
  /\ Goto(c, "mkdir")
  /\ waited' = [waited EXCEPT ![c] = 0]
  /\ UNCHANGED <<dir, owner, age, seen, alive>>

(* fs.mkdir(lockPath) makes the directory or fails with EEXIST. *)
Mkdir(c) ==
  /\ pc[c] = "mkdir"
  /\ \/ /\ dir = "absent"
        /\ dir' = "present"
        /\ owner' = NoOwner
        /\ age' = 0
        /\ Goto(c, "write")
     \/ /\ dir = "present"
        /\ Goto(c, "read")
        /\ UNCHANGED <<dir, owner, age>>
  /\ UNCHANGED <<seen, waited, alive>>

(* fs.writeFile(ownerPath, ...): into whichever directory is there now, or *)
(* an ENOENT that the caller rethrows when another call removed it.        *)
WriteOwner(c) ==
  /\ pc[c] = "write"
  /\ \/ /\ dir = "present"
        /\ owner' = ProcOf[c]
        /\ age' = IF owner = NoOwner THEN 0 ELSE age
        /\ Goto(c, "held")
        /\ UNCHANGED dir
     \/ /\ dir = "absent"
        /\ Goto(c, "failed")
        /\ UNCHANGED <<dir, owner, age>>
  /\ UNCHANGED <<seen, waited, alive>>

(* readText(ownerPath): no directory and no file both read as no owner. *)
ReadOwner(c) ==
  /\ pc[c] = "read"
  /\ seen' = [seen EXCEPT ![c] = owner]
  /\ Goto(c, "judge")
  /\ UNCHANGED <<dir, owner, age, waited, alive>>

(* A mutant: an ownerless directory counts as abandoned at once. *)
JudgeHasty(c) ==
  /\ pc[c] = "judge"
  /\ \/ (OwnerDead(c) \/ (seen[c] = NoOwner /\ dir = "present")) /\ Goto(c, "remove")
     \/ ~(OwnerDead(c) \/ (seen[c] = NoOwner /\ dir = "present")) /\ Goto(c, "mkdir")
  /\ UNCHANGED <<dir, owner, age, seen, waited, alive>>

(* A mutant: the loop never gives up. *)
JudgePatient(c) ==
  /\ pc[c] = "judge"
  /\ \/ (OwnerDead(c) \/ OwnerlessTooLong(c)) /\ Goto(c, "remove")
     \/ ~(OwnerDead(c) \/ OwnerlessTooLong(c)) /\ Goto(c, "mkdir")
  /\ UNCHANGED <<dir, owner, age, seen, waited, alive>>

(* A mutant: a directory without a readable pid is never abandoned. *)
JudgePidOnly(c) ==
  /\ pc[c] = "judge"
  /\ \/ OwnerDead(c) /\ Goto(c, "remove")
     \/ ~OwnerDead(c) /\ waited[c] >= LockTimeout /\ Goto(c, "failed")
     \/ ~OwnerDead(c) /\ waited[c] < LockTimeout /\ Goto(c, "mkdir")
  /\ UNCHANGED <<dir, owner, age, seen, waited, alive>>

(* fs.stat(lockPath), then without another await: is the owner alive, is   *)
(* the directory too old, has the caller waited too long?  The stale check *)
(* comes before the timeout; otherwise the call sleeps LOCK_WAIT_MS.       *)
Judge(c) ==
  /\ pc[c] = "judge"
  /\ \/ /\ OwnerDead(c) \/ OwnerlessTooLong(c)
        /\ Goto(c, "remove")
     \/ /\ ~(OwnerDead(c) \/ OwnerlessTooLong(c))
        /\ waited[c] >= LockTimeout
        /\ Goto(c, "failed")
     \/ /\ ~(OwnerDead(c) \/ OwnerlessTooLong(c))
        /\ waited[c] < LockTimeout
        /\ Goto(c, "mkdir")
  /\ UNCHANGED <<dir, owner, age, seen, waited, alive>>

(* The stale directory goes, whatever it is by now, and the loop continues. *)
RemoveStale(c) ==
  /\ pc[c] = "remove"
  /\ RemoveDirectory
  /\ Goto(c, "mkdir")
  /\ UNCHANGED <<seen, waited, alive>>

(* The finally block of withPm2WorkspaceLock: no check that the directory  *)
(* is still this caller's.                                                 *)
Release(c) ==
  /\ pc[c] = "held"
  /\ RemoveDirectory
  /\ Goto(c, "idle")
  /\ UNCHANGED <<seen, waited, alive>>

(* Process p ends, by a crash or an ordinary exit.  "quiet": only while it *)
(* holds nothing and no waiter has read its pid without having judged it.  *)
Quiet(p) ==
  \A c \in Calls : /\ ProcOf[c] = p => ~Holds(c)
                   /\ pc[c] = "judge" => seen[c] # p

Die(p) ==
  /\ p \in alive
  /\ Deaths = "any" \/ Quiet(p)
  /\ alive' = alive \ {p}
  /\ pc' = [c \in Calls |-> IF ProcOf[c] = p THEN "dead" ELSE pc[c]]
  /\ UNCHANGED <<dir, owner, age, seen, waited>>

(* Two awaits in a row take less than STALE_LOCK_MS: a live call writes    *)
(* its pid within 120 seconds of its mkdir, and one that read no pid looks *)
(* at the age before a pid written since is 120 seconds old.               *)
Prompt ==
  \A c \in Calls :
    \/ pc[c] = "write"
    \/ pc[c] = "judge" /\ seen[c] = NoOwner /\ owner # NoOwner
    => age < StaleAfter

(* Time passes. *)
Tick ==
  /\ Prompt
  /\ age' = IF dir = "present" /\ age <= StaleAfter THEN age + 1 ELSE age
  /\ waited' = [c \in Calls |->
                  IF Waiting(c) /\ waited[c] < LockTimeout
                  THEN waited[c] + 1 ELSE waited[c]]
  /\ UNCHANGED <<dir, owner, pc, seen, alive>>

Acquire(c) ==
  \/ Mkdir(c) \/ WriteOwner(c) \/ ReadOwner(c) \/ Judge(c) \/ RemoveStale(c)

LockNext ==
  \/ \E c \in Calls : Request(c) \/ Acquire(c) \/ Release(c)
  \/ \E p \in Procs : Die(p)
  \/ Tick

LockSpec == LockInit /\ [][LockNext]_lockVars

(* The event loop runs every pending continuation, a guarded operation     *)
(* ends (each command it runs has a timeout) and the clock advances        *)
(* however often the waiters poll: Prompt only disables Tick now and then. *)
(* Callers are not obliged to ask: the dashboard polls, so Request is fair *)
(* only in LockPollingSpec.                                                *)
LockFairness ==
  /\ SF_lockVars(Tick)
  /\ \A c \in Calls : WF_lockVars(Acquire(c)) /\ WF_lockVars(Release(c))

LockFairSpec == LockSpec /\ LockFairness

LockPollingSpec ==
  LockSpec /\ LockFairness /\ \A c \in Calls : WF_lockVars(Request(c))

-----------------------------------------------------------------------------
(* At most one caller at a time runs under the lock: the acquire loop lets *)
(* lifecycle, status, logs, save and resurrect calls in one by one.        *)
MutualExclusion ==
  \A c, d \in Calls : (Holds(c) /\ Holds(d)) => c = d

(* A holder's directory is there with its pid in it, a directory has a     *)
(* holder, and nobody is about to remove a directory that is in use.       *)
HolderIsRecorded ==
  \A c \in Calls :
    /\ Holds(c) => dir = "present" /\ ProcOf[c] \in alive
    /\ pc[c] = "write" => owner = NoOwner /\ age <= StaleAfter
    /\ pc[c] = "held" => owner = ProcOf[c]

(* A waiter that read no pid has not seen the directory grow old since. *)
OwnerlessIsYoung ==
  \A c \in Calls : pc[c] = "judge" /\ seen[c] = NoOwner => age <= StaleAfter

DirectoryIsHeld == dir = "present" => \E c \in Calls : Holds(c)

NobodyRemoves ==
  \A c \in Calls : /\ pc[c] # "remove"
                   /\ pc[c] = "judge" => seen[c] \in alive \cup {NoOwner}

AbsentIsBlank == dir = "absent" => owner = NoOwner /\ age = 0

OnlyLiveCallsRun == \A c \in Calls : pc[c] # "dead" => ProcOf[c] \in alive

LockInv ==
  /\ MutualExclusion
  /\ HolderIsRecorded
  /\ OwnerlessIsYoung
  /\ DirectoryIsHeld
  /\ NobodyRemoves
  /\ AbsentIsBlank
  /\ OnlyLiveCallsRun

(* A call that starts to wait gets the lock, reports                       *)
(* PM2_WORKSPACE_LOCK_TIMEOUT or ends with its process: the retry loop     *)
(* never spins forever, whoever else keeps taking the lock.                *)
RequestSettles ==
  \A c \in Calls : Waiting(c) ~> ~Waiting(c)

(* A directory that no live call holds, left by a process that ended       *)
(* before or after it wrote its pid, is removed or taken over as long as   *)
(* some process keeps asking.                                              *)
Abandoned == dir = "present" /\ \A c \in Calls : ~Holds(c)

AbandonedLockRecovered ==
  Abandoned ~> (~Abandoned \/ alive = {})
=============================================================================
