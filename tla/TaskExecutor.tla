---------------------------- MODULE TaskExecutor ----------------------------
(***************************************************************************)
(* TaskExecutor (src/src/tasks/executor.ts): a lifecycle request starts    *)
(* the service's dependencies depth first, then runs one command through   *)
(* Docker Compose or Task, or, for a PM2 service and under the workspace   *)
(* lock, replaces its entry: capture the process tree, delete the entry,   *)
(* stop what is left of the tree, start, verify.  A second holding of the  *)
(* lock saves PM2's list.  Several requests are in flight at once; every   *)
(* command is an await.                                                    *)
(*                                                                         *)
(* The lock is taken as Pm2Workspace proves it: one caller inside.  Action *)
(* "up" is "start" here and "reload" is "restart".                         *)
(***************************************************************************)
EXTENDS ProcessTree, SequencesExt

CONSTANTS
  Services,       \* the declared services
  Names,          \* names of PM2 entries
  NameOf,         \* a service's display name
  RuntimeNameOf,  \* the name its PM2 entry is started under
  Pm2Services,    \* the services with runtime pm2
  Launchable,     \* those with an ecosystem script or a readable blueprint CMD
  Graphs,         \* the dependsOn declarations a workspace may have
  Calls,          \* requests in flight
  TaskRequests,   \* what each may ask for: an action on a service,
  ListRequests,   \* or to save or resurrect PM2's list
  Nobody,         \* the lock is free
  FirstPid,       \* the pid of an entry that is online at the start
  Attempts        \* bound of the readiness loops (50 in the code)

ASSUME ExecutorAssumption ==
  /\ Pm2Services \subseteq Services
  /\ NameOf \in [Services -> Names] /\ RuntimeNameOf \in [Services -> Names]
  /\ Graphs \subseteq [Services -> Seq(Services)]
  /\ FirstPid \in [Names -> Pids]
  /\ \A m, n \in Names : FirstPid[m] = FirstPid[n] => m = n
  /\ MaxStart > 0
  /\ Nobody \notin Calls
  /\ TaskRequests \in [Calls -> SUBSET [action : {"start", "restart", "stop"}, service : Services]]
  /\ ListRequests \in [Calls -> SUBSET {"save", "resurrect"}]
  /\ Attempts \in Nat \ {0}

VARIABLES
  depends,    \* the dependsOn lists of the workspace
  daemon,     \* does the workspace's PM2 daemon run?
  row,        \* PM2's table: the status and pid of an entry
  saved,      \* the names in PM2's dump file
  lock,       \* the call inside withPm2WorkspaceLock
  pc,         \* where each call is
  stack,      \* the activations of executeResolved: service, action, next dependency
  completed,  \* the set "started" of one execute call
  previous,   \* previousPid
  captured,   \* obsoleteTree
  todo,       \* the part of it that has yet to be signalled
  attempt,    \* passes of the current loop
  result      \* "none", "ok" or "failed"

pm2Vars == <<daemon, row, saved>>
frameVars == <<stack, completed>>
replaceVars == <<previous, captured, todo, attempt>>
vars == <<treeVars, depends, pm2Vars, lock, pc, frameVars, replaceVars, result>>

Absent == [status |-> "absent", pid |-> NoPid]
Statuses == {"absent", "online", "stopped", "errored"}
Guarded == {"inspect", "list", "capture", "delete", "cleanup", "launch",
            "verify", "stop", "save", "resurrect", "reverify"}
Acting == (Guarded \ {"save", "resurrect", "reverify"}) \cup {"preflight", "command", "lock"}

(* The workspace has a daemon with saved entries online, or none and a     *)
(* dump file of an earlier one.                                            *)
Init ==
  /\ depends \in Graphs
  /\ saved \in SUBSET {RuntimeNameOf[s] : s \in Pm2Services}
  /\ daemon \in BOOLEAN
  /\ LET up == IF daemon THEN saved ELSE {} IN
     /\ row = [n \in Names |-> IF n \in up THEN [status |-> "online", pid |-> FirstPid[n]]
                               ELSE Absent]
     /\ startOf = [p \in Pids |-> IF \E n \in up : FirstPid[n] = p THEN 1 ELSE 0]
  /\ parent = [p \in Pids |-> NoPid]
  /\ foreign = {} /\ clock = 1
  /\ lock = Nobody
  /\ pc = [c \in Calls |-> "idle"]
  /\ stack = [c \in Calls |-> <<>>]
  /\ completed = [c \in Calls |-> {}]
  /\ previous = [c \in Calls |-> NoPid]
  /\ captured = [c \in Calls |-> {}]
  /\ todo = [c \in Calls |-> {}]
  /\ attempt = [c \in Calls |-> 0]
  /\ result = [c \in Calls |-> "none"]

-----------------------------------------------------------------------------
Top(c) == Last(stack[c])
StartsService(action) == action = "start"
Activation(s, action) == [service |-> s, action |-> action, next |-> 1]

Goto(c, step) == pc' = [pc EXCEPT ![c] = step]

(* selectPm2Row: the entry under the runtime name, else one under the name. *)
SelectPm2Row(s) ==
  IF row[RuntimeNameOf[s]].status # "absent" THEN row[RuntimeNameOf[s]] ELSE row[NameOf[s]]

Registered == {n \in Names : row[n].status # "absent"}

(* The locals of executePm2 go out of scope. *)
Forget(c) ==
  /\ previous' = [previous EXCEPT ![c] = NoPid]
  /\ captured' = [captured EXCEPT ![c] = {}]
  /\ todo' = [todo EXCEPT ![c] = {}]
  /\ attempt' = [attempt EXCEPT ![c] = 0]

(* The call ends with this result; the finally block gives the lock back. *)
Settle(c, outcome) ==
  /\ Goto(c, "done")
  /\ result' = [result EXCEPT ![c] = outcome]
  /\ lock' = IF lock = c THEN Nobody ELSE lock
  /\ stack' = [stack EXCEPT ![c] = <<>>]
  /\ completed' = [completed EXCEPT ![c] = {}]
  /\ Forget(c)
  /\ UNCHANGED depends

(* A failed or thrown step fails every activation below it. *)
Fail(c) == Settle(c, "failed")

(* The activation answers ok: its service counts as started, and the       *)
(* caller's loop goes on with the next dependency.                         *)
Answer(c) ==
  \/ Len(stack[c]) <= 1 /\ Settle(c, "ok")
  \/ /\ Len(stack[c]) > 1
     /\ Goto(c, "resolve")
     /\ completed' = [completed EXCEPT ![c] =
                        IF StartsService(Top(c).action) THEN @ \cup {Top(c).service} ELSE @]
     /\ stack' = [stack EXCEPT ![c] =
                    LET rest == Front(@) IN [rest EXCEPT ![Len(rest)].next = @ + 1]]
     /\ lock' = IF lock = c THEN Nobody ELSE lock
     /\ Forget(c)
     /\ UNCHANGED <<depends, result>>

(* The guarded operation returned ok: the lock is given back, and another  *)
(* holding of it saves the process list.                                   *)
ThenSave(c) ==
  /\ lock' = Nobody
  /\ Goto(c, "savelock")
  /\ Forget(c)
  /\ UNCHANGED <<depends, frameVars, result>>

kept == <<depends, lock, frameVars, result>>

Quietly(c, step) == Goto(c, step) /\ UNCHANGED <<kept, replaceVars>>

-----------------------------------------------------------------------------
(* execute: the request finds its service in the project model. *)
Request(c) ==
  /\ pc[c] = "idle"
  /\ \E r \in TaskRequests[c] :
       stack' = [stack EXCEPT ![c] = <<Activation(r.service, r.action)>>]
  /\ Goto(c, "resolve")
  /\ UNCHANGED <<treeVars, depends, pm2Vars, lock, completed, replaceVars, result>>

(* executePm2WorkspaceAction asked for on its own. *)
RequestWorkspace(c) ==
  /\ pc[c] = "idle"
  /\ \E action \in ListRequests[c] :
       Goto(c, IF action = "save" THEN "savelock" ELSE "relock")
  /\ UNCHANGED <<treeVars, depends, pm2Vars, lock, stack, completed, replaceVars, result>>

Visiting(c) == {stack[c][i].service : i \in 1..(Len(stack[c]) - 1)}

NextDependency(c) ==
  LET list == depends[Top(c).service] IN
  IF StartsService(Top(c).action) /\ Top(c).next <= Len(list) THEN {list[Top(c).next]} ELSE {}

Enter(c, s) ==
  /\ stack' = [stack EXCEPT ![c] = Append(@, Activation(s, "start"))]
  /\ UNCHANGED <<depends, lock, pc, completed, replaceVars, result>>

(* A mutant: a dependency that was seen counts as started. *)
ResolveSeen(c) ==
  /\ pc[c] = "resolve"
  /\ \/ Top(c).service \in Visiting(c) \cup completed[c] /\ Answer(c)
     \/ /\ Top(c).service \notin Visiting(c) \cup completed[c]
        /\ \/ \E d \in NextDependency(c) : Enter(c, d)
           \/ NextDependency(c) = {} /\ Quietly(c, "preflight")
  /\ UNCHANGED <<treeVars, pm2Vars>>

(* executeResolved: a cycle throws, a service this call has started is     *)
(* done, a dependency comes first, and then the service itself.            *)
Resolve(c) ==
  /\ pc[c] = "resolve"
  /\ \/ Top(c).service \in Visiting(c) /\ Fail(c)
     \/ Top(c).service \in completed[c] \ Visiting(c) /\ Answer(c)
     \/ /\ Top(c).service \notin Visiting(c) \cup completed[c]
        /\ \/ \E d \in NextDependency(c) : Enter(c, d)
           \/ NextDependency(c) = {} /\ Quietly(c, "preflight")
  /\ UNCHANGED <<treeVars, pm2Vars>>

(* runPreflight: only "stop" skips the runtime isolation, which may throw; *)
(* so does "reload" of a service that PM2 does not run.                    *)
Preflight(c) ==
  /\ pc[c] = "preflight"
  /\ \/ Top(c).action # "stop" /\ Fail(c)
     \/ Quietly(c, IF Top(c).service \in Pm2Services THEN "lock" ELSE "command")
  /\ UNCHANGED <<treeVars, pm2Vars>>

(* docker compose, or the first of the two Task names that exists. *)
RunCommand(c) ==
  /\ pc[c] = "command"
  /\ \/ Answer(c)
     \/ Fail(c)
     \/ /\ attempt[c] = 0
        /\ attempt' = [attempt EXCEPT ![c] = 1]
        /\ UNCHANGED <<kept, pc, previous, captured, todo>>
  /\ UNCHANGED <<treeVars, pm2Vars>>

-----------------------------------------------------------------------------
(* withPm2WorkspaceLock lets the caller in or throws: a timeout, a second  *)
(* or unreachable daemon, stale artifacts.                                 *)
TakeLock(c, from, to) ==
  /\ pc[c] = from
  /\ \/ /\ lock = Nobody
        /\ lock' = c
        /\ Goto(c, to)
        /\ UNCHANGED <<depends, frameVars, replaceVars, result>>
     \/ Fail(c)
  /\ UNCHANGED <<treeVars, pm2Vars>>

Lock(c) == TakeLock(c, "lock", "inspect")

(* Without a daemon a stop has nothing to do; the other commands launch    *)
(* one, with an empty table.                                               *)
Inspect(c) ==
  /\ pc[c] = "inspect"
  /\ \/ ~daemon /\ Top(c).action = "stop" /\ ThenSave(c) /\ UNCHANGED daemon
     \/ daemon /\ Top(c).action = "stop" /\ Quietly(c, "stop") /\ UNCHANGED daemon
     \/ Top(c).action # "stop" /\ daemon' = TRUE /\ Quietly(c, "list")
     \/ (daemon \/ Top(c).action # "stop") /\ Fail(c) /\ UNCHANGED daemon
  /\ UNCHANGED <<treeVars, row, saved>>

(* pm2 jlist: an entry that is online satisfies a start; an entry to       *)
(* replace is captured first; without launch information nothing happens.  *)
List(c) ==
  /\ pc[c] = "list"
  /\ LET s == Top(c).service
         existing == SelectPm2Row(s)
         satisfied == StartsService(Top(c).action) /\ existing.status = "online"
     IN  \/ Fail(c)
         \/ satisfied /\ ThenSave(c)
         \/ /\ ~satisfied /\ s \in Launchable
            /\ previous' = [previous EXCEPT ![c] = existing.pid]
            /\ Goto(c, IF existing.status = "absent" THEN "launch" ELSE "capture")
            /\ UNCHANGED <<kept, captured, todo, attempt>>
  /\ UNCHANGED <<treeVars, pm2Vars>>

Capture(c) ==
  /\ pc[c] = "capture"
  /\ captured' = [captured EXCEPT ![c] = IdentitiesOf(Tree({previous[c]}))]
  /\ todo' = [todo EXCEPT ![c] = captured'[c]]
  /\ Goto(c, "delete")
  /\ UNCHANGED <<treeVars, pm2Vars, kept, previous, attempt>>

(* pm2 delete removes the entry and ends as much of its tree as it can, or *)
(* fails, as it does when the name is not registered.                      *)
Delete(c) ==
  /\ pc[c] = "delete"
  /\ LET n == RuntimeNameOf[Top(c).service] IN
     \/ /\ row[n].status # "absent"
        /\ \E ended \in SUBSET Tree({row[n].pid}) : EndOf(ended)
        /\ row' = [row EXCEPT ![n] = Absent]
        /\ Quietly(c, "cleanup")
     \/ Fail(c) /\ UNCHANGED <<treeVars, row>>
  /\ UNCHANGED <<daemon, saved>>

(* stopObsoletePm2ProcessTree: the deepest process that is left gets       *)
(* SIGTERM, then SIGKILL, if it is still the captured one, and may survive *)
(* both.  The check and the signal are one step: a pid is not reused in    *)
(* the instant between them.                                               *)
Signal(c) ==
  /\ pc[c] = "cleanup"
  /\ \E id \in Deepest(todo[c]) :
       /\ todo' = [todo EXCEPT ![c] = @ \ {id}]
       /\ \/ IsCurrent(id) /\ EndOf({id.pid})
          \/ UNCHANGED treeVars
  /\ UNCHANGED <<pm2Vars, kept, pc, previous, captured, attempt>>

(* A mutant: what survives the signals is forgotten. *)
CleanupDoneBlind(c) ==
  /\ pc[c] = "cleanup" /\ todo[c] = {}
  /\ Quietly(c, "launch")
  /\ UNCHANGED <<treeVars, pm2Vars>>

(* "Refusing to replace ... because obsolete descendants are still alive." *)
CleanupDone(c) ==
  /\ pc[c] = "cleanup" /\ todo[c] = {}
  /\ \/ Remaining(captured[c]) = {} /\ Quietly(c, "launch")
     \/ Remaining(captured[c]) # {} /\ Fail(c)
  /\ UNCHANGED <<treeVars, pm2Vars>>

(* pm2 start: a new process under the runtime name, or a failure that      *)
(* leaves no entry or an errored one.                                      *)
Launch(c) ==
  /\ pc[c] = "launch"
  /\ LET n == RuntimeNameOf[Top(c).service] IN
     \/ \E p \in Pids :
          /\ Start(p, NoPid)
          /\ row' = [row EXCEPT ![n] = [status |-> "online", pid |-> p]]
          /\ Quietly(c, "verify")
     \/ /\ row' \in {row, [row EXCEPT ![n] = [status |-> "errored", pid |-> NoPid]]}
        /\ Fail(c)
        /\ UNCHANGED <<startOf, parent, clock>>
  /\ UNCHANGED <<foreign, daemon, saved>>

(* A pass of a readiness loop that proved nothing: wait 200 ms, or stop    *)
(* after the last.                                                         *)
TryAgain(c) ==
  \/ /\ attempt[c] + 1 < Attempts
     /\ attempt' = [attempt EXCEPT ![c] = @ + 1]
     /\ UNCHANGED <<pc, kept, previous, captured, todo>>
  \/ attempt[c] + 1 >= Attempts /\ Fail(c)

(* verifyPm2Replacement: an entry online under another pid, with its port  *)
(* open; an errored or stopped entry ends the loop.                        *)
Verify(c) ==
  /\ pc[c] = "verify"
  /\ LET found == SelectPm2Row(Top(c).service) IN
     \/ found.status = "online" /\ found.pid # previous[c] /\ ThenSave(c)
     \/ found.status \in {"errored", "stopped"} /\ Fail(c)
     \/ found.status \in {"online", "absent"} /\ TryAgain(c)
  /\ UNCHANGED <<treeVars, pm2Vars>>

(* pm2 stop keeps the entry, stopped. *)
Stop(c) ==
  /\ pc[c] = "stop"
  /\ LET n == RuntimeNameOf[Top(c).service] IN
     \/ /\ row[n].status # "absent"
        /\ \E ended \in SUBSET Tree({row[n].pid}) : EndOf(ended)
        /\ row' = [row EXCEPT ![n] = [status |-> "stopped", pid |-> NoPid]]
        /\ ThenSave(c)
     \/ Fail(c) /\ UNCHANGED <<treeVars, row>>
  /\ UNCHANGED <<daemon, saved>>

-----------------------------------------------------------------------------
SaveLock(c) == TakeLock(c, "savelock", "save")

(* A mutant: only a stop is followed by a save. *)
SaveStopsOnly(c) ==
  /\ pc[c] = "save"
  /\ \/ /\ saved' = IF daemon /\ stack[c] # <<>> /\ Top(c).action = "stop"
                    THEN Registered ELSE saved
        /\ Answer(c)
     \/ Fail(c) /\ UNCHANGED saved
  /\ UNCHANGED <<treeVars, daemon, row>>

(* executePm2WorkspaceAction("save"): nothing to do without a daemon; PM2  *)
(* does not save an empty list.                                            *)
Save(c) ==
  /\ pc[c] = "save"
  /\ \/ /\ saved' = IF daemon /\ Registered # {} THEN Registered ELSE saved
        /\ Answer(c)
     \/ daemon /\ Fail(c) /\ UNCHANGED saved
  /\ UNCHANGED <<treeVars, daemon, row>>

(* A mutant: the list is resurrected without the lock. *)
ResurrectUnlocked(c) ==
  pc[c] = "relock" /\ Quietly(c, "resurrect") /\ UNCHANGED <<treeVars, pm2Vars>>

ResurrectLock(c) == TakeLock(c, "relock", "resurrect")

(* The saved entries that are not registered are started, one by one. *)
RestoreEntries(c) ==
  \/ \E n \in saved \ Registered, p \in Pids :
       /\ Start(p, NoPid)
       /\ row' = [row EXCEPT ![n] = [status |-> "online", pid |-> p]]
       /\ UNCHANGED <<kept, pc, replaceVars>>
  \/ \E n \in saved \ Registered :
       /\ row' = [row EXCEPT ![n] = [status |-> "errored", pid |-> NoPid]]
       /\ UNCHANGED <<startOf, parent, clock, kept, pc, replaceVars>>
  \/ /\ saved \subseteq Registered
     /\ Quietly(c, "reverify")
     /\ UNCHANGED <<startOf, parent, clock, row>>

(* pm2 resurrect launches the daemon if need be, then restores its         *)
(* entries, and may fail at any step.                                      *)
Resurrect(c) ==
  /\ pc[c] = "resurrect"
  /\ \/ /\ ~daemon /\ daemon' = TRUE
        /\ UNCHANGED <<startOf, parent, clock, row, kept, pc, replaceVars>>
     \/ daemon /\ UNCHANGED daemon /\ RestoreEntries(c)
     \/ Fail(c) /\ UNCHANGED <<daemon, startOf, parent, clock, row>>
  /\ UNCHANGED <<foreign, saved>>

(* Every entry online and every declared port open, or an errored or       *)
(* stopped entry, or another pass.                                         *)
VerifyResurrected(c) ==
  /\ pc[c] = "reverify"
  /\ LET statuses == {row[n].status : n \in Registered} IN
     \/ statuses \subseteq {"online"} /\ Settle(c, "ok")
     \/ statuses \cap {"errored", "stopped"} # {} /\ Fail(c)
     \/ statuses \subseteq {"online"} /\ TryAgain(c)
  /\ UNCHANGED <<treeVars, pm2Vars>>

-----------------------------------------------------------------------------
outside == <<kept, pc, replaceVars>>

(* External: a process forks; the child of a stranger is one. *)
Fork ==
  /\ \E p, q \in Pids :
       /\ Running(q) /\ Start(p, q)
       /\ foreign' = IF Foreign(q) THEN foreign \cup {clock'} ELSE foreign
  /\ UNCHANGED <<pm2Vars, outside>>

(* The pids somebody is going to act on: those of the captured processes,  *)
(* and the one PM2 has listed, until its tree is captured.                 *)
Watched ==
  {id.pid : id \in UNION {captured[c] : c \in Calls}}
    \cup {p \in Pids : \E c \in Calls : pc[c] = "capture" /\ previous[c] = p}

(* External: somebody else's process gets the pid of a process that ended; *)
(* on any other pid nobody would look at it.                               *)
ForeignStarts ==
  /\ \E p \in Watched : Start(p, NoPid)
  /\ foreign' = foreign \cup {clock'}
  /\ UNCHANGED <<pm2Vars, outside>>

(* External: a process ends; PM2 sees it when it is an entry's. *)
ProcessEnds ==
  /\ \E p \in Pids :
       /\ Running(p)
       /\ EndOf({p})
       /\ row' = [n \in Names |-> IF row[n].pid = p
                                  THEN [status |-> "errored", pid |-> NoPid] ELSE row[n]]
  /\ UNCHANGED <<daemon, saved, outside>>

(* External: the daemon ends, and its processes with it or none of them.   *)
(* Not under a caller, see Pm2Workspace.                                   *)
DaemonEnds ==
  /\ daemon /\ lock = Nobody
  /\ daemon' = FALSE
  /\ row' = [n \in Names |-> Absent]
  /\ \E ended \in {{}, Tree({row[n].pid : n \in Names})} : EndOf(ended)
  /\ UNCHANGED <<saved, outside>>

CallStep(c) ==
  \/ Resolve(c) \/ Preflight(c) \/ RunCommand(c) \/ Lock(c) \/ Inspect(c)
  \/ List(c) \/ Capture(c) \/ Delete(c) \/ Signal(c) \/ CleanupDone(c)
  \/ Launch(c) \/ Verify(c) \/ Stop(c) \/ SaveLock(c) \/ Save(c)
  \/ ResurrectLock(c) \/ Resurrect(c) \/ VerifyResurrected(c)

Next ==
  \/ \E c \in Calls : Request(c) \/ RequestWorkspace(c) \/ CallStep(c)
  \/ Fork \/ ForeignStarts \/ ProcessEnds \/ DaemonEnds

Spec == Init /\ [][Next]_vars

-----------------------------------------------------------------------------
(* All a service needs, directly or not: the smallest set that has what it *)
(* declares and what its members declare.                                  *)
Upstream(s) ==
  {d \in Services :
     \A set \in SUBSET Services :
       ToSet(depends[s]) \subseteq set /\ (\A x \in set : ToSet(depends[x]) \subseteq set) => d \in set}

(* Whatever the declarations, the command of a service that is to start    *)
(* runs only after all it needs, directly or not, has been started by the  *)
(* same request, and once per request; so none on a cycle is ever started. *)
DependenciesFirst ==
  \A c \in Calls :
    pc[c] \in Acting /\ StartsService(Top(c).action) =>
      /\ Upstream(Top(c).service) \subseteq completed[c]
      /\ Top(c).service \notin completed[c]

(* A replacement is launched, and reported ready, only when no process     *)
(* that was captured under the old entry still runs.                       *)
ObsoleteTreeGone ==
  \A c \in Calls : pc[c] \in {"launch", "verify"} => Remaining(captured[c]) = {}

(* The pid that PM2 listed had changed hands when its tree was captured.   *)
TakenOver(c) == \E id \in captured[c] : id.pid = previous[c] /\ id.start \in foreign

(* Stopping an obsolete tree never ends a process that PM2 has nothing to  *)
(* do with, though pids that were captured get reused and the strangers    *)
(* fork.  It may only where the listed pid itself had changed hands before *)
(* the capture, which takes the stranger's tree for the entry's.           *)
ForeignSpared ==
  [][\A c \in Calls : todo'[c] # todo[c] /\ ~TakenOver(c) =>
       \A p \in Pids : Foreign(p) => startOf'[p] = startOf[p]]_vars

(* When every request that was made has answered ok, a restart of the      *)
(* daemon restores exactly what is registered: the save of one request     *)
(* never leaves out what another did between its command and its save.     *)
SavedListCurrent ==
  /\ \A c \in Calls : pc[c] = "idle" \/ result[c] = "ok"
  /\ daemon /\ Registered # {}
  => saved = Registered

(* Requests keep the guard that Pm2Workspace implements, and rely on no    *)
(* more: whoever launches the daemon is inside, alone and finds none, and  *)
(* every way out of a guarded operation leaves the guard.                  *)
TaskGuard == INSTANCE DaemonGuard WITH inside <- lock,
  running <- IF daemon THEN 1 ELSE 0, strain <- FALSE

TasksKeepGuard == TaskGuard!GuardSpec
=============================================================================
