---------------------------- MODULE ProcessTree ----------------------------
(***************************************************************************)
(* The operating system's processes as src/src/runtime/pm2.ts sees them: a *)
(* process id, its parent and its start time.  A process id may be reused; *)
(* a start time never is, so the pair identifies a process.  The tree of a *)
(* PM2 entry is captured before the entry is deleted, because its          *)
(* processes are re-parented when their parent ends.                       *)
(***************************************************************************)
EXTENDS Naturals, FiniteSets

CONSTANTS
  Pids,     \* process ids
  NoPid,    \* no process: pid 0 or undefined, init as a parent
  MaxStart  \* bound: how many processes are ever started

ASSUME TreeAssumption == NoPid \notin Pids /\ MaxStart \in Nat

VARIABLES
  startOf,  \* the start time of the process with that pid, 0 when there is none
  parent,   \* its parent
  foreign,  \* the start times of processes that PM2 has nothing to do with
  clock     \* the last start time given

treeVars == <<startOf, parent, foreign, clock>>

Identity == [pid : Pids, parent : Pids \cup {NoPid}, start : 1..MaxStart]

TreeTypeOK ==
  /\ startOf \in [Pids -> 0..MaxStart]
  /\ parent \in [Pids -> Pids \cup {NoPid}]
  /\ foreign \in SUBSET (1..clock)
  /\ clock \in 0..MaxStart

Running(p) == p \in Pids /\ startOf[p] # 0
Foreign(p) == p \in Pids /\ startOf[p] \in foreign

(* The roots and, to any depth, the processes whose parent is among them:  *)
(* the smallest set of running processes that has both.                    *)
Tree(roots) ==
  LET up == {p \in Pids : Running(p)}
      complete(set) == up \cap roots \subseteq set /\ \A p \in up : parent[p] \in set => p \in set
  IN  {p \in up : \A set \in SUBSET up : complete(set) => p \in set}

(* captureObsoletePm2ProcessTree: one reading of the process table. *)
IdentitiesOf(pids) ==
  {[pid |-> p, parent |-> parent[p], start |-> startOf[p]] : p \in pids}

(* A mutant: the pid alone stands for the process. *)
IsCurrentByPid(id) == startOf[id.pid] # 0

(* identityIsCurrent: the pid still belongs to the captured process. *)
IsCurrent(id) == startOf[id.pid] = id.start

Remaining(ids) == {id \in ids : IsCurrent(id)}

(* deepestFirst: those of ids that have no child among them. *)
Deepest(ids) == {id \in ids : \A other \in ids : other.parent # id.pid}

-----------------------------------------------------------------------------
(* A new process gets a free pid and a start time of its own. *)
Start(p, from) ==
  /\ startOf[p] = 0
  /\ clock < MaxStart
  /\ clock' = clock + 1
  /\ startOf' = [startOf EXCEPT ![p] = clock + 1]
  /\ parent' = [parent EXCEPT ![p] = from]

(* The processes with these pids end; their children get a new parent. *)
EndOf(pids) ==
  /\ startOf' = [p \in Pids |-> IF p \in pids THEN 0 ELSE startOf[p]]
  /\ parent' = [p \in Pids |->
                  IF p \in pids \/ parent[p] \in pids THEN NoPid ELSE parent[p]]
  /\ UNCHANGED <<foreign, clock>>
=============================================================================
