---------------------------- MODULE DurableState ----------------------------
(***************************************************************************)
(* What the state file of a workspace is to the processes that share it    *)
(* (src/src/state/workspace-state.ts): the dashboard, the MCP server and   *)
(* every command keep a state of their own.  An update joins the state of  *)
(* its process at once, and is answered by the one write that makes the    *)
(* whole state of that process, as it is then, what a reader of the file   *)
(* finds.  Nothing but such an answer changes the file, so an answered     *)
(* update leaves it only by the answer of a process whose state has not    *)
(* taken it in: the file is last-writer-wins, and no process looks at it   *)
(* before it writes.                                                       *)
(***************************************************************************)
CONSTANTS Updates, Processes

VARIABLES
  state,     \* the updates a request of each process sees
  seen,      \* what a load of the process has read and not yet taken in
  durable,   \* the updates a reader of the state file finds
  answered   \* the updates whose request was answered

durableVars == <<state, seen, durable, answered>>

DurableInit ==
  /\ state = [p \in Processes |-> {}] /\ seen = [p \in Processes |-> {}]
  /\ durable = {} /\ answered = {}

Ask(p, u) ==
  /\ state' = [state EXCEPT ![p] = @ \cup {u}]
  /\ UNCHANGED <<seen, durable, answered>>

Persist(p, u) ==
  /\ u \in state[p] \ answered
  /\ durable' = state[p]
  /\ answered' = answered \cup {u}
  /\ UNCHANGED <<state, seen>>

Look(p) ==
  /\ seen' = [seen EXCEPT ![p] = durable]
  /\ UNCHANGED <<state, durable, answered>>

TakeIn(p) ==
  /\ state' = [state EXCEPT ![p] = seen[p]]
  /\ seen' = [seen EXCEPT ![p] = {}]
  /\ UNCHANGED <<durable, answered>>

Start(p) ==
  /\ state' = [state EXCEPT ![p] = durable]
  /\ seen' = [seen EXCEPT ![p] = {}]
  /\ UNCHANGED <<durable, answered>>

DurableNext ==
  \E p \in Processes : \/ Look(p) \/ TakeIn(p) \/ Start(p)
                       \/ \E u \in Updates : Ask(p, u) \/ Persist(p, u)

DurableSpec == DurableInit /\ [][DurableNext]_durableVars
=============================================================================
