--------------------------- MODULE WorkspaceState ---------------------------
(***************************************************************************)
(* WorkspaceStateRepository (src/src/state/workspace-state.ts): the state  *)
(* of a workspace in the memory of each process and in                     *)
(* .locallink/workspace-state.json.  The dashboard, the MCP server and     *)
(* every command make a repository of their own over the one file          *)
(* (cli.ts:252).  An update changes the memory of its process at once,     *)
(* then makes the directory, writes a temporary file named after the       *)
(* process and renames it over the state file; load replaces the memory by *)
(* what the file says, or by the defaults when it says nothing readable.   *)
(*                                                                         *)
(* Every update adds one patch, so a state is the set of patches in it.    *)
(* Files are inodes, because a rename moves the inode that another update  *)
(* of the process may still be writing to.                                 *)
(***************************************************************************)
EXTENDS Naturals, FiniteSets

CONSTANTS
  Processes, \* the processes of the workspace, each with a memory
  Updates,   \* the updates that are asked for
  Overlap,   \* may one begin while its process has another, or a load, in flight?
  MaxLoads,  \* bound: loads of the state file
  MaxCrashes \* bound: ends of processes

ASSUME StateAssumption == Overlap \in BOOLEAN /\ MaxLoads \in Nat /\ MaxCrashes \in Nat

VARIABLES
  memory,    \* this.state of each process
  content,   \* what each inode holds: the patches, or "partial"
  fileNode,  \* the inode of workspace-state.json, 0 for none
  tmpNode,   \* the inode of workspace-state.json.<pid>.tmp of each process
  of,        \* the process each update is asked of
  step,      \* where each update is
  node,      \* the inode it writes to
  text,      \* the serialized state it writes
  loading,   \* what a load in flight has read: <<patches>>, or <<>> when there is none
  loads,     \* loads begun
  crashes

stateVars == <<memory, content, fileNode, tmpNode, of, step, node, text, loading, loads, crashes>>

Nodes == 1..Cardinality(Updates)
UpdateSteps == {"idle", "mkdir", "open", "write", "rename", "ok", "failed", "lost"}

StateInit ==
  /\ memory = [p \in Processes |-> {}]
  /\ content = [n \in Nodes |-> <<{}>>]
  /\ fileNode = 0 /\ tmpNode = [p \in Processes |-> 0]
  /\ of \in [Updates -> Processes]
  /\ step = [u \in Updates |-> "idle"]
  /\ node = [u \in Updates |-> 0]
  /\ text = [u \in Updates |-> {}]
  /\ loading = [p \in Processes |-> <<>>] /\ loads = 0 /\ crashes = 0

-----------------------------------------------------------------------------
InFlight == {u \in Updates : step[u] \in {"mkdir", "open", "write", "rename"}}

Busy(p) == \E u \in InFlight : of[u] = p

At(u, s) == step' = [step EXCEPT ![u] = s]

(* A finished inode holds <<patches>>; a truncated one holds <<>>. *)
Patches(n) == IF n = 0 \/ content[n] = <<>> THEN {} ELSE content[n][1]

(* The patch is merged into this.state before the first await. *)
BeginUpdate(u) ==
  /\ step[u] = "idle"
  /\ Overlap \/ (~Busy(of[u]) /\ loading[of[u]] = <<>>)
  /\ memory' = [memory EXCEPT ![of[u]] = @ \cup {u}]
  /\ At(u, "mkdir")
  /\ UNCHANGED <<content, fileNode, tmpNode, of, node, text, loading, loads, crashes>>

(* After mkdir the state of that moment is serialized for fs.writeFile. *)
SerializeState(u) ==
  /\ step[u] = "mkdir"
  /\ text' = [text EXCEPT ![u] = memory[of[u]]]
  /\ At(u, "open")
  /\ UNCHANGED <<memory, content, fileNode, tmpNode, of, node, loading, loads, crashes>>

(* A mutant: the state file itself is opened and truncated. *)
OpenInPlace(u) ==
  /\ step[u] = "open"
  /\ \E n \in IF fileNode # 0 THEN {fileNode} ELSE Nodes :
       /\ fileNode' = n
       /\ tmpNode' = [tmpNode EXCEPT ![of[u]] = n]
       /\ node' = [node EXCEPT ![u] = n]
       /\ content' = [content EXCEPT ![n] = <<>>]
  /\ At(u, "write")
  /\ UNCHANGED <<memory, of, text, loading, loads, crashes>>

(* Opening truncates the temporary file that is there, or makes one. *)
OpenTemporary(u) ==
  /\ step[u] = "open"
  /\ \E n \in IF tmpNode[of[u]] # 0 THEN {tmpNode[of[u]]}
              ELSE Nodes \ ({fileNode} \cup {node[v] : v \in InFlight}) :
       /\ tmpNode' = [tmpNode EXCEPT ![of[u]] = n]
       /\ node' = [node EXCEPT ![u] = n]
       /\ content' = [content EXCEPT ![n] = <<>>]
  /\ At(u, "write")
  /\ UNCHANGED <<memory, fileNode, of, text, loading, loads, crashes>>

WriteTemporary(u) ==
  /\ step[u] = "write"
  /\ content' = [content EXCEPT ![node[u]] = <<text[u]>>]
  /\ At(u, "rename")
  /\ UNCHANGED <<memory, fileNode, tmpNode, of, node, text, loading, loads, crashes>>

(* ENOENT when another update of the process has renamed it already. *)
RenameTemporary(u) ==
  /\ step[u] = "rename"
  /\ \/ tmpNode[of[u]] # 0 /\ fileNode' = tmpNode[of[u]] /\ At(u, "ok")
     \/ tmpNode[of[u]] = 0 /\ UNCHANGED fileNode /\ At(u, "failed")
  /\ tmpNode' = [tmpNode EXCEPT ![of[u]] = 0]
  /\ node' = [node EXCEPT ![u] = 0]
  /\ UNCHANGED <<memory, content, of, text, loading, loads, crashes>>

(* load reads the file, and then whatever was in memory is replaced. *)
LoadState(p) ==
  /\ loads < MaxLoads /\ loading[p] = <<>>
  /\ Overlap \/ ~Busy(p)
  /\ loading' = [loading EXCEPT ![p] = <<Patches(fileNode)>>]
  /\ loads' = loads + 1
  /\ UNCHANGED <<memory, content, fileNode, tmpNode, of, step, node, text, crashes>>

LoadReturns(p) ==
  /\ loading[p] # <<>>
  /\ memory' = [memory EXCEPT ![p] = loading[p][1]]
  /\ loading' = [loading EXCEPT ![p] = <<>>]
  /\ UNCHANGED <<content, fileNode, tmpNode, of, step, node, text, loads, crashes>>

(* A process ends anywhere and another takes its place and loads the file. *)
(* Its pid, and so its temporary file, is another; the old one stays.      *)
CrashAndLoad(p) ==
  /\ crashes < MaxCrashes
  /\ crashes' = crashes + 1
  /\ memory' = [memory EXCEPT ![p] = Patches(fileNode)]
  /\ tmpNode' = [tmpNode EXCEPT ![p] = 0]
  /\ step' = [u \in Updates |-> IF u \in InFlight /\ of[u] = p THEN "lost" ELSE step[u]]
  /\ node' = [u \in Updates |-> IF of[u] = p THEN 0 ELSE node[u]]
  /\ loading' = [loading EXCEPT ![p] = <<>>]
  /\ UNCHANGED <<content, fileNode, of, text, loads>>

StateNext ==
  \/ \E u \in Updates : \/ BeginUpdate(u) \/ SerializeState(u) \/ OpenTemporary(u)
                        \/ WriteTemporary(u) \/ RenameTemporary(u)
  \/ \E p \in Processes : LoadState(p) \/ LoadReturns(p) \/ CrashAndLoad(p)

StateSpec == StateInit /\ [][StateNext]_stateVars

-----------------------------------------------------------------------------
(* Every inode that is the state file was written to its end. *)
FileIsWhole == fileNode # 0 => content[fileNode] # <<>>

(* The repository is a durable state: wherever processes load or end, and  *)
(* however their steps interleave, the file a reader finds changes only    *)
(* when an update is answered, from one whole state to the whole state of  *)
(* the process that answers.  It is never torn, never mixes two states,    *)
(* and never goes back to what a process that ended was about to write.    *)
Durable == INSTANCE DurableState WITH
  state <- memory,
  seen <- [p \in Processes |-> IF loading[p] = <<>> THEN {} ELSE loading[p][1]],
  durable <- Patches(fileNode),
  answered <- {u \in Updates : step[u] = "ok"}

StateIsDurable == Durable!DurableSpec
=============================================================================
