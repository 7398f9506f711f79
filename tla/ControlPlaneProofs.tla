------------------------- MODULE ControlPlaneProofs -------------------------
(***************************************************************************)
(* Proofs about the parts of the control plane: WorkspaceState for any     *)
(* processes, updates, loads and crashes, when the updates of one process  *)
(* do not overlap; PortReservations for any ports, requests, restarts and  *)
(* other processes; RuntimeDescriptor for any number of dashboards and     *)
(* commands; LiveLogs for any number of clients, entries and limits.       *)
(***************************************************************************)
EXTENDS WorkspaceState, PortReservations, RuntimeDescriptor, LiveLogs, FiniteSetTheorems,
        SequenceTheorems, TLAPS

USE StateAssumption

-----------------------------------------------------------------------------
(* What an inode or a load holds: one set of patches, or nothing. *)
Texts == {<<>>} \cup {<<patches>> : patches \in SUBSET Updates}

LEMMA TextType ==
  /\ \A patches \in SUBSET Updates : /\ <<patches>> \in Texts
                                     /\ <<patches>> # <<>> /\ <<patches>>[1] = patches
  /\ \A t \in Texts : t # <<>> => t[1] \in SUBSET Updates
  /\ <<>> \in Texts
BY DEF Texts

LEMMA NodeType == 0 \notin Nodes
BY DEF Nodes

FlyingSteps == {"mkdir", "open", "write", "rename"}
WritingSteps == {"write", "rename"}

StateTypeOK ==
  /\ memory \in [Processes -> SUBSET Updates]
  /\ content \in [Nodes -> Texts]
  /\ fileNode \in Nodes \cup {0} /\ tmpNode \in [Processes -> Nodes \cup {0}]
  /\ of \in [Updates -> Processes]
  /\ step \in [Updates -> UpdateSteps]
  /\ node \in [Updates -> Nodes \cup {0}]
  /\ text \in [Updates -> SUBSET Updates]
  /\ loading \in [Processes -> Texts]

(* An update in flight has its patch in the memory of its process, writes  *)
(* what that memory is, and writes it to the process's temporary file.     *)
Flies(u) ==
  step[u] \in FlyingSteps =>
    /\ loading[of[u]] = <<>> /\ u \in memory[of[u]]
    /\ step[u] # "mkdir" => text[u] = memory[of[u]]
    /\ step[u] \in WritingSteps => node[u] = tmpNode[of[u]] /\ node[u] # 0
    /\ step[u] = "rename" => content[node[u]] = <<text[u]>>

Alone ==
  \A u, v \in Updates :
    step[u] \in FlyingSteps /\ step[v] \in FlyingSteps /\ of[u] = of[v] => u = v

(* A temporary file is there while its process writes it, and no other     *)
(* process's, nor the state file, is the same inode.                       *)
Written == \A p \in Processes :
  tmpNode[p] # 0 => \E u \in Updates : of[u] = p /\ step[u] \in WritingSteps

Apart ==
  \A u \in Updates : step[u] \in WritingSteps =>
    /\ node[u] # fileNode
    /\ \A v \in Updates : step[v] \in WritingSteps /\ node[v] = node[u] => u = v

StateInv ==
  /\ StateTypeOK /\ Alone
  /\ \A u \in Updates : Flies(u)
  /\ Written /\ Apart
  /\ FileIsWhole

LEMMA PatchesType ==
  ASSUME StateTypeOK
  PROVE  Patches(fileNode) \in SUBSET Updates
BY TextType DEF StateTypeOK, Patches

LEMMA SameFile ==
  ASSUME UNCHANGED fileNode, fileNode # 0 => content'[fileNode] = content[fileNode]
  PROVE  Patches(fileNode)' = Patches(fileNode) /\ (FileIsWhole => FileIsWhole')
BY DEF Patches, FileIsWhole

-----------------------------------------------------------------------------
LEMMA BeginStep ==
  ASSUME ~Overlap, StateInv, NEW u \in Updates, BeginUpdate(u)
  PROVE  StateInv'
<1> USE DEF StateInv, StateTypeOK
<1>1. /\ step[u] = "idle" /\ loading[of[u]] = <<>> /\ of[u] \in Processes
      /\ \A v \in Updates : of[v] = of[u] => step[v] \notin FlyingSteps
      /\ memory' = [memory EXCEPT ![of[u]] = @ \cup {u}] /\ step' = [step EXCEPT ![u] = "mkdir"]
      /\ UNCHANGED <<content, fileNode, tmpNode, of, node, text, loading>>
  BY DEF BeginUpdate, Busy, InFlight, At, FlyingSteps
<1>2. /\ step'[u] = "mkdir" /\ \A v \in Updates \ {u} : step'[v] = step[v]
      /\ memory'[of[u]] = memory[of[u]] \cup {u}
      /\ \A p \in Processes \ {of[u]} : memory'[p] = memory[p]
  BY <1>1
<1>3. StateTypeOK'
  BY <1>1 DEF UpdateSteps
<1>4. Alone' /\ \A v \in Updates : Flies(v)'
  BY <1>1, <1>2 DEF Alone, Flies, FlyingSteps, WritingSteps
<1>5. Written' /\ Apart'
  BY <1>1, <1>2 DEF Written, Apart, WritingSteps
<1>6. FileIsWhole'
  BY <1>1, SameFile
<1> QED
  BY <1>3, <1>4, <1>5, <1>6

LEMMA SerializeStep ==
  ASSUME StateInv, NEW u \in Updates, SerializeState(u)
  PROVE  StateInv'
<1> USE DEF StateInv, StateTypeOK
<1>1. /\ step[u] = "mkdir" /\ step' = [step EXCEPT ![u] = "open"]
      /\ text' = [text EXCEPT ![u] = memory[of[u]]] /\ memory[of[u]] \in SUBSET Updates
      /\ UNCHANGED <<memory, content, fileNode, tmpNode, of, node, loading>>
  BY DEF SerializeState, At
<1>2. /\ step'[u] = "open" /\ text'[u] = memory[of[u]]
      /\ \A v \in Updates \ {u} : step'[v] = step[v] /\ text'[v] = text[v]
  BY <1>1
<1>3. StateTypeOK'
  BY <1>1 DEF UpdateSteps
<1>4. Alone' /\ \A v \in Updates : Flies(v)'
  BY <1>1, <1>2 DEF Alone, Flies, FlyingSteps, WritingSteps
<1>5. Written' /\ Apart'
  BY <1>1, <1>2 DEF Written, Apart, WritingSteps
<1>6. FileIsWhole'
  BY <1>1, SameFile
<1> QED
  BY <1>3, <1>4, <1>5, <1>6

LEMMA OpenStep ==
  ASSUME StateInv, NEW u \in Updates, OpenTemporary(u)
  PROVE  /\ StateInv'
         /\ fileNode # 0 => content'[fileNode] = content[fileNode]
<1> USE DEF StateInv, StateTypeOK
<1>1. /\ step[u] = "open" /\ step' = [step EXCEPT ![u] = "write"] /\ of[u] \in Processes
      /\ UNCHANGED <<memory, fileNode, of, text, loading>>
  BY DEF OpenTemporary, At
<1>2. tmpNode[of[u]] = 0
  BY <1>1 DEF Written, Alone, FlyingSteps, WritingSteps
<1>3. PICK n \in Nodes \ ({fileNode} \cup {node[v] : v \in InFlight}) :
        /\ tmpNode' = [tmpNode EXCEPT ![of[u]] = n] /\ node' = [node EXCEPT ![u] = n]
        /\ content' = [content EXCEPT ![n] = <<>>]
  BY <1>2 DEF OpenTemporary
<1>4. /\ n # 0 /\ n # fileNode
      /\ fileNode # 0 => content'[fileNode] = content[fileNode]
      /\ \A v \in Updates : step[v] \in WritingSteps => node[v] # n
  BY <1>3, NodeType DEF InFlight, WritingSteps
<1>5. /\ step'[u] = "write" /\ node'[u] = n /\ tmpNode'[of[u]] = n
      /\ \A v \in Updates \ {u} : step'[v] = step[v] /\ node'[v] = node[v]
      /\ \A p \in Processes \ {of[u]} : tmpNode'[p] = tmpNode[p]
      /\ \A m \in Nodes \ {n} : content'[m] = content[m]
  BY <1>1, <1>3
<1>6. StateTypeOK'
  BY <1>1, <1>3, TextType DEF UpdateSteps
<1>7. Alone'
  BY <1>1, <1>5 DEF Alone, FlyingSteps
<1>8. ASSUME NEW v \in Updates PROVE Flies(v)'
  <2>1. CASE v = u
    BY <1>1, <1>4, <1>5, <2>1 DEF Flies, FlyingSteps, WritingSteps
  <2>2. CASE v # u
    <3>1. step[v] \in FlyingSteps => of[v] # of[u]
      BY <1>1, <2>2 DEF Alone, FlyingSteps
    <3>2. step[v] \in WritingSteps => node[v] \in Nodes \ {n}
      BY <1>4 DEF Flies, FlyingSteps, WritingSteps
    <3> QED
      BY <1>1, <1>5, <2>2, <3>1, <3>2 DEF Flies, FlyingSteps, WritingSteps
  <2> QED
    BY <2>1, <2>2
<1>9. Written' /\ Apart'
  BY <1>1, <1>4, <1>5 DEF Written, Apart, WritingSteps
<1>10. FileIsWhole'
  BY <1>1, <1>4, SameFile
<1> QED
  BY <1>4, <1>6, <1>7, <1>8, <1>9, <1>10

LEMMA WriteStep ==
  ASSUME StateInv, NEW u \in Updates, WriteTemporary(u)
  PROVE  /\ StateInv'
         /\ fileNode # 0 => content'[fileNode] = content[fileNode]
<1> USE DEF StateInv, StateTypeOK
<1>1. /\ step[u] = "write" /\ step' = [step EXCEPT ![u] = "rename"]
      /\ content' = [content EXCEPT ![node[u]] = <<text[u]>>]
      /\ UNCHANGED <<memory, fileNode, tmpNode, of, node, text, loading>>
  BY DEF WriteTemporary, At
<1>2. node[u] \in Nodes /\ node[u] # fileNode
  BY <1>1 DEF Flies, FlyingSteps, WritingSteps, Apart
<1>3. /\ step'[u] = "rename" /\ content'[node[u]] = <<text[u]>>
      /\ \A v \in Updates \ {u} : step'[v] = step[v]
      /\ \A v \in Updates \ {u} : step[v] \in WritingSteps => node[v] # node[u]
      /\ \A m \in Nodes \ {node[u]} : content'[m] = content[m]
  BY <1>1, <1>2 DEF Apart, WritingSteps
<1>4. fileNode # 0 => content'[fileNode] = content[fileNode]
  BY <1>2, <1>3
<1>5. StateTypeOK'
  BY <1>1, <1>2, TextType DEF UpdateSteps
<1>6. Alone'
  BY <1>1, <1>3 DEF Alone, FlyingSteps
<1>7. ASSUME NEW v \in Updates PROVE Flies(v)'
  BY <1>1, <1>3 DEF Flies, FlyingSteps, WritingSteps
<1>8. Written' /\ Apart'
  BY <1>1, <1>3 DEF Written, Apart, WritingSteps
<1>9. FileIsWhole'
  BY <1>1, <1>4, SameFile
<1> QED
  BY <1>4, <1>5, <1>6, <1>7, <1>8, <1>9

LEMMA RenameStep ==
  ASSUME StateInv, NEW u \in Updates, RenameTemporary(u)
  PROVE  /\ StateInv'
         /\ At(u, "ok") /\ step[u] = "rename" /\ u \in memory[of[u]]
         /\ Patches(fileNode)' = memory[of[u]]
<1> USE DEF StateInv, StateTypeOK
<1>1. /\ step[u] = "rename" /\ tmpNode' = [tmpNode EXCEPT ![of[u]] = 0]
      /\ node' = [node EXCEPT ![u] = 0] /\ of[u] \in Processes
      /\ UNCHANGED <<memory, content, of, text, loading>>
  BY DEF RenameTemporary
<1>2. /\ u \in memory[of[u]] /\ text[u] = memory[of[u]] /\ node[u] = tmpNode[of[u]]
      /\ node[u] # 0 /\ content[node[u]] = <<memory[of[u]]>>
  BY <1>1 DEF Flies, FlyingSteps, WritingSteps
<1>3. fileNode' = node[u] /\ At(u, "ok")
  BY <1>2 DEF RenameTemporary
<1>4. /\ step'[u] = "ok" /\ \A v \in Updates \ {u} : step'[v] = step[v] /\ node'[v] = node[v]
      /\ tmpNode'[of[u]] = 0 /\ \A p \in Processes \ {of[u]} : tmpNode'[p] = tmpNode[p]
  BY <1>1, <1>3 DEF At
<1>5. StateTypeOK'
  BY <1>1, <1>3 DEF UpdateSteps, At
<1>6. Alone'
  BY <1>1, <1>4 DEF Alone, FlyingSteps
<1>7. ASSUME NEW v \in Updates PROVE Flies(v)'
  <2>1. step[v] \in FlyingSteps /\ v # u => of[v] # of[u]
    BY <1>1 DEF Alone, FlyingSteps
  <2> QED
    BY <1>1, <1>4, <2>1 DEF Flies, FlyingSteps, WritingSteps
<1>8. Written' /\ Apart'
  BY <1>1, <1>3, <1>4 DEF Written, Apart, WritingSteps
<1>9. memory[of[u]] \in SUBSET Updates
  BY <1>1
<1>10. <<memory[of[u]]>> # <<>> /\ <<memory[of[u]]>>[1] = memory[of[u]]
  BY <1>9, TextType
<1>11. Patches(fileNode)' = memory[of[u]] /\ FileIsWhole'
  BY <1>1, <1>2, <1>3, <1>10 DEF Patches, FileIsWhole
<1> QED
  BY <1>1, <1>2, <1>3, <1>5, <1>6, <1>7, <1>8, <1>11

LEMMA LoadStep ==
  ASSUME ~Overlap, StateInv, NEW p \in Processes, LoadState(p) \/ LoadReturns(p)
  PROVE  StateInv'
<1> USE DEF StateInv, StateTypeOK
<1>1. UNCHANGED <<content, fileNode, tmpNode, of, step, node, text>>
  BY DEF LoadState, LoadReturns
<1>2. FileIsWhole' /\ Patches(fileNode) \in SUBSET Updates
  BY <1>1, SameFile, PatchesType
<1>3. \A v \in Updates : of[v] = p => step[v] \notin FlyingSteps
  BY DEF LoadState, LoadReturns, Busy, InFlight, Flies, FlyingSteps
<1>4. /\ memory' \in [Processes -> SUBSET Updates] /\ loading' \in [Processes -> Texts]
      /\ \A q \in Processes \ {p} : memory'[q] = memory[q] /\ loading'[q] = loading[q]
  <2>1. CASE LoadState(p)
    BY <1>2, <2>1, TextType DEF LoadState
  <2>2. CASE LoadReturns(p)
    <3>1. loading[p][1] \in SUBSET Updates
      BY <2>2, TextType DEF LoadReturns
    <3> QED
      BY <2>2, <3>1, TextType DEF LoadReturns
  <2> QED
    BY <2>1, <2>2
<1>5. \A v \in Updates : Flies(v)'
  BY <1>1, <1>3, <1>4 DEF Flies
<1> QED
  BY <1>1, <1>2, <1>4, <1>5 DEF Alone, Written, Apart

LEMMA CrashStep ==
  ASSUME StateInv, NEW p \in Processes, CrashAndLoad(p)
  PROVE  StateInv'
<1> USE DEF StateInv, StateTypeOK
<1>1. /\ memory' = [memory EXCEPT ![p] = Patches(fileNode)]
      /\ tmpNode' = [tmpNode EXCEPT ![p] = 0] /\ loading' = [loading EXCEPT ![p] = <<>>]
      /\ node' = [u \in Updates |-> IF of[u] = p THEN 0 ELSE node[u]]
      /\ step' = [u \in Updates |-> IF u \in InFlight /\ of[u] = p THEN "lost" ELSE step[u]]
      /\ UNCHANGED <<content, fileNode, of, text>>
  BY DEF CrashAndLoad
<1>2. FileIsWhole' /\ Patches(fileNode) \in SUBSET Updates
  BY <1>1, SameFile, PatchesType
<1>3. /\ \A u \in Updates : of[u] = p => step'[u] \notin FlyingSteps
      /\ \A u \in Updates : of[u] # p => step'[u] = step[u] /\ node'[u] = node[u]
      /\ \A q \in Processes \ {p} : /\ memory'[q] = memory[q] /\ loading'[q] = loading[q]
                                    /\ tmpNode'[q] = tmpNode[q]
      /\ tmpNode'[p] = 0
  BY <1>1 DEF InFlight, FlyingSteps
<1>4. StateTypeOK'
  BY <1>1, <1>2, TextType DEF UpdateSteps
<1>5. Alone' /\ \A u \in Updates : Flies(u)'
  BY <1>1, <1>3 DEF Alone, Flies, FlyingSteps, WritingSteps
<1>6. Written' /\ Apart'
  BY <1>1, <1>3 DEF Written, Apart, FlyingSteps, WritingSteps
<1> QED
  BY <1>2, <1>4, <1>5, <1>6

LEMMA StateInvariance == ~Overlap => (StateSpec => []StateInv)
<1> SUFFICES ASSUME ~Overlap PROVE StateSpec => []StateInv
  OBVIOUS
<1>1. StateInit => StateInv
  <2> SUFFICES ASSUME StateInit PROVE StateInv
    OBVIOUS
  <2>1. StateTypeOK
    BY TextType DEF StateInit, StateTypeOK, UpdateSteps
  <2> QED
    BY <2>1 DEF StateInit, StateInv, Alone, Flies, FlyingSteps, WritingSteps, Written, Apart, FileIsWhole
<1>2. StateInv /\ [StateNext]_stateVars => StateInv'
  <2> SUFFICES ASSUME StateInv, [StateNext]_stateVars PROVE StateInv'
    OBVIOUS
  <2>1. CASE StateNext
    BY <2>1, BeginStep, SerializeStep, OpenStep, WriteStep, RenameStep, LoadStep, CrashStep
       DEF StateNext
  <2>2. CASE UNCHANGED stateVars
    BY <2>2 DEF stateVars, StateInv, StateTypeOK, Alone, Flies, Written, Apart, FileIsWhole
  <2> QED
    BY <2>1, <2>2
<1> QED
  BY <1>1, <1>2, PTL DEF StateSpec

(* When the updates of each process do not overlap one another, the        *)
(* repository is a durable state however processes interleave, load and    *)
(* end: the file changes only when an update is answered, to the whole     *)
(* state of the process that answers (WorkspaceStateRepository.update and  *)
(* load).                                                                  *)
THEOREM StateImplementsDurable == ~Overlap => (StateSpec => StateIsDurable)
<1> SUFFICES ASSUME ~Overlap PROVE StateSpec => StateIsDurable
  OBVIOUS
<1> DEFINE Answered == {u \in Updates : step[u] = "ok"}
           Seen == [p \in Processes |-> IF loading[p] = <<>> THEN {} ELSE loading[p][1]]
           Good == [Durable!DurableNext]_(Durable!durableVars)
<1>1. StateInit => Durable!DurableInit
  BY DEF StateInit, Durable!DurableInit, Patches
<1>2. ASSUME StateInv, [StateNext]_stateVars PROVE Good
  <2> USE DEF Durable!DurableNext, Durable!durableVars, Durable!Ask, Durable!Persist, Durable!Look,
              Durable!TakeIn, Durable!Start
  <2>s. /\ step \in [Updates -> UpdateSteps] /\ of \in [Updates -> Processes]
        /\ loading \in [Processes -> Texts] /\ memory \in [Processes -> SUBSET Updates]
        /\ Patches(fileNode) \in SUBSET Updates
    BY <1>2, PatchesType DEF StateInv, StateTypeOK
  <2>1. ASSUME UNCHANGED <<memory, loading, fileNode>>, Patches(fileNode)' = Patches(fileNode),
               Answered' = Answered
        PROVE  Good
    BY <2>1
  <2>2. ASSUME NEW u \in Updates, NEW s, At(u, s), step[u] # "ok", s # "ok" PROVE Answered' = Answered
    BY <2>s, <2>2 DEF At
  <2>3. ASSUME NEW u \in Updates, BeginUpdate(u) PROVE Good
    <3>1. /\ memory' = [memory EXCEPT ![of[u]] = @ \cup {u}] /\ loading' = loading
          /\ Patches(fileNode)' = Patches(fileNode)
      BY <2>3 DEF BeginUpdate, Patches
    <3>2. Answered' = Answered
      BY <2>2, <2>3 DEF BeginUpdate
    <3>3. of[u] \in Processes
      BY <2>s
    <3> QED
      BY <3>1, <3>2, <3>3
  <2>4. ASSUME NEW u \in Updates, SerializeState(u) PROVE Good
    BY <2>1, <2>2, <2>4 DEF SerializeState, Patches
  <2>5. ASSUME NEW u \in Updates, OpenTemporary(u) PROVE Good
    BY <1>2, <2>1, <2>2, <2>5, OpenStep, SameFile DEF OpenTemporary
  <2>6. ASSUME NEW u \in Updates, WriteTemporary(u) PROVE Good
    BY <1>2, <2>1, <2>2, <2>6, WriteStep, SameFile DEF WriteTemporary
  <2>7. ASSUME NEW u \in Updates, RenameTemporary(u) PROVE Good
    <3>1. /\ At(u, "ok") /\ step[u] = "rename" /\ u \in memory[of[u]]
          /\ Patches(fileNode)' = memory[of[u]]
      BY <1>2, <2>7, RenameStep
    <3>2. UNCHANGED <<memory, loading>> /\ of[u] \in Processes
      BY <2>7, <2>s DEF RenameTemporary
    <3>3. Answered' = Answered \cup {u} /\ u \notin Answered
      BY <2>s, <3>1 DEF At
    <3> QED
      BY <3>1, <3>2, <3>3
  <2>8. ASSUME NEW p \in Processes, LoadState(p) PROVE Good
    <3>1. /\ loading' = [loading EXCEPT ![p] = <<Patches(fileNode)>>] /\ UNCHANGED <<memory, step>>
          /\ Patches(fileNode)' = Patches(fileNode)
      BY <2>8 DEF LoadState, Patches
    <3>2. <<Patches(fileNode)>> # <<>> /\ <<Patches(fileNode)>>[1] = Patches(fileNode)
      BY <2>s, TextType
    <3>3. Seen' = [Seen EXCEPT ![p] = Patches(fileNode)]
      BY <2>s, <3>1, <3>2
    <3> QED
      BY <3>1, <3>3
  <2>9. ASSUME NEW p \in Processes, LoadReturns(p) PROVE Good
    <3>1. /\ memory' = [memory EXCEPT ![p] = loading[p][1]] /\ loading' = [loading EXCEPT ![p] = <<>>]
          /\ loading[p] # <<>> /\ UNCHANGED step /\ Patches(fileNode)' = Patches(fileNode)
      BY <2>9 DEF LoadReturns, Patches
    <3>2. Seen' = [Seen EXCEPT ![p] = {}] /\ Seen[p] = loading[p][1]
      BY <2>s, <3>1
    <3> QED
      BY <3>1, <3>2
  <2>10. ASSUME NEW p \in Processes, CrashAndLoad(p) PROVE Good
    <3>1. Answered' = Answered
      BY <2>10 DEF CrashAndLoad, InFlight
    <3>2. /\ memory' = [memory EXCEPT ![p] = Patches(fileNode)]
          /\ loading' = [loading EXCEPT ![p] = <<>>] /\ Patches(fileNode)' = Patches(fileNode)
      BY <2>10 DEF CrashAndLoad, Patches
    <3>3. Seen' = [Seen EXCEPT ![p] = {}]
      BY <2>s, <3>2
    <3> QED
      BY <3>1, <3>2, <3>3
  <2>11. CASE UNCHANGED stateVars
    BY <2>1, <2>11 DEF stateVars, Patches
  <2> QED
    BY <1>2, <2>3, <2>4, <2>5, <2>6, <2>7, <2>8, <2>9, <2>10, <2>11 DEF StateNext
<1> QED
  BY <1>1, <1>2, StateInvariance, PTL DEF StateSpec, StateIsDurable, Durable!DurableSpec

-----------------------------------------------------------------------------
USE PortAssumption

-----------------------------------------------------------------------------
Status == {"none", "reserved", "conflict", "released"}
AskSteps == {"idle", "bind", "record", "done", "failed"}
Record == [id : Nat, port : Ports \cup {0}, status : Status]

PortTypeOK ==
  /\ held \in SUBSET Ports /\ taken \in SUBSET Ports
  /\ records \in [Asks -> Record] /\ saved \in [Asks -> Record] /\ clock \in Nat \ {0}
  /\ asked \in [Asks -> AskSteps]
  /\ chosen \in [Asks -> Ports \cup {0}]
  /\ starts \in Nat /\ others \in Nat
  /\ reclaim \in SUBSET Asks

(* Requests are served once all reservations are reclaimed. *)
Waits(a) == reclaim # {} => asked[a] \notin {"bind", "record"}

(* A record is written once, when its request ends; only it is reclaimed.  *)
Settled(a) ==
  /\ a \in reclaim => records[a].status \in {"reserved", "conflict"}
  /\ asked[a] \in {"bind", "record"} => chosen[a] \in Ports
  /\ asked[a] \in {"idle", "bind", "record"} => records[a].status = "none"
  /\ IF records[a].status = "none" THEN records[a].port = 0 /\ records[a].id = 0
                                   ELSE records[a].port \in Ports /\ records[a].id # 0

(* The file says what the memory says, or that the port is in conflict.    *)
Agrees(a) ==
  /\ saved[a].id = records[a].id /\ saved[a].port = records[a].port
  /\ \/ saved[a].status = records[a].status
     \/ saved[a].status = "conflict" /\ records[a].status # "none"

(* A port about to be recorded is bound, or was released for another       *)
(* record that names it; so is the port of a reserved record.              *)
Binds(a) ==
  asked[a] = "record" => chosen[a] \in held \/ \E b \in Asks \ {a} : records[b].port = chosen[a]
Keeps(a) ==
  records[a].status = "reserved" /\ a \notin reclaim =>
    records[a].port \in held \/ \E b \in Asks \ {a} : records[b].port = records[a].port

Lasts(a) ==
  \/ records[a].status \in {"reserved", "conflict"}
  \/ \E b \in Asks \ {a} : records[b].id = records[a].id

Owned(p) ==
  \/ \E a \in Asks : asked[a] = "record" /\ chosen[a] = p
  \/ \E a \in Asks : records[a].port = p /\ Lasts(a)

PortInv ==
  /\ PortTypeOK
  /\ \A a \in Asks : Waits(a) /\ Settled(a) /\ Agrees(a) /\ Binds(a) /\ Keeps(a)
  /\ held \cap taken = {}
  /\ \A p \in held : Owned(p)

-----------------------------------------------------------------------------
LEMMA RecordType ==
  ASSUME NEW record \in Record, NEW status \in Status
  PROVE  /\ [record EXCEPT !.status = status] \in Record
         /\ [record EXCEPT !.status = status].id = record.id
         /\ [record EXCEPT !.status = status].port = record.port
         /\ [record EXCEPT !.status = status].status = status
BY DEF Record

LEMMA MarkType ==
  ASSUME NEW list \in [Asks -> Record], NEW id \in Nat, NEW status \in Status
  PROVE  /\ Mark(list, id, status) \in [Asks -> Record]
         /\ \A a \in Asks :
              /\ Mark(list, id, status)[a].id = list[a].id
              /\ Mark(list, id, status)[a].port = list[a].port
              /\ list[a].id = id => Mark(list, id, status)[a].status = status
              /\ list[a].id # id => Mark(list, id, status)[a].status = list[a].status
<1>1. ASSUME NEW a \in Asks
      PROVE  LET new == IF list[a].id = id THEN [list[a] EXCEPT !.status = status] ELSE list[a]
             IN  /\ new \in Record /\ new.id = list[a].id /\ new.port = list[a].port
                 /\ new.status = IF list[a].id = id THEN status ELSE list[a].status
  BY RecordType
<1> QED
  BY <1>1 DEF Mark

(* Records that differ from the memory's in nothing but marks of conflict  *)
(* own what they owned and keep what they kept.                            *)
LEMMA TakeRecords ==
  ASSUME PortInv, records' = saved \/ records' = records
  PROVE  \A a \in Asks : /\ records'[a].id = records[a].id /\ records'[a].port = records[a].port
                         /\ records'[a].status = "reserved" => records[a].status = "reserved"
                         /\ records[a].status = "none" <=> records'[a].status = "none"
                         /\ Lasts(a) => \/ records'[a].status \in {"reserved", "conflict"}
                                        \/ \E b \in Asks \ {a} : records'[b].id = records'[a].id
BY DEF PortInv, Agrees, Lasts

(* A request that finds, names or fails to bind a port disturbs nothing. *)
LEMMA OnlyAsks ==
  ASSUME PortInv, NEW a \in Asks,
         asked[a] \in {"idle", "bind"},
         NEW to \in {"bind", "failed"}, asked' = [asked EXCEPT ![a] = to],
         NEW p \in Ports \cup {0}, chosen' = [chosen EXCEPT ![a] = p],
         to = "bind" => reclaim = {} /\ p \in Ports,
         UNCHANGED <<held, taken, records, saved, clock, starts, others, reclaim>>
  PROVE  PortInv'
<1>1. PortTypeOK'
  BY DEF PortInv, PortTypeOK, AskSteps
<1>2. /\ asked'[a] = to /\ chosen'[a] = p
      /\ \A b \in Asks \ {a} : asked'[b] = asked[b] /\ chosen'[b] = chosen[b]
  BY DEF PortInv, PortTypeOK
<1>3. \A b \in Asks : Waits(b)' /\ Settled(b)' /\ Agrees(b)' /\ Binds(b)' /\ Keeps(b)'
  BY <1>2 DEF PortInv, Waits, Settled, Agrees, Binds, Keeps
<1>4. \A q \in held' : Owned(q)'
  BY <1>2 DEF PortInv, Owned, Lasts
<1> QED
  BY <1>1, <1>3, <1>4 DEF PortInv

LEMMA BindStep ==
  ASSUME PortInv, NEW a \in Asks, BindPort(a)
  PROVE  PortInv'
<1>1. CASE asked' = [asked EXCEPT ![a] = "failed"] /\ UNCHANGED held
  <2>1. chosen' = [chosen EXCEPT ![a] = chosen[a]] /\ chosen[a] \in Ports \cup {0}
    BY DEF BindPort, PortInv, PortTypeOK
  <2> QED
    BY <1>1, <2>1, OnlyAsks DEF BindPort
<1>2. CASE /\ chosen[a] \notin taken /\ held' = held \cup {chosen[a]}
           /\ asked' = [asked EXCEPT ![a] = "record"]
  <2>1. /\ asked[a] = "bind" /\ asked'[a] = "record" /\ chosen[a] \in Ports
        /\ \A b \in Asks \ {a} : asked'[b] = asked[b]
        /\ UNCHANGED <<taken, records, saved, clock, chosen, starts, others, reclaim>>
    BY <1>2 DEF BindPort, PortInv, PortTypeOK, Settled
  <2>2. PortTypeOK'
    BY <1>2, <2>1 DEF PortInv, PortTypeOK, AskSteps
  <2>3. \A b \in Asks : Waits(b)' /\ Settled(b)' /\ Agrees(b)' /\ Binds(b)' /\ Keeps(b)'
    BY <1>2, <2>1 DEF PortInv, Waits, Settled, Agrees, Binds, Keeps
  <2>4. held' \cap taken' = {}
    BY <1>2, <2>1 DEF PortInv
  <2>5. \A q \in held' : Owned(q)'
    BY <1>2, <2>1 DEF PortInv, Owned, Lasts
  <2> QED
    BY <2>2, <2>3, <2>4, <2>5 DEF PortInv
<1> QED
  BY <1>1, <1>2 DEF BindPort

LEMMA RecordStep ==
  ASSUME PortInv, NEW a \in Asks, RecordPort(a)
  PROVE  PortInv'
<1> DEFINE new == [id |-> clock, port |-> chosen[a], status |-> "reserved"]
<1>1. new \in Record /\ new.id = clock /\ new.port = chosen[a] /\ new.status = "reserved"
  BY DEF PortInv, PortTypeOK, Record, Status
<1> HIDE DEF new
<1>2. /\ asked[a] = "record" /\ asked' = [asked EXCEPT ![a] = "done"]
      /\ records' = [records EXCEPT ![a] = new] /\ saved' = records'
      /\ UNCHANGED <<held, taken, clock, chosen, starts, others, reclaim>>
  BY DEF RecordPort, new
<1>3. /\ asked'[a] = "done" /\ records'[a] = new
      /\ \A b \in Asks \ {a} : asked'[b] = asked[b] /\ records'[b] = records[b]
  BY <1>2 DEF PortInv, PortTypeOK
<1>4. /\ records[a].port = 0 /\ records[a].id = 0 /\ records[a].status = "none"
      /\ chosen[a] \in Ports /\ reclaim = {} /\ clock # 0
  BY <1>2 DEF PortInv, Settled, Waits, PortTypeOK
<1>5. PortTypeOK'
  BY <1>1, <1>2 DEF PortInv, PortTypeOK, AskSteps
<1>6. \A b \in Asks : Waits(b)' /\ Settled(b)' /\ Agrees(b)'
  BY <1>1, <1>2, <1>3, <1>4 DEF PortInv, Waits, Settled, Agrees
<1>7. \A b \in Asks : Binds(b)'
  BY <1>1, <1>2, <1>3, <1>4 DEF PortInv, Binds, Settled
<1>8. \A b \in Asks : Keeps(b)'
  <2>1. Keeps(a)'
    BY <1>1, <1>2, <1>3, <1>4 DEF PortInv, Binds, Keeps
  <2>2. ASSUME NEW b \in Asks \ {a} PROVE Keeps(b)'
    BY <1>1, <1>2, <1>3, <1>4 DEF PortInv, Keeps, Settled
  <2> QED
    BY <2>1, <2>2
<1>9. ASSUME NEW q \in held' PROVE Owned(q)'
  <2>1. q \in Ports /\ Owned(q)
    BY <1>2 DEF PortInv, PortTypeOK
  <2>2. CASE \E b \in Asks : asked[b] = "record" /\ chosen[b] = q
    BY <1>1, <1>2, <1>3, <2>2 DEF Owned, Lasts
  <2>3. CASE \E b \in Asks : records[b].port = q /\ Lasts(b)
    <3>1. PICK b \in Asks : records[b].port = q /\ Lasts(b)
      BY <2>3
    <3>2. b # a /\ records[b].id # 0 /\ records'[b] = records[b]
      BY <1>3, <1>4, <2>1, <3>1 DEF PortInv, Settled
    <3>3. Lasts(b)'
      BY <1>3, <1>4, <3>1, <3>2 DEF Lasts
    <3> QED
      BY <3>1, <3>2, <3>3 DEF Owned
  <2> QED
    BY <2>1, <2>2, <2>3 DEF Owned
<1> QED
  BY <1>2, <1>5, <1>6, <1>7, <1>8, <1>9 DEF PortInv

LEMMA ReleaseStep ==
  ASSUME PortInv, NEW a \in Asks, ReleasePort(a)
  PROVE  PortInv'
<1> DEFINE id == records[a].id
<1>1. PICK b \in Asks : records[b].id = id /\ held' = held \ {records[b].port}
  BY DEF ReleasePort
<1>2. /\ reclaim = {} /\ records' = Mark(records, id, "released") /\ saved' = records'
      /\ UNCHANGED <<taken, clock, asked, chosen, starts, others, reclaim>>
      /\ id \in Nat /\ id # 0 /\ "released" \in Status
  BY DEF ReleasePort, Ready, PortInv, PortTypeOK, Record, Status, Settled
<1>3. /\ records' \in [Asks -> Record]
      /\ \A c \in Asks : /\ records'[c].id = records[c].id /\ records'[c].port = records[c].port
                         /\ records[c].id = id => records'[c].status = "released"
                         /\ records[c].id # id => records'[c].status = records[c].status
  BY <1>2, MarkType DEF PortInv, PortTypeOK
<1>4. PortTypeOK'
  BY <1>1, <1>2, <1>3 DEF PortInv, PortTypeOK
<1>5. \A c \in Asks : Waits(c)' /\ Settled(c)' /\ Agrees(c)'
  BY <1>2, <1>3 DEF PortInv, Waits, Settled, Agrees
<1>6. \A c \in Asks : Binds(c)'
  <2>1. \A c \in Asks : asked[c] = "record" => c # b
    BY <1>1, <1>2 DEF PortInv, Settled
  <2> QED
    BY <1>1, <1>2, <1>3, <2>1 DEF PortInv, Binds
<1>7. \A c \in Asks : Keeps(c)'
  <2>1. \A c \in Asks : records'[c].status = "reserved" => c # b /\ records[c].status = "reserved"
    BY <1>1, <1>3
  <2> QED
    BY <1>1, <1>2, <1>3, <2>1 DEF PortInv, Keeps
<1>8. ASSUME NEW q \in held' PROVE Owned(q)'
  <2>1. q # records[b].port /\ Owned(q)
    BY <1>1 DEF PortInv
  <2>2. CASE \E c \in Asks : asked[c] = "record" /\ chosen[c] = q
    BY <1>2, <2>2 DEF Owned
  <2>3. CASE \E c \in Asks : records[c].port = q /\ Lasts(c)
    <3>1. PICK c \in Asks : records[c].port = q /\ Lasts(c)
      BY <2>3
    <3>2. Lasts(c)'
      BY <1>1, <1>3, <2>1, <3>1 DEF Lasts
    <3> QED
      BY <1>3, <3>1, <3>2 DEF Owned
  <2> QED
    BY <2>1, <2>2, <2>3 DEF Owned
<1>9. held' \cap taken' = {}
  BY <1>1, <1>2 DEF PortInv
<1> QED
  BY <1>4, <1>5, <1>6, <1>7, <1>8, <1>9 DEF PortInv

LEMMA ReclaimStep ==
  ASSUME PortInv, NEW a \in Asks, ReclaimPort(a)
  PROVE  PortInv'
<1>1. /\ a \in reclaim /\ reclaim' = reclaim \ {a}
      /\ UNCHANGED <<taken, clock, asked, chosen, starts, others>>
  BY DEF ReclaimPort
<1>2. /\ records[a].status \in {"reserved", "conflict"} /\ records[a].port \in Ports
      /\ records[a].id \in Nat /\ records[a].id # 0 /\ "conflict" \in Status
  BY <1>1 DEF PortInv, Settled, PortTypeOK, Record, Status
<1>3. \A b \in Asks : asked[b] \notin {"bind", "record"}
  BY <1>1 DEF PortInv, Waits
<1>4. CASE /\ records[a].port \notin taken
           /\ held' = held \cup {records[a].port} /\ UNCHANGED <<records, saved>>
  <2>1. PortTypeOK'
    BY <1>1, <1>2, <1>4 DEF PortInv, PortTypeOK
  <2>2. \A b \in Asks : Waits(b)' /\ Settled(b)' /\ Agrees(b)' /\ Binds(b)' /\ Keeps(b)'
    BY <1>1, <1>2, <1>3, <1>4 DEF PortInv, Waits, Settled, Agrees, Binds, Keeps
  <2>3. held' \cap taken' = {} /\ \A q \in held' : Owned(q)'
    BY <1>1, <1>2, <1>4 DEF PortInv, Owned, Lasts
  <2> QED
    BY <2>1, <2>2, <2>3 DEF PortInv
<1>5. CASE /\ records[a].port \in taken /\ UNCHANGED held
           /\ records' = Mark(records, records[a].id, "conflict") /\ saved' = records'
  <2>1. /\ records' \in [Asks -> Record]
        /\ \A c \in Asks :
             /\ records'[c].id = records[c].id /\ records'[c].port = records[c].port
             /\ records[c].id = records[a].id => records'[c].status = "conflict"
             /\ records[c].id # records[a].id => records'[c].status = records[c].status
    BY <1>2, <1>5, MarkType DEF PortInv, PortTypeOK
  <2>2. PortTypeOK'
    BY <1>1, <1>5, <2>1 DEF PortInv, PortTypeOK
  <2>3. \A b \in Asks : Waits(b)' /\ Settled(b)' /\ Agrees(b)' /\ Binds(b)'
    BY <1>1, <1>2, <1>3, <1>5, <2>1 DEF PortInv, Waits, Settled, Agrees, Binds
  <2>4. \A b \in Asks : Keeps(b)'
    BY <1>1, <1>5, <2>1 DEF PortInv, Keeps
  <2>5. \A b \in Asks : Lasts(b) => Lasts(b)'
    BY <2>1 DEF Lasts
  <2>6. held' \cap taken' = {} /\ \A q \in held' : Owned(q)'
    BY <1>1, <1>5, <2>1, <2>5 DEF PortInv, Owned
  <2> QED
    BY <2>2, <2>3, <2>4, <2>6 DEF PortInv
<1> QED
  BY <1>4, <1>5 DEF ReclaimPort

(* Steps that change no record, no server and no request. *)
LEMMA OutsideStep ==
  ASSUME PortInv,
         UNCHANGED <<held, records, asked, chosen, starts, reclaim>>,
         saved' \in [Asks -> Record], \A a \in Asks : Agrees(a)', clock' \in Nat \ {0},
         taken' \in SUBSET Ports, others' \in Nat, held \cap taken' = {}
  PROVE  PortInv'
<1>1. PortTypeOK'
  BY DEF PortInv, PortTypeOK
<1>2. \A b \in Asks : Waits(b)' /\ Settled(b)' /\ Binds(b)' /\ Keeps(b)'
  BY DEF PortInv, Waits, Settled, Binds, Keeps
<1>3. \A q \in held' : Owned(q)'
  BY DEF PortInv, Owned, Lasts
<1> QED
  BY <1>1, <1>2, <1>3 DEF PortInv

LEMMA OtherProcessStep ==
  ASSUME PortInv, OtherProcessStarts
  PROVE  PortInv'
<1> DEFINE busy == {a \in Reserved(saved) : ~Available(saved[a].port)}
           Hit(a) == \E b \in busy : saved[b].id = saved[a].id
           new(a) == IF Hit(a) THEN [saved[a] EXCEPT !.status = "conflict"] ELSE saved[a]
<1>1. /\ others' = others + 1
      /\ taken' = taken \cup {saved[a].port : a \in Reserved(saved) \ busy}
      /\ saved' = [a \in Asks |-> new(a)]
      /\ UNCHANGED <<held, records, clock, asked, chosen, starts, reclaim>>
  BY DEF OtherProcessStarts
<1>2. ASSUME NEW a \in Asks
      PROVE  /\ new(a) \in Record /\ new(a).id = saved[a].id /\ new(a).port = saved[a].port
             /\ new(a).status = IF Hit(a) THEN "conflict" ELSE saved[a].status
  <2>1. saved[a] \in Record /\ "conflict" \in Status
    BY DEF PortInv, PortTypeOK, Status
  <2> QED
    BY <2>1, RecordType
<1>3. \A a \in Asks : Hit(a) => records[a].status # "none"
  <2> SUFFICES ASSUME NEW a \in Asks, NEW b \in busy, saved[b].id = saved[a].id
               PROVE  records[a].status # "none"
    OBVIOUS
  <2>1. b \in Asks /\ saved[b].status = "reserved"
    BY DEF Reserved
  <2>2. records[b].id # 0 /\ records[b].id = records[a].id
    BY <2>1 DEF PortInv, Agrees, Settled
  <2> QED
    BY <2>2 DEF PortInv, Settled
<1> HIDE DEF new
<1>4. saved' \in [Asks -> Record] /\ \A a \in Asks : saved'[a] = new(a)
  BY <1>1, <1>2
<1>5. \A a \in Asks : Agrees(a)'
  BY <1>1, <1>2, <1>3, <1>4 DEF PortInv, Agrees
<1>6. \A a \in Reserved(saved) : saved[a].port \in Ports
  BY DEF PortInv, Agrees, Settled, Reserved
<1>7. taken' \in SUBSET Ports /\ held \cap taken' = {}
  <2>1. \A a \in Reserved(saved) \ busy : saved[a].port \in Ports \ held
    BY <1>6 DEF Reserved, Available
  <2> DEFINE bound == {saved[a].port : a \in Reserved(saved) \ busy}
  <2>2. \A q \in bound : q \in Ports /\ q \notin held
    BY <2>1
  <2>3. taken' = taken \cup bound
    BY <1>1
  <2> HIDE DEF bound
  <2> QED
    BY <2>2, <2>3 DEF PortInv, PortTypeOK
<1> QED
  BY <1>1, <1>4, <1>5, <1>7, OutsideStep DEF PortInv, PortTypeOK

LEMMA PortInvStep == PortInv /\ [PortNext]_portVars => PortInv'
<1> SUFFICES ASSUME PortInv, [PortNext]_portVars PROVE PortInv'
  OBVIOUS
<1>1. ASSUME NEW a \in Asks, FindPort(a) \/ NamePort(a) PROVE PortInv'
  <2>1. PICK p \in Ports : chosen' = [chosen EXCEPT ![a] = p]
    BY <1>1 DEF FindPort, NamePort
  <2>2. /\ asked[a] = "idle" /\ asked' = [asked EXCEPT ![a] = "bind"] /\ reclaim = {}
        /\ UNCHANGED <<held, taken, records, saved, clock, starts, others, reclaim>>
    BY <1>1 DEF FindPort, NamePort, Ready
  <2> QED
    BY <2>1, <2>2, OnlyAsks
<1>2. ASSUME NEW a \in Asks, BindPort(a) \/ RecordPort(a) \/ ReleasePort(a) \/ ReclaimPort(a)
      PROVE  PortInv'
  BY <1>2, BindStep, RecordStep, ReleaseStep, ReclaimStep
<1>3. CASE RestartPorts
  <2>1. /\ held' = {} /\ records' = saved /\ reclaim' = Reserved(saved) /\ starts' = starts + 1
        /\ UNCHANGED <<taken, saved, clock, chosen, others>>
    BY <1>3 DEF RestartPorts
  <2>2. asked' = [a \in Asks |-> IF asked[a] \in {"bind", "record"} THEN "failed" ELSE asked[a]]
    BY <1>3 DEF RestartPorts
  <2>3. PortTypeOK'
    BY <2>1, <2>2 DEF PortInv, PortTypeOK, AskSteps, Reserved
  <2>4. \A b \in Asks : Waits(b)' /\ Binds(b)' /\ Agrees(b)'
    BY <2>1, <2>2 DEF Waits, Binds, Agrees
  <2>5. \A b \in Asks : Settled(b)' /\ Keeps(b)'
    BY <2>1, <2>2, TakeRecords DEF PortInv, Settled, Keeps, Reserved
  <2> QED
    BY <2>1, <2>3, <2>4, <2>5 DEF PortInv
<1>4. CASE OtherProgram
  <2>1. /\ UNCHANGED <<held, records, saved, clock, asked, chosen, starts, reclaim>>
        /\ taken' \in SUBSET Ports /\ others' \in Nat /\ held \cap taken' = {}
    <3>1. CASE others' = others + 1 /\ \E p \in Ports : Available(p) /\ taken' = taken \cup {p}
      BY <1>4, <3>1 DEF OtherProgram, Available, PortInv, PortTypeOK
    <3>2. CASE UNCHANGED others /\ \E p \in taken : taken' = taken \ {p}
      BY <1>4, <3>2 DEF OtherProgram, PortInv, PortTypeOK
    <3> QED
      BY <1>4, <3>1, <3>2 DEF OtherProgram
  <2> QED
    BY <2>1, OutsideStep DEF PortInv, PortTypeOK, Agrees
<1>5. CASE MillisecondPasses \/ OtherUpdate
  <2>1. /\ UNCHANGED <<held, taken, records, asked, chosen, starts, others, reclaim>>
        /\ clock' \in Nat \ {0} /\ saved' \in {records, saved}
    BY <1>5 DEF MillisecondPasses, OtherUpdate, PortInv, PortTypeOK
  <2>2. \A a \in Asks : Agrees(a)'
    BY <2>1 DEF PortInv, Agrees
  <2> QED
    BY <2>1, <2>2, OutsideStep DEF PortInv, PortTypeOK
<1>6. CASE LoadRecords
  <2>1. /\ records' = saved /\ reclaim = {}
        /\ UNCHANGED <<held, taken, saved, clock, asked, chosen, starts, others, reclaim>>
    BY <1>6 DEF LoadRecords, Ready
  <2>2. PortTypeOK'
    BY <2>1 DEF PortInv, PortTypeOK
  <2>3. \A b \in Asks : Waits(b)' /\ Settled(b)' /\ Agrees(b)'
    BY <2>1, TakeRecords DEF PortInv, Waits, Settled, Agrees
  <2>4. \A b \in Asks : Binds(b)' /\ Keeps(b)'
    BY <2>1, TakeRecords DEF PortInv, Binds, Keeps
  <2>5. \A q \in held' : Owned(q)'
    BY <2>1, TakeRecords DEF PortInv, Owned, Lasts
  <2> QED
    BY <2>1, <2>2, <2>3, <2>4, <2>5 DEF PortInv
<1>7. CASE UNCHANGED portVars
  BY <1>7 DEF portVars, PortInv, PortTypeOK, Waits, Settled, Agrees, Binds, Keeps, Owned, Lasts
<1> QED
  BY <1>1, <1>2, <1>3, <1>4, <1>5, <1>6, <1>7, OtherProcessStep DEF PortNext

LEMMA PortInvariance == PortSpec => []PortInv
<1>1. PortInit => PortInv
  <2> SUFFICES ASSUME PortInit PROVE PortInv
    OBVIOUS
  <2>1. PortTypeOK
    BY DEF PortInit, PortTypeOK, NoRecord, Record, Status, AskSteps
  <2>2. \A a \in Asks : Waits(a) /\ Settled(a) /\ Agrees(a) /\ Binds(a) /\ Keeps(a)
    BY DEF PortInit, NoRecord, Waits, Settled, Agrees, Binds, Keeps
  <2> QED
    BY <2>1, <2>2 DEF PortInit, PortInv
<1> QED
  BY <1>1, PortInvStep, PTL DEF PortSpec

(* However requests for the same port interleave, other programs bind it,  *)
(* the dashboard restarts and other processes of LocalLink initialize,     *)
(* every port that the dashboard keeps bound is about to be recorded or    *)
(* has a record that was not released, unless that record shares its id    *)
(* (PortAllocator.reservePort, AppContext.releasePortReservation).         *)
THEOREM NoServerOutlivesItsRecord == PortSpec => []HeldIsRecorded
<1>1. PortInv => HeldIsRecorded
  BY DEF PortInv, Owned, Lasts, HeldIsRecorded
<1> QED
  BY <1>1, PortInvariance, PTL

(* A reservation that a start has reclaimed, and whose port no other       *)
(* record names, is bound by LocalLink (AppContext.initialize).            *)
THEOREM ReservationsAreHeld == PortSpec => []ReservedIsHeld
<1>1. PortInv => ReservedIsHeld
  BY DEF PortInv, Keeps, ReservedIsHeld, Reserved
<1> QED
  BY <1>1, PortInvariance, PTL

-----------------------------------------------------------------------------
(* RuntimeDescriptor: a process in stale goes through its initialization,  *)
(* and has read what the descriptor still says, a pid that is dead.        *)
Phases == Running \cup Gone

DescriptorTypes ==
  /\ phase \in [Pids -> Phases] /\ readPid \in [Pids -> Pids \cup {NoPid}]
  /\ descriptor \in Pids \cup {NoPid}
  /\ foreign \in SUBSET Pids /\ stale \in SUBSET Pids

DescriptorInv ==
  /\ DescriptorTypes
  /\ DescriptorIsTruthful
  /\ stale # {} => descriptor \in Pids /\ ~Alive(descriptor)
  /\ \A p \in stale : phase[p] = "judge" => readPid[p] = descriptor

LEMMA DescriptorStep == DescriptorInv /\ [DescriptorNext]_descriptorVars => DescriptorInv'
<1> SUFFICES ASSUME DescriptorInv, [DescriptorNext]_descriptorVars PROVE DescriptorInv'
  OBVIOUS
<1> USE DescriptorAssumption
        DEF DescriptorInv, DescriptorTypes, Phases, Running, Initializing, Gone, GoesTo, Alive,
            DescriptorIsTruthful
<1>1. CASE UNCHANGED descriptorVars
  BY <1>1 DEF descriptorVars
<1>2. ASSUME NEW p \in Pids, StartCommand(p) PROVE DescriptorInv'
  <2>1. /\ phase' = [phase EXCEPT ![p] = "look"] /\ UNCHANGED <<readPid, descriptor, foreign>>
        /\ phase[p] \in Gone /\ p \notin foreign
    BY <1>2 DEF StartCommand
  <2>2. CASE descriptor = p
    BY <1>2, <2>1, <2>2 DEF StartCommand
  <2>3. CASE descriptor # p
    BY <1>2, <2>1, <2>3 DEF StartCommand
  <2> QED
    BY <2>2, <2>3
<1>3. ASSUME NEW p \in Pids, Look(p) PROVE DescriptorInv'
  BY <1>3 DEF Look
<1>4. ASSUME NEW p \in Pids, Judge(p) PROVE DescriptorInv'
  BY <1>4 DEF Judge
<1>5. ASSUME NEW p \in Pids, UnlinkStale(p) PROVE DescriptorInv'
  BY <1>5 DEF UnlinkStale
<1>6. ASSUME NEW p \in Pids, CommandEnds(p) \/ ListenOnPort(p) \/ Close(p) PROVE DescriptorInv'
  BY <1>6 DEF CommandEnds, ListenOnPort, Close
<1>7. ASSUME NEW p \in Pids, RecordBinding(p) PROVE DescriptorInv'
  BY <1>7 DEF RecordBinding
<1>8. ASSUME NEW p \in Pids, LookBeforeClearing(p) \/ ClearBinding(p) PROVE DescriptorInv'
  BY <1>8 DEF LookBeforeClearing, ClearBinding
<1>9. ASSUME NEW p \in Pids, Killed(p) PROVE DescriptorInv'
  BY <1>9 DEF Killed
<1>10. ASSUME NEW p \in Pids, PidReused(p) PROVE DescriptorInv'
  BY <1>10 DEF PidReused
<1> QED
  BY <1>1, <1>2, <1>3, <1>4, <1>5, <1>6, <1>7, <1>8, <1>9, <1>10 DEF DescriptorNext

(* However many dashboards and commands start, race, are shut down or die  *)
(* at any await, and whatever pids are reused: a dashboard that was shut   *)
(* down is not named, and a dead pid that the descriptor named when a      *)
(* command began is gone when it has initialized                           *)
(* (AppContext.clearStaleRuntimeBinding and clearRuntimeBinding).          *)
THEOREM DescriptorCorrect == DescriptorSpec => []DescriptorIsTruthful
<1>1. DescriptorInit => DescriptorInv
  BY DescriptorAssumption
     DEF DescriptorInit, DescriptorInv, DescriptorTypes, DescriptorIsTruthful, Phases, Gone
<1>2. DescriptorInv => DescriptorIsTruthful
  BY DEF DescriptorInv
<1> QED
  BY <1>1, <1>2, DescriptorStep, PTL DEF DescriptorSpec

-----------------------------------------------------------------------------
USE LogAssumption

-----------------------------------------------------------------------------
(* LiveLogs: the kept entries are the newest, in the order they came; what *)
(* a listener was sent ends with the newest and goes back without a gap.   *)
LogTypes ==
  /\ lines \in Nat /\ entries \in Seq(Nat)
  /\ sent \in [Streams -> Seq(Nat)]
  /\ at \in [Streams -> {"idle", "model", "lock", "attached", "live", "missed", "closed"}]
  /\ docker \in BOOLEAN

EntriesAreNewest ==
  /\ Len(entries) = IF lines > Kept THEN Kept ELSE lines
  /\ \A i \in 1..Len(entries) : entries[i] = lines + 1 - i

Unbroken(list) ==
  /\ lines > 0 => list # <<>>
  /\ \A i \in 1..Len(list) : list[i] = lines + i - Len(list)

StreamInv == LogTypes /\ EntriesAreNewest /\ \A s \in listeners \cap Streams : Unbroken(sent[s])

(* A handler past attach is counted until it detaches, the one that missed *)
(* the close for ever; who is past the docker tail's start needs it.       *)
Counted == {s \in Streams : at[s] \notin {"idle", "closed"}}

FeedInv ==
  /\ IsFiniteSet(Counted) /\ subscribers = Cardinality(Counted)
  /\ docker => "docker" \in tails \/ ended
  /\ \A s \in Streams : at[s] \in {"lock", "attached", "live"} => docker

(* Shorten keeps a front of a list, and Backwards turns it round. *)
LEMMA ShortenType ==
  ASSUME NEW list \in Seq(Nat), NEW limit \in Nat
  PROVE  /\ Shorten(list, limit) \in Seq(Nat)
         /\ Len(Shorten(list, limit)) = IF Len(list) > limit THEN limit ELSE Len(list)
         /\ \A i \in 1..Len(Shorten(list, limit)) : Shorten(list, limit)[i] = list[i]
<1> DEFINE n == IF Len(list) > limit THEN limit ELSE Len(list)
<1>1. Len(list) \in Nat
  OBVIOUS
<1>2. n \in Nat /\ n <= Len(list)
  BY <1>1
<1> HIDE DEF n
<1>3. \A i \in 1..n : list[i] \in Nat
  BY <1>2, ElementOfSeq, <1>1
<1>4. SubSeq(list, 1, n) = [i \in 1..n |-> list[i]]
  BY <1>1, <1>2
<1>5. [i \in 1..n |-> list[i]] \in Seq(Nat) /\ Len([i \in 1..n |-> list[i]]) = n
  BY <1>2, <1>3
<1> QED
  BY <1>4, <1>5 DEF Shorten, n

LEMMA BackwardsType ==
  ASSUME NEW list \in Seq(Nat)
  PROVE  /\ Backwards(list) \in Seq(Nat) /\ Len(Backwards(list)) = Len(list)
         /\ \A i \in 1..Len(list) : Backwards(list)[i] = list[Len(list) + 1 - i]
<1> DEFINE n == Len(list)
<1>1. n \in Nat /\ \A i \in 1..n : list[i] \in Nat
  BY ElementOfSeq
<1> HIDE DEF n
<1>2. \A i \in 1..n : n + 1 - i \in 1..n
  BY <1>1
<1>3. [i \in 1..n |-> list[n + 1 - i]] \in Seq(Nat) /\ Len([i \in 1..n |-> list[n + 1 - i]]) = n
  BY <1>1, <1>2
<1> QED
  BY <1>3 DEF Backwards, n

LEMMA AppendStep ==
  ASSUME StreamInv, AppendEntry
  PROVE  StreamInv'
<1> DEFINE next == <<lines + 1>> \o entries
<1>0. lines \in Nat /\ entries \in Seq(Nat) /\ sent \in [Streams -> Seq(Nat)] /\ lines' = lines + 1
      /\ entries' = Shorten(next, Kept) /\ Kept \in Nat \ {0}
  BY DEF StreamInv, LogTypes, AppendEntry
<1>1. /\ next \in Seq(Nat) /\ Len(next) = Len(entries) + 1 /\ next[1] = lines + 1
      /\ \A i \in 2..Len(next) : next[i] = entries[i - 1]
  BY <1>0
<1> HIDE DEF next
<1>2. \A i \in 1..Len(next) : next[i] = lines + 2 - i
  <2> SUFFICES ASSUME NEW i \in 1..Len(next) PROVE next[i] = lines + 2 - i
    OBVIOUS
  <2>1. CASE i = 1
    BY <2>1, <1>0, <1>1
  <2>2. CASE i # 1
    <3>1. i - 1 \in 1..Len(entries) /\ i \in 2..Len(next)
      BY <2>2, <1>0, <1>1
    <3>2. entries[i - 1] = lines + 1 - (i - 1)
      BY <3>1 DEF StreamInv, EntriesAreNewest
    <3> QED
      BY <3>1, <3>2, <1>0, <1>1
  <2> QED
    BY <2>1, <2>2
<1>3. /\ entries' \in Seq(Nat) /\ Len(entries') = IF Len(next) > Kept THEN Kept ELSE Len(next)
      /\ \A i \in 1..Len(entries') : entries'[i] = next[i]
  BY <1>0, <1>1, ShortenType
<1>4. EntriesAreNewest'
  <2>1. Len(entries) = IF lines > Kept THEN Kept ELSE lines
    BY DEF StreamInv, EntriesAreNewest
  <2>2. Len(entries') = IF lines' > Kept THEN Kept ELSE lines'
    BY <1>0, <1>1, <1>3, <2>1
  <2>3. \A i \in 1..Len(entries') : entries'[i] = lines' + 1 - i
    <3> SUFFICES ASSUME NEW i \in 1..Len(entries') PROVE entries'[i] = lines' + 1 - i
      OBVIOUS
    <3>1. i \in 1..Len(next)
      BY <1>0, <1>1, <1>3
    <3> QED
      BY <3>1, <1>0, <1>2, <1>3
  <2> QED
    BY <2>2, <2>3 DEF EntriesAreNewest
<1>5. LogTypes'
  <2>1. sent' \in [Streams -> Seq(Nat)]
    <3>1. \A s \in Streams : sent[s] \in Seq(Nat) /\ Append(sent[s], lines + 1) \in Seq(Nat)
      BY <1>0
    <3> QED
      BY <3>1 DEF AppendEntry
  <2> QED
    BY <2>1, <1>0, <1>3 DEF StreamInv, LogTypes, AppendEntry
<1>6. \A s \in listeners' \cap Streams : Unbroken(sent[s])'
  <2> SUFFICES ASSUME NEW s \in listeners \cap Streams PROVE Unbroken(sent[s])'
    BY DEF AppendEntry
  <2> DEFINE list == sent[s]
  <2>1. list \in Seq(Nat) /\ sent'[s] = Append(list, lines + 1)
    BY <1>0 DEF AppendEntry
  <2>2. \A i \in 1..Len(list) : list[i] = lines + i - Len(list)
    BY DEF StreamInv, Unbroken
  <2> HIDE DEF list
  <2>3. Len(Append(list, lines + 1)) = Len(list) + 1 /\ Append(list, lines + 1)[Len(list) + 1] = lines + 1
        /\ \A i \in 1..Len(list) : Append(list, lines + 1)[i] = list[i]
    BY <2>1, <1>0
  <2>4. \A i \in 1..Len(list) + 1 : Append(list, lines + 1)[i] = lines + 1 + i - (Len(list) + 1)
    <3> SUFFICES ASSUME NEW i \in 1..Len(list) + 1
                 PROVE  Append(list, lines + 1)[i] = lines + 1 + i - (Len(list) + 1)
      OBVIOUS
    <3>1. CASE i = Len(list) + 1
      BY <3>1, <2>1, <2>3, <1>0
    <3>2. CASE i # Len(list) + 1
      <4>1. i \in 1..Len(list)
        BY <3>2, <2>1
      <4> QED
        BY <4>1, <2>1, <2>2, <2>3, <1>0
    <3> QED
      BY <3>1, <3>2
  <2>5. Append(list, lines + 1) # <<>>
    BY <2>1, <2>3
  <2> QED
    BY <2>1, <2>3, <2>4, <2>5, <1>0 DEF Unbroken
<1> QED
  BY <1>4, <1>5, <1>6 DEF StreamInv

LEMMA SendStep ==
  ASSUME StreamInv, NEW s \in Streams, SendKept(s)
  PROVE  StreamInv'
<1> DEFINE kept == Shorten(entries, Listed)
           list == Backwards(kept)
           n == Len(kept)
<1>0. /\ lines \in Nat /\ entries \in Seq(Nat) /\ sent \in [Streams -> Seq(Nat)]
      /\ Kept \in Nat \ {0} /\ Listed \in Nat \ {0} /\ Len(entries) \in Nat
      /\ Len(entries) = (IF lines > Kept THEN Kept ELSE lines)
      /\ \A i \in 1..Len(entries) : entries[i] = lines + 1 - i
  BY DEF StreamInv, LogTypes, EntriesAreNewest
<1>1. kept \in Seq(Nat) /\ n = (IF Len(entries) > Listed THEN Listed ELSE Len(entries))
      /\ \A i \in 1..n : kept[i] = entries[i]
  BY <1>0, ShortenType
<1>2. list \in Seq(Nat) /\ Len(list) = n /\ \A i \in 1..n : list[i] = kept[n + 1 - i]
  BY <1>1, BackwardsType
<1>3. sent' = [sent EXCEPT ![s] = list] /\ UNCHANGED <<lines, entries, docker>> /\ listeners' = listeners \cup {s}
      /\ at' = [at EXCEPT ![s] = IF s \in gone THEN "missed" ELSE "live"]
  BY DEF SendKept, StepTo
<1> HIDE DEF kept, list, n
<1>4. Unbroken(list)
  <2>1. lines > 0 => n > 0
    BY <1>0, <1>1
  <2>2. \A i \in 1..n : list[i] = lines + i - n
    <3> SUFFICES ASSUME NEW i \in 1..n PROVE list[i] = lines + i - n
      OBVIOUS
    <3>1. n \in Nat /\ n <= Len(entries)
      BY <1>0, <1>1
    <3>2. n + 1 - i \in 1..n /\ n + 1 - i \in 1..Len(entries)
      BY <3>1, <1>0
    <3>3. list[i] = entries[n + 1 - i] /\ entries[n + 1 - i] = lines + 1 - (n + 1 - i)
      BY <3>2, <1>0, <1>1, <1>2
    <3> QED
      BY <3>1, <3>3, <1>0
  <2> QED
    BY <2>1, <2>2, <1>2 DEF Unbroken
<1>5. sent' \in [Streams -> Seq(Nat)] /\ sent'[s] = list /\ \A t \in Streams \ {s} : sent'[t] = sent[t]
  BY <1>0, <1>2, <1>3
<1>6. \A t \in listeners' \cap Streams : Unbroken(sent[t])'
  <2> SUFFICES ASSUME NEW t \in listeners' \cap Streams PROVE Unbroken(sent[t])'
    OBVIOUS
  <2>1. CASE t = s
    BY <2>1, <1>3, <1>4, <1>5 DEF Unbroken
  <2>2. CASE t # s
    <3>1. Unbroken(sent[t]) /\ sent'[t] = sent[t]
      BY <2>2, <1>3, <1>5 DEF StreamInv
    <3> QED
      BY <3>1, <1>3 DEF Unbroken
  <2> QED
    BY <2>1, <2>2
<1>7. LogTypes'
  BY <1>3, <1>5 DEF StreamInv, LogTypes
<1> QED
  BY <1>3, <1>6, <1>7 DEF StreamInv, EntriesAreNewest

LEMMA StreamInvStep == StreamInv /\ [LogNext]_logVars => StreamInv'
<1> SUFFICES ASSUME StreamInv, [LogNext]_logVars PROVE StreamInv'
  OBVIOUS
<1>1. CASE AppendEntry
  BY <1>1, AppendStep
<1>2. ASSUME NEW s \in Streams, SendKept(s) PROVE StreamInv'
  BY <1>2, SendStep
<1>3. ASSUME NEW s \in Streams,
             Attach(s) \/ TailDocker(s) \/ TailPm2(s) \/ Detach(s) \/ ClientCloses(s)
      PROVE  StreamInv'
  <2>1. UNCHANGED <<lines, entries, sent>> /\ listeners' \subseteq listeners
    BY <1>3 DEF Attach, TailDocker, TailPm2, Detach, ClientCloses
  <2>2. LogTypes'
    <3>0. LogTypes
      BY DEF StreamInv
    <3>1. CASE Attach(s)
      BY <3>0, <3>1 DEF Attach, StepTo, LogTypes
    <3>2. CASE TailDocker(s)
      BY <3>0, <3>2 DEF TailDocker, StepTo, LogTypes
    <3>3. CASE TailPm2(s)
      BY <3>0, <3>3 DEF TailPm2, StepTo, LogTypes
    <3>4. CASE Detach(s)
      BY <3>0, <3>4 DEF Detach, StepTo, LogTypes
    <3>5. CASE ClientCloses(s)
      BY <3>0, <3>5 DEF ClientCloses, LogTypes
    <3> QED
      BY <1>3, <3>1, <3>2, <3>3, <3>4, <3>5
  <2> QED
    BY <2>1, <2>2 DEF StreamInv, EntriesAreNewest, Unbroken
<1>4. CASE UNCHANGED logVars \/ \E t \in tails : TailEnds(t)
  <2>1. UNCHANGED <<lines, entries, listeners, sent, at, docker>>
    BY <1>4 DEF TailEnds, logVars
  <2> QED
    BY <2>1 DEF StreamInv, LogTypes, EntriesAreNewest, Unbroken
<1> QED
  BY <1>1, <1>2, <1>3, <1>4 DEF LogNext

(* A stream that steps from one counted place to another counts as before. *)
LEMMA FeedKept ==
  ASSUME FeedInv, LogTypes, NEW s \in Streams, at[s] \notin {"idle", "closed"},
         NEW to \in {"model", "lock", "attached", "live", "missed"}, StepTo(s, to), subscribers' = subscribers,
         docker => docker', docker' => "docker" \in tails' \/ ended', to \in {"lock", "attached", "live"} => docker'
  PROVE  FeedInv'
<1>1. at'[s] = to /\ \A t \in Streams \ {s} : at'[t] = at[t]
  BY DEF StepTo, LogTypes
<1>2. Counted' = Counted
  BY <1>1 DEF Counted
<1>3. \A t \in Streams : at'[t] \in {"lock", "attached", "live"} => docker'
  BY <1>1 DEF FeedInv
<1> QED
  BY <1>2, <1>3 DEF FeedInv

LEMMA FeedStep ==
  ASSUME FeedInv, LogTypes, [LogNext]_logVars
  PROVE  FeedInv'
<1>1. ASSUME NEW s \in Streams, Attach(s) PROVE FeedInv'
  <2>1. at'[s] \in {"model", "attached"} /\ (at'[s] = "attached" => docker) /\ at[s] = "idle"
        /\ \A t \in Streams \ {s} : at'[t] = at[t]
    BY <1>1 DEF Attach, StepTo, LogTypes
  <2>2. Counted' = Counted \cup {s} /\ s \notin Counted
    BY <2>1 DEF Counted
  <2>3. IsFiniteSet(Counted') /\ Cardinality(Counted') = Cardinality(Counted) + 1
    BY <2>2, FS_AddElement DEF FeedInv
  <2>4. \A t \in Streams : at'[t] \in {"lock", "attached", "live"} => docker
    BY <2>1 DEF FeedInv
  <2> QED
    BY <1>1, <2>3, <2>4 DEF FeedInv, Attach
<1>2. ASSUME NEW s \in Streams, Detach(s) PROVE FeedInv'
  <2>1. at'[s] = "closed" /\ at[s] = "live" /\ \A t \in Streams \ {s} : at'[t] = at[t]
    BY <1>2 DEF Detach, StepTo, LogTypes
  <2>2. Counted' = Counted \ {s} /\ s \in Counted
    BY <2>1 DEF Counted
  <2>3. IsFiniteSet(Counted') /\ Cardinality(Counted') = Cardinality(Counted) - 1
    BY <2>2, FS_RemoveElement DEF FeedInv
  <2>4. Cardinality(Counted) \in Nat /\ Cardinality(Counted') \in Nat
    BY <2>3, FS_CardinalityType DEF FeedInv
  <2>5. subscribers' = Cardinality(Counted')
    BY <1>2, <2>3, <2>4 DEF FeedInv, Detach
  <2>6. CASE subscribers > 1
    <3>1. UNCHANGED <<docker, tails, ended>>
      BY <1>2, <2>6 DEF Detach
    <3> QED
      BY <2>1, <2>3, <2>5, <3>1 DEF FeedInv
  <2>7. CASE ~(subscribers > 1)
    <3>1. Cardinality(Counted') = 0
      BY <2>3, <2>4, <2>7 DEF FeedInv
    <3>2. Counted' = {}
      BY <2>3, <3>1, FS_EmptySet
    <3>3. \A t \in Streams : at'[t] \in {"idle", "closed"}
      BY <3>2 DEF Counted
    <3>4. docker' = FALSE
      BY <1>2, <2>7 DEF Detach
    <3> QED
      BY <2>3, <2>5, <3>3, <3>4 DEF FeedInv
  <2> QED
    BY <2>6, <2>7
<1>3. ASSUME NEW s \in Streams, TailDocker(s) PROVE FeedInv'
  BY <1>3, FeedKept DEF TailDocker, FeedInv
<1>4. ASSUME NEW s \in Streams, TailPm2(s) PROVE FeedInv'
  BY <1>4, FeedKept DEF TailPm2, FeedInv
<1>5. ASSUME NEW s \in Streams, SendKept(s) PROVE FeedInv'
  <2>1. PICK to \in {"missed", "live"} : StepTo(s, to)
    BY <1>5 DEF SendKept
  <2> QED
    BY <1>5, <2>1, FeedKept DEF SendKept, FeedInv
<1>6. ASSUME UNCHANGED <<at, subscribers, docker, tails, ended>> PROVE FeedInv'
  BY <1>6 DEF FeedInv, Counted
<1>7. ASSUME NEW t \in tails, TailEnds(t) PROVE FeedInv'
  <2>1. docker' => "docker" \in tails' \/ ended'
    BY <1>7 DEF TailEnds, FeedInv
  <2> QED
    BY <1>7, <2>1 DEF TailEnds, FeedInv, Counted
<1> QED
  BY <1>1, <1>2, <1>3, <1>4, <1>5, <1>6, <1>7 DEF LogNext, AppendEntry, ClientCloses, logVars

LEMMA StreamInit == LogInit => StreamInv /\ FeedInv
<1> SUFFICES ASSUME LogInit PROVE StreamInv /\ FeedInv
  OBVIOUS
<1>1. StreamInv
  <2>1. <<>> \in Seq(Nat) /\ Len(<<>>) = 0
    OBVIOUS
  <2>2. LogTypes
    BY <2>1 DEF LogInit, LogTypes
  <2>3. Len(entries) = 0 /\ lines = 0 /\ listeners = {}
    BY <2>1 DEF LogInit
  <2>4. EntriesAreNewest
    BY <2>3 DEF EntriesAreNewest
  <2> QED
    BY <2>2, <2>3, <2>4 DEF StreamInv
<1>2. Counted = {}
  BY DEF LogInit, Counted
<1>3. FeedInv
  BY <1>2, FS_EmptySet DEF LogInit, FeedInv
<1> QED
  BY <1>1, <1>3

LEMMA StreamInvariance == LogSpec => [](StreamInv /\ FeedInv)
<1>1. StreamInv /\ FeedInv /\ [LogNext]_logVars => (StreamInv /\ FeedInv)'
  BY StreamInvStep, FeedStep DEF StreamInv
<1> QED
  BY StreamInit, <1>1, PTL DEF LogSpec

(* Listeners are streams: only a handler subscribes. *)
LEMMA ListenersAreStreams == LogSpec => [](listeners \subseteq Streams)
<1>1. LogInit => listeners \subseteq Streams
  BY DEF LogInit
<1>2. listeners \subseteq Streams /\ [LogNext]_logVars => (listeners \subseteq Streams)'
  BY DEF LogNext, AppendEntry, Attach, TailDocker, TailPm2, SendKept, Detach, ClientCloses,
         TailEnds, logVars
<1> QED
  BY <1>1, <1>2, PTL DEF LogSpec

(* For any number of clients, entries and limits, what a client was sent   *)
(* is one unbroken run of entries up to the newest: nothing is lost or     *)
(* doubled between the history and the subscription (http/server.ts).      *)
THEOREM StreamsAreUnbroken == LogSpec => []StreamIsUnbroken
<1>1. StreamInv /\ listeners \subseteq Streams => StreamIsUnbroken
  <2> SUFFICES ASSUME StreamInv, listeners \subseteq Streams, NEW s \in listeners
               PROVE  /\ \A i \in 1..(Len(sent[s]) - 1) : sent[s][i + 1] = sent[s][i] + 1
                      /\ sent[s] # <<>> => sent[s][Len(sent[s])] = lines
                      /\ lines > 0 => sent[s] # <<>>
    BY DEF StreamIsUnbroken
  <2> DEFINE list == sent[s]
             n == Len(list)
  <2>1. list \in Seq(Nat) /\ lines \in Nat /\ (lines > 0 => list # <<>>)
        /\ \A i \in 1..n : list[i] = lines + i - n
    BY DEF StreamInv, LogTypes, Unbroken
  <2>2. n \in Nat /\ (list # <<>> => n > 0)
    BY <2>1, EmptySeq
  <2> HIDE DEF list, n
  <2>3. \A i \in 1..(n - 1) : list[i + 1] = list[i] + 1
    <3> SUFFICES ASSUME NEW i \in 1..(n - 1) PROVE list[i + 1] = list[i] + 1
      OBVIOUS
    <3>1. i \in 1..n /\ i + 1 \in 1..n
      BY <2>2
    <3>2. list[i] = lines + i - n /\ list[i + 1] = lines + (i + 1) - n
      BY <3>1, <2>1
    <3> QED
      BY <3>2, <2>1, <2>2
  <2>4. list # <<>> => list[n] = lines
    <3> SUFFICES ASSUME list # <<>> PROVE list[n] = lines
      OBVIOUS
    <3>1. n \in 1..n
      BY <2>2
    <3>2. list[n] = lines + n - n
      BY <3>1, <2>1
    <3> QED
      BY <3>2, <2>1, <2>2
  <2> QED
    BY <2>1, <2>3, <2>4 DEF list, n
<1> QED
  BY <1>1, StreamInvariance, ListenersAreStreams, PTL

(* For the same, while a client is served the docker tail runs until it    *)
(* ends by itself: detachLiveLogs stops it only with the last subscriber.  *)
THEOREM LiveStreamsAreFed == LogSpec => []LiveStreamIsFed
<1>1. FeedInv => LiveStreamIsFed
  BY DEF FeedInv, LiveStreamIsFed
<1> QED
  BY <1>1, StreamInvariance, PTL

=============================================================================
