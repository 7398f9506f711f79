------------------------- MODULE Pm2WorkspaceProofs -------------------------
(***************************************************************************)
(* Proofs about Pm2WorkspaceLock and Pm2Workspace for any number of calls  *)
(* and processes.                                                          *)
(***************************************************************************)
EXTENDS Pm2Workspace, TLAPS

USE LockAssumption, WorkspaceAssumption

-----------------------------------------------------------------------------
(* The lock on its own                                                     *)

(* Every variable of the lock keeps its type, whenever processes end.      *)
LEMMA LockTypeStep == LockTypeOK /\ [LockNext]_lockVars => LockTypeOK'
<1> SUFFICES ASSUME LockTypeOK, [LockNext]_lockVars PROVE LockTypeOK'
  OBVIOUS
<1> USE DEF LockTypeOK, Steps
<1>1. ASSUME NEW c \in Calls, Request(c) PROVE LockTypeOK'
  BY <1>1 DEF Request, Goto
<1>2. ASSUME NEW c \in Calls, Mkdir(c) PROVE LockTypeOK'
  BY <1>2 DEF Mkdir, Goto
<1>3. ASSUME NEW c \in Calls, WriteOwner(c) PROVE LockTypeOK'
  BY <1>3 DEF WriteOwner, Goto
<1>4. ASSUME NEW c \in Calls, ReadOwner(c) PROVE LockTypeOK'
  BY <1>4 DEF ReadOwner, Goto
<1>5. ASSUME NEW c \in Calls, Judge(c) PROVE LockTypeOK'
  BY <1>5 DEF Judge, Goto
<1>6. ASSUME NEW c \in Calls, RemoveStale(c) PROVE LockTypeOK'
  BY <1>6 DEF RemoveStale, RemoveDirectory, Goto
<1>7. ASSUME NEW c \in Calls, Release(c) PROVE LockTypeOK'
  BY <1>7 DEF Release, RemoveDirectory, Goto
<1>8. ASSUME NEW p \in Procs, Die(p) PROVE LockTypeOK'
  BY <1>8 DEF Die
<1>9. CASE Tick
  BY <1>9 DEF Tick
<1>10. CASE UNCHANGED lockVars
  BY <1>10 DEF lockVars
<1> QED
  BY <1>1, <1>2, <1>3, <1>4, <1>5, <1>6, <1>7, <1>8, <1>9, <1>10
     DEF LockNext, Acquire

(* Type correctness of the lock, for "quiet" and for "any" process ends.   *)
THEOREM LockTypeCorrect == LockSpec => []LockTypeOK
<1>1. LockInit => LockTypeOK
  BY DEF LockInit, LockTypeOK, Steps
<1> QED
  BY <1>1, LockTypeStep, PTL DEF LockSpec

(* In a quiet workspace a step of any call, process or clock preserves the *)
(* inductive invariant: a directory always has exactly one live maker, its *)
(* pid is what a waiter reads, and no waiter ever finds it stale.          *)
LEMMA LockInvStep ==
  ASSUME Deaths = "quiet", LockTypeOK, LockInv, [LockNext]_lockVars
  PROVE  LockInv'
<1> USE DEF LockTypeOK, Steps, LockInv, MutualExclusion, HolderIsRecorded,
            OwnerlessIsYoung, DirectoryIsHeld, NobodyRemoves, AbsentIsBlank,
            OnlyLiveCallsRun, Holds
<1>1. ASSUME NEW c \in Calls, Request(c) PROVE LockInv'
  BY <1>1 DEF Request, Goto
<1>2. ASSUME NEW c \in Calls, Mkdir(c) PROVE LockInv'
  <2>1. CASE dir = "absent"
    <3>1. \A d \in Calls : ~Holds(d)
      BY <2>1
    <3>2. /\ dir' = "present" /\ owner' = NoOwner /\ age' = 0
          /\ pc' = [pc EXCEPT ![c] = "write"] /\ UNCHANGED <<seen, alive>>
      BY <1>2, <2>1 DEF Mkdir, Goto
    <3>3. \A d \in Calls : Holds(d)' => d = c
      BY <3>1, <3>2
    <3>4. MutualExclusion' /\ OwnerlessIsYoung' /\ AbsentIsBlank'
      BY <3>2, <3>3
    <3>5. HolderIsRecorded'
      BY <1>2, <3>1, <3>2 DEF Mkdir
    <3>6. DirectoryIsHeld' /\ NobodyRemoves' /\ OnlyLiveCallsRun'
      BY <1>2, <3>1, <3>2 DEF Mkdir
    <3> QED
      BY <3>4, <3>5, <3>6
  <2>2. CASE dir = "present"
    BY <1>2, <2>2 DEF Mkdir, Goto
  <2> QED
    BY <2>1, <2>2
<1>3. ASSUME NEW c \in Calls, WriteOwner(c) PROVE LockInv'
  BY <1>3 DEF WriteOwner, Goto
<1>4. ASSUME NEW c \in Calls, ReadOwner(c) PROVE LockInv'
  BY <1>4 DEF ReadOwner, Goto
<1>5. ASSUME NEW c \in Calls, Judge(c) PROVE LockInv'
  BY <1>5 DEF Judge, OwnerDead, OwnerlessTooLong, Goto
<1>6. ASSUME NEW c \in Calls, RemoveStale(c) PROVE LockInv'
  BY <1>6 DEF RemoveStale
<1>7. ASSUME NEW c \in Calls, Release(c) PROVE LockInv'
  BY <1>7 DEF Release, RemoveDirectory, Goto
<1>8. ASSUME NEW p \in Procs, Die(p) PROVE LockInv'
  BY <1>8 DEF Die, Quiet
<1>9. CASE Tick
  BY <1>9 DEF Tick, Prompt
<1>10. CASE UNCHANGED lockVars
  BY <1>10 DEF lockVars
<1> QED
  BY <1>1, <1>2, <1>3, <1>4, <1>5, <1>6, <1>7, <1>8, <1>9, <1>10
     DEF LockNext, Acquire

(* Mutual exclusion of the guarded PM2 operations, for any number of calls *)
(* in any number of processes that time out and end, as long as no process *)
(* ends while it holds the lock or is being judged.                        *)
THEOREM LockMutualExclusion ==
  Deaths = "quiet" => (LockSpec => []MutualExclusion)
<1> SUFFICES ASSUME Deaths = "quiet" PROVE LockSpec => []MutualExclusion
  OBVIOUS
<1>1. LockInit => LockInv
  BY DEF LockInit, LockInv, MutualExclusion, HolderIsRecorded, OwnerlessIsYoung,
         DirectoryIsHeld, NobodyRemoves, AbsentIsBlank, OnlyLiveCallsRun, Holds
<1>2. LockTypeOK /\ LockInv /\ [LockNext]_lockVars => LockInv'
  BY LockInvStep
<1>3. LockInv => MutualExclusion
  BY DEF LockInv
<1> QED
  BY <1>1, <1>2, <1>3, LockTypeCorrect, PTL DEF LockSpec

-----------------------------------------------------------------------------
(* The guarded operations                                                  *)

(* Whatever a guarded call does, the lock takes one of its own steps or    *)
(* none.                                                                   *)
LEMMA WorkspaceStepsAreLockSteps == [Next]_vars => [LockNext]_lockVars
<1> SUFFICES ASSUME [Next]_vars PROVE [LockNext]_lockVars
  OBVIOUS
<1>1. CASE LockStep
  BY <1>1 DEF LockStep, LockNext
<1>2. ASSUME NEW c \in Calls,
             Inspect(c) \/ Ping(c) \/ DaemonUp(c) \/ Cut(c) \/ Recheck(c)
      PROVE  UNCHANGED lockVars
  BY <1>2 DEF Inspect, Ping, DaemonUp, Cut, Recheck
<1>3. ASSUME NEW c \in Calls, Return(c) PROVE LockNext
  BY <1>3 DEF Return, LockNext
<1>4. ASSUME NEW p \in Procs, End(p) PROVE LockNext
  BY <1>4 DEF End, LockNext
<1>5. CASE OrphanUp \/ DaemonExits \/ DaemonHangs \/ UserCleans \/ Settle
  BY <1>5 DEF OrphanUp, DaemonExits, DaemonHangs, UserCleans, Settle
<1>6. CASE UNCHANGED vars
  BY <1>6 DEF vars
<1> QED
  BY <1>1, <1>2, <1>3, <1>4, <1>5, <1>6 DEF Next

(* Type correctness of the composed specification.                         *)
THEOREM TypeCorrect == Spec => []TypeOK
<1>1. Init => TypeOK
  <2> SUFFICES ASSUME Init PROVE TypeOK
    OBVIOUS
  <2>1. LockTypeOK
    BY DEF Init, LockInit, LockTypeOK, Steps
  <2>2. daemons \in Nat /\ orphans \in Nat
    BY DEF Init
  <2>3. reachable \in BOOLEAN /\ artifacts \in BOOLEAN /\ strained \in BOOLEAN
    BY Zenon DEF Init
  <2>4. phase \in [Calls -> Phases]
    BY DEF Init, Phases
  <2> QED
    BY <2>1, <2>2, <2>3, <2>4 DEF TypeOK
<1>2. TypeOK /\ [Next]_vars => TypeOK'
  <2> SUFFICES ASSUME TypeOK, [Next]_vars PROVE TypeOK'
    OBVIOUS
  <2> USE DEF TypeOK, Phases
  <2>1. LockTypeOK'
    BY LockTypeStep, WorkspaceStepsAreLockSteps
  <2>2. CASE LockStep
    <3>1. UNCHANGED <<daemons, reachable, artifacts, phase, orphans, strained>>
      BY <2>2 DEF LockStep, daemonVars
    <3> QED
      BY <2>1, <3>1
  <2>3. ASSUME NEW c \in Calls, Inspect(c) \/ Ping(c) \/ Recheck(c) PROVE TypeOK'
    BY <2>1, <2>3 DEF Inspect, Ping, Recheck, Proceed, daemonVars
  <2>4. ASSUME NEW c \in Calls, DaemonUp(c) \/ Cut(c) PROVE TypeOK'
    <3>1. phase' \in [Calls -> Phases]
      BY <2>4 DEF DaemonUp, Cut, Proceed
    <3>2. daemons' \in {daemons, daemons + 1} /\ orphans' \in {orphans, orphans + 1}
      BY <2>4 DEF DaemonUp, DaemonRises, Cut, daemonVars
    <3>3. reachable' \in BOOLEAN /\ artifacts' \in BOOLEAN /\ strained' \in BOOLEAN
      BY <2>4 DEF DaemonUp, DaemonRises, Cut, daemonVars
    <3> QED
      BY <2>1, <3>1, <3>2, <3>3
  <2>6. ASSUME NEW c \in Calls, Return(c) PROVE TypeOK'
    BY <2>1, <2>6 DEF Return, Proceed, daemonVars
  <2>7. ASSUME NEW p \in Procs, End(p) PROVE TypeOK'
    <3>1. phase' \in [Calls -> Phases] /\ UNCHANGED daemonVars
      BY <2>7 DEF End
    <3>2. orphans' \in {orphans, orphans + 1} /\ strained' \in BOOLEAN
      <4>1. CASE \E c \in Calls : ProcOf[c] = p /\ phase[c] = "launch"
        BY <2>7, <4>1 DEF End
      <4>2. CASE ~ \E c \in Calls : ProcOf[c] = p /\ phase[c] = "launch"
        BY <2>7, <4>2 DEF End
      <4> QED
        BY <4>1, <4>2
    <3> QED
      BY <2>1, <3>1, <3>2 DEF daemonVars
  <2>8. CASE OrphanUp \/ DaemonExits
    <3>1. daemons' \in {daemons, daemons + 1} \/ (daemons > 0 /\ daemons' = daemons - 1)
      BY <2>8 DEF OrphanUp, DaemonRises, DaemonExits, daemonVars
    <3>3. orphans' = orphans \/ (orphans > 0 /\ orphans' = orphans - 1)
      BY <2>8 DEF OrphanUp, DaemonExits
    <3>4. phase' = phase /\ strained' = strained
      BY <2>8 DEF OrphanUp, DaemonExits
    <3>5. daemons' \in Nat /\ orphans' \in Nat
      BY <3>1, <3>3
    <3>2. reachable' \in BOOLEAN /\ artifacts' \in BOOLEAN
      BY <2>8 DEF OrphanUp, DaemonRises, DaemonExits, daemonVars
    <3> QED
      BY <2>1, <3>2, <3>4, <3>5
  <2>9. CASE DaemonHangs
    <3>1. strained' \in BOOLEAN
      BY <2>9, Zenon DEF DaemonHangs
    <3> QED
      BY <2>1, <2>9, <3>1 DEF DaemonHangs
  <2>10. CASE UserCleans \/ Settle
    BY <2>1, <2>10 DEF UserCleans, Settle, daemonVars
  <2>11. CASE UNCHANGED vars
    BY <2>1, <2>11 DEF vars, daemonVars
  <2> QED
    BY <2>2, <2>3, <2>4, <2>6, <2>7, <2>8, <2>9, <2>10, <2>11 DEF Next
<1> QED
  BY <1>1, <1>2, PTL DEF Spec

-----------------------------------------------------------------------------
(* The daemon guard, in a quiet workspace                                  *)

(* While a caller is between its inspection and its second look, no other  *)
(* caller is, so what it inspected can change only by the daemon itself.   *)
LEMMA WorkspaceInvStep ==
  ASSUME Deaths = "quiet", TypeOK, LockInv, WorkspaceInv, [Next]_vars
  PROVE  WorkspaceInv'
<1> USE DEF TypeOK, Phases, WorkspaceInv, PhaseInsideLock, Calm, InspectionStands
<1>0. ASSUME NEW c \in Calls, NEW d \in Calls, pc[c] = "held", pc[d] = "held"
      PROVE  c = d
  BY <1>0 DEF LockInv, MutualExclusion, Holds
<1>1. CASE LockStep
  <2>1. UNCHANGED <<daemons, reachable, artifacts, phase, orphans, strained>>
    BY <1>1 DEF LockStep, daemonVars
  <2>2. ASSUME NEW c \in Calls, pc[c] = "held" PROVE pc'[c] = "held"
    BY <1>1, <2>2 DEF LockStep, Tick, Request, Acquire, Mkdir, WriteOwner,
                      ReadOwner, Judge, RemoveStale, Goto, LockTypeOK
  <2> QED
    BY <2>1, <2>2
<1>2. ASSUME NEW c \in Calls, Inspect(c) PROVE WorkspaceInv'
  BY <1>2 DEF Inspect, MayRun, Proceed, lockVars, daemonVars
<1>3. ASSUME NEW c \in Calls, Ping(c) PROVE WorkspaceInv'
  BY <1>3 DEF Ping, Proceed, lockVars, daemonVars
<1>4. ASSUME NEW c \in Calls, DaemonUp(c) PROVE WorkspaceInv'
  <2>1. \A d \in Calls : phase[d] # "inspect" => d = c
    BY <1>0, <1>4 DEF DaemonUp
  <2>2. phase'[c] \in {"run", "recheck"} /\ \A d \in Calls \ {c} : phase'[d] = "inspect"
    BY <1>4, <2>1 DEF DaemonUp, Proceed
  <2>3. PhaseInsideLock'
    BY <1>4, <2>2 DEF DaemonUp, lockVars
  <2>4. ~strained' => Calm'
    BY <1>4, <2>2 DEF DaemonUp, DaemonRises
  <2> QED
    BY <2>3, <2>4
<1>5. ASSUME NEW c \in Calls, Cut(c) PROVE WorkspaceInv'
  <2>1. PhaseInsideLock'
    BY <1>5 DEF Cut, Proceed, lockVars
  <2>2. ASSUME ~strained' PROVE Calm'
    BY <1>5, <2>2 DEF Cut, Proceed, daemonVars
  <2> QED
    BY <2>1, <2>2
<1>6. ASSUME NEW c \in Calls, Recheck(c) PROVE WorkspaceInv'
  BY <1>6 DEF Recheck, Proceed, lockVars, daemonVars
<1>7. ASSUME NEW c \in Calls, Return(c) PROVE WorkspaceInv'
  BY <1>7 DEF Return, Release, Goto, Proceed, daemonVars, LockTypeOK
<1>8. ASSUME NEW p \in Procs, End(p) PROVE WorkspaceInv'
  <2>1. \A c \in Calls : ProcOf[c] = p => phase[c] = "inspect"
    BY <1>8 DEF End, Die, Quiet, Holds
  <2>2. UNCHANGED <<phase, orphans, strained, daemonVars>>
    BY <1>8, <2>1 DEF End
  <2>3. PhaseInsideLock'
    BY <1>8, <2>1, <2>2 DEF End, Die, LockTypeOK
  <2> QED
    BY <2>2, <2>3 DEF daemonVars
<1>9. CASE OrphanUp
  BY <1>9 DEF OrphanUp, lockVars
<1>10. CASE DaemonExits
  BY <1>10 DEF DaemonExits, lockVars
<1>11. CASE DaemonHangs
  <2>1. PhaseInsideLock'
    BY <1>11 DEF DaemonHangs, lockVars
  <2>2. ASSUME ~strained' PROVE Calm'
    <3>1. ~strained /\ \A c \in Calls : phase[c] # "run"
      BY <1>11, <2>2 DEF DaemonHangs
    <3> QED
      BY <1>11, <3>1 DEF DaemonHangs
  <2> QED
    BY <2>1, <2>2
<1>12. CASE UserCleans \/ Settle
  BY <1>12 DEF UserCleans, Settle, lockVars, daemonVars
<1>13. CASE UNCHANGED vars
  BY <1>13 DEF vars, lockVars, daemonVars
<1> QED
  BY <1>1, <1>2, <1>3, <1>4, <1>5, <1>6, <1>7, <1>8, <1>9, <1>10, <1>11,
     <1>12, <1>13 DEF Next

(* The inductive invariant of the composed specification.                  *)
LEMMA Invariance ==
  Deaths = "quiet" => (Spec => [](TypeOK /\ LockInv /\ WorkspaceInv))
<1> SUFFICES ASSUME Deaths = "quiet"
             PROVE  Spec => [](TypeOK /\ LockInv /\ WorkspaceInv)
  OBVIOUS
<1>1. Init => LockInv
  BY DEF Init, LockInit, LockInv, MutualExclusion, HolderIsRecorded,
         OwnerlessIsYoung, DirectoryIsHeld, NobodyRemoves, AbsentIsBlank,
         OnlyLiveCallsRun, Holds
<1>2. Init => WorkspaceInv
  BY DEF Init, LockInit, WorkspaceInv, PhaseInsideLock, Calm, InspectionStands
<1>3. TypeOK /\ LockInv /\ [Next]_vars => LockInv'
  BY LockInvStep, WorkspaceStepsAreLockSteps DEF TypeOK
<1>4. TypeOK /\ LockInv /\ WorkspaceInv /\ [Next]_vars => WorkspaceInv'
  BY WorkspaceInvStep
<1> QED
  BY <1>1, <1>2, <1>3, <1>4, TypeCorrect, PTL DEF Spec

(* Two daemons share a PM2_HOME only in a strain, for any number of calls, *)
(* processes, time-outs, cut-off launches, daemon exits and hangs.         *)
THEOREM OneDaemonPerHome == Deaths = "quiet" => (Spec => []SingleDaemon)
<1>1. TypeOK /\ WorkspaceInv => SingleDaemon
  BY DEF TypeOK, WorkspaceInv, Calm, SingleDaemon
<1> QED
  BY <1>1, Invariance, PTL

(* The caller Inside names is the one that holds the lock.                 *)
LEMMA InsideIsHolder ==
  ASSUME MutualExclusion
  PROVE  /\ \A c \in Calls : Holds(c) => Inside = c
         /\ (\A c \in Calls : ~Holds(c)) => Inside = Nobody
BY DEF Inside, MutualExclusion

LEMMA InsideUnchanged ==
  ASSUME MutualExclusion, MutualExclusion', \A c \in Calls : Holds(c)' = Holds(c)
  PROVE  Inside' = Inside
<1>1. CASE \E c \in Calls : Holds(c)
  <2>1. PICK c \in Calls : Holds(c)
    BY <1>1
  <2>2. Inside = c
    BY <2>1, InsideIsHolder
  <2>3. Inside' = c
    BY <2>1 DEF Inside, MutualExclusion
  <2> QED
    BY <2>2, <2>3
<1>2. CASE \A c \in Calls : ~Holds(c)
  BY <1>2 DEF Inside
<1> QED
  BY <1>1, <1>2

(* The composed specification implements DaemonGuard: callers enter one at *)
(* a time, and outside a strain only a caller inside that finds no daemon  *)
(* launches one.                                                           *)
THEOREM WorkspaceImplementsGuard ==
  Deaths = "quiet" => (Spec => GuardSpec)
<1> SUFFICES ASSUME Deaths = "quiet" PROVE Spec => GuardSpec
  OBVIOUS
<1> USE DEF Guard!GuardNext, Guard!Enter, Guard!Leave, Guard!Launch,
            Guard!DaemonExit, Guard!StrainBegins, Guard!LateLaunch,
            Guard!StrainEnds, Guard!guardVars
<1>1. Init => Guard!GuardInit
  BY DEF Init, LockInit, Inside, Holds, Guard!GuardInit
<1>2. ASSUME TypeOK, LockInv, WorkspaceInv, LockInv', [Next]_vars
      PROVE  [Guard!GuardNext]_(Guard!guardVars)
  <2> USE <1>2 DEF TypeOK, LockTypeOK, LockInv
  <2>a. ASSUME NEW c \in Calls PROVE Holds(c) <=> pc[c] \in {"write", "held"}
    BY DEF Holds
  <2>b. ASSUME \A c \in Calls : Holds(c)' = Holds(c) PROVE Inside' = Inside
    BY <2>b, InsideUnchanged
  <2>1. ASSUME NEW c \in Calls, Mkdir(c), UNCHANGED <<daemonVars, strained>>
        PROVE  [Guard!GuardNext]_(Guard!guardVars)
    <3>1. CASE dir = "absent"
      <4>1. \A d \in Calls : ~Holds(d)
        BY <3>1 DEF HolderIsRecorded
      <4>2. Inside = Nobody
        BY <4>1, InsideIsHolder
      <4>3. Holds(c)'
        BY <2>1, <3>1 DEF Mkdir, Goto, Holds
      <4>4. Inside' = c
        BY <4>3 DEF Inside, MutualExclusion
      <4> QED
        BY <2>1, <4>2, <4>4 DEF daemonVars
    <3>2. CASE dir = "present"
      BY <2>1, <2>b, <3>2 DEF Mkdir, Goto, Holds, daemonVars
    <3> QED
      BY <3>1, <3>2
  <2>2. ASSUME NEW c \in Calls,
               Request(c) \/ ReadOwner(c) \/ Judge(c) \/ RemoveStale(c),
               UNCHANGED <<daemonVars, strained>>
        PROVE  [Guard!GuardNext]_(Guard!guardVars)
    BY <2>2, <2>b DEF Request, ReadOwner, Judge, RemoveStale, Goto, Holds,
                      daemonVars
  <2>3. ASSUME NEW c \in Calls, WriteOwner(c), UNCHANGED <<daemonVars, strained>>
        PROVE  [Guard!GuardNext]_(Guard!guardVars)
    <3>1. dir = "present"
      BY <2>3 DEF WriteOwner, HolderIsRecorded, Holds
    <3> QED
      BY <2>3, <2>b, <3>1 DEF WriteOwner, Goto, Holds, daemonVars
  <2>4. ASSUME Tick, UNCHANGED <<daemonVars, strained>>
        PROVE  [Guard!GuardNext]_(Guard!guardVars)
    BY <2>4, <2>b DEF Tick, Holds, daemonVars
  <2>5. ASSUME NEW c \in Calls, Return(c)
        PROVE  [Guard!GuardNext]_(Guard!guardVars)
    <3>1. Holds(c)
      BY <2>5 DEF Return, Release, Holds
    <3>2. Inside = c
      BY <3>1, InsideIsHolder
    <3>3. \A d \in Calls : ~Holds(d)'
      BY <2>5, <3>1 DEF Return, Release, Goto, Holds, MutualExclusion
    <3>4. Inside' = Nobody
      BY <3>3 DEF Inside
    <3> QED
      BY <2>5, <3>2, <3>4 DEF Return, daemonVars
  <2>6. ASSUME NEW c \in Calls, DaemonUp(c)
        PROVE  [Guard!GuardNext]_(Guard!guardVars)
    <3>1. Holds(c)
      BY <2>6 DEF DaemonUp, WorkspaceInv, PhaseInsideLock, Holds
    <3>2. Inside = c
      BY <3>1, InsideIsHolder
    <3>3. Inside' = Inside
      BY <2>6, <2>b DEF DaemonUp, lockVars, Holds
    <3>4. ~strained => daemons = 0
      BY <2>6 DEF DaemonUp, WorkspaceInv, Calm, InspectionStands
    <3> QED
      BY <2>6, <3>2, <3>3, <3>4 DEF DaemonUp, DaemonRises
  <2>7. ASSUME NEW c \in Calls, Cut(c)
        PROVE  [Guard!GuardNext]_(Guard!guardVars)
    <3>1. Holds(c)
      BY <2>7 DEF Cut, WorkspaceInv, PhaseInsideLock, Holds
    <3>2. Inside # Nobody
      BY <3>1, InsideIsHolder
    <3>3. Inside' = Inside
      BY <2>7, <2>b DEF Cut, lockVars, Holds
    <3> QED
      BY <2>7, <3>2, <3>3 DEF Cut, daemonVars
  <2>8. ASSUME NEW c \in Calls, Inspect(c) \/ Ping(c) \/ Recheck(c)
        PROVE  [Guard!GuardNext]_(Guard!guardVars)
    BY <2>8, <2>b DEF Inspect, Ping, Recheck, lockVars, daemonVars, Holds
  <2>9. ASSUME NEW p \in Procs, End(p)
        PROVE  [Guard!GuardNext]_(Guard!guardVars)
    <3>1. \A c \in Calls : ProcOf[c] = p => phase[c] = "inspect"
      BY <2>9 DEF End, Die, Quiet, Holds, WorkspaceInv, PhaseInsideLock
    <3>2. UNCHANGED <<strained, daemonVars>>
      BY <2>9, <3>1 DEF End
    <3> QED
      BY <2>9, <2>b, <3>2 DEF End, Die, Quiet, Holds, daemonVars
  <2>10. CASE OrphanUp
    <3>1. strained
      BY <2>10 DEF OrphanUp, WorkspaceInv, Calm
    <3> QED
      BY <2>10, <2>b, <3>1 DEF OrphanUp, DaemonRises, lockVars, daemonVars, Holds
  <2>11. CASE DaemonExits
    BY <2>11, <2>b DEF DaemonExits, lockVars, Holds
  <2>12. CASE DaemonHangs
    <3>1. Inside' = Inside
      BY <2>12, <2>b DEF DaemonHangs, lockVars, Holds
    <3>2. CASE \E c \in Calls : phase[c] = "run"
      <4>1. PICK c \in Calls : Holds(c)
        BY <3>2 DEF WorkspaceInv, PhaseInsideLock, Holds
      <4>2. Inside # Nobody
        BY <4>1, InsideIsHolder
      <4> QED
        BY <2>12, <3>1, <3>2, <4>2 DEF DaemonHangs
    <3>3. CASE ~ \E c \in Calls : phase[c] = "run"
      <4>1. strained' = strained
        BY <2>12, <3>3, Zenon DEF DaemonHangs
      <4> QED
        BY <2>12, <3>1, <4>1 DEF DaemonHangs
    <3> QED
      BY <3>2, <3>3
  <2>13. CASE Settle
    BY <2>13, <2>b DEF Settle, Calm, lockVars, daemonVars, Holds
  <2>14. CASE UserCleans \/ UNCHANGED vars
    BY <2>14, <2>b DEF UserCleans, vars, lockVars, daemonVars, Holds
  <2> QED
    BY <1>2, <2>1, <2>2, <2>3, <2>4, <2>5, <2>6, <2>7, <2>8, <2>9, <2>10,
       <2>11, <2>12, <2>13, <2>14 DEF Next, LockStep, Acquire
<1> QED
  BY <1>1, <1>2, Invariance, PTL DEF Spec, GuardSpec, Guard!GuardSpec
=============================================================================
