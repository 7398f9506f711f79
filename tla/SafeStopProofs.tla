--------------------------- MODULE SafeStopProofs ---------------------------
(***************************************************************************)
(* Proofs about SafeStop for any processes, programs and number of         *)
(* requests, when no pid is reused between the ps and the kill of one      *)
(* request.                                                                *)
(***************************************************************************)
EXTENDS SafeStop, TLAPS

USE SafeStopAssumption

-----------------------------------------------------------------------------
LEMMA ProcessType ==
  ASSUME NEW p \in ProcessIds, process \in [ProcessIds -> Process]
  PROVE  /\ process[p].program \in Programs \cup {NoTarget}
         /\ process[p].minute \in 0..MaxMinutes
         /\ process[p].program # NoTarget => TokenOf(p) \in Token
BY DEF Process, Token, TokenOf

LEMMA AskType ==
  ASSUME SafeStopTypeOK, NEW kind \in {"review", "terminate"}, NEW p \in ProcessIds,
         NEW token \in Token \cup {NoTarget}, Ask(kind, p, token)
  PROVE  calls' \in SUBSET Call /\ callsMade' \in 0..MaxCalls
<1>1. callsMade + 1 \in 1..MaxCalls
  BY DEF SafeStopTypeOK, Ask
<1>2. [id |-> callsMade + 1, kind |-> kind, pid |-> p, token |-> token, found |-> NoTarget] \in Call
  BY <1>1 DEF Call
<1> QED
  BY <1>1, <1>2 DEF SafeStopTypeOK, Ask

LEMMA FoundType ==
  ASSUME NEW c \in Call, NEW token \in Token
  PROVE  [c EXCEPT !.found = token] \in Call
BY DEF Call

(* A call that ends takes no other call or dialog out of its type. *)
LEMMA DialogType ==
  ASSUME SafeStopTypeOK, NEW c \in calls, CallEnds(c)
  PROVE  SafeStopTypeOK'
BY DEF SafeStopTypeOK, CallEnds, dialogVars, processesVars

LEMMA SafeStopTypeStep == SafeStopTypeOK /\ [StopNext]_stopVars => SafeStopTypeOK'
<1> SUFFICES ASSUME SafeStopTypeOK, [StopNext]_stopVars PROVE SafeStopTypeOK'
  OBVIOUS
<1> USE DEF processesVars, dialogVars, callVars
<1>1. CASE CloseDialog
  BY <1>1 DEF CloseDialog, SafeStopTypeOK
<1>2. CASE ConfirmSafeStop
  <2>1. killTarget \in ProcessIds /\ killReview \in Token /\ Ask("terminate", killTarget, killReview)
    BY <1>2 DEF ConfirmSafeStop, SafeStopTypeOK
  <2>2. calls' \in SUBSET Call /\ callsMade' \in 0..MaxCalls
    BY <2>1, AskType
  <2> QED
    BY <1>2, <2>2 DEF ConfirmSafeStop, SafeStopTypeOK
<1>3. ASSUME NEW p \in ProcessIds, OpenSafeStop(p) PROVE SafeStopTypeOK'
  <2>1. Ask("review", p, NoTarget)
    BY <1>3 DEF OpenSafeStop
  <2>2. calls' \in SUBSET Call /\ callsMade' \in 0..MaxCalls
    BY <2>1, AskType
  <2> QED
    BY <1>3, <2>2 DEF OpenSafeStop, SafeStopTypeOK
<1>4. ASSUME NEW p \in ProcessIds, ProcessChanges(p) PROVE SafeStopTypeOK'
  <2>1. process' \in [ProcessIds -> Process] /\ events' \in 0..MaxEvents
    BY <1>4 DEF ProcessChanges, SafeStopTypeOK, Process
  <2> QED
    BY <1>4, <2>1 DEF ProcessChanges, SafeStopTypeOK
<1>5. ASSUME NEW c \in calls, InspectProcess(c) PROVE SafeStopTypeOK'
  <2>1. CASE process[c.pid].program = NoTarget
    BY <1>5, <2>1, DialogType DEF InspectProcess
  <2>2. CASE process[c.pid].program # NoTarget
    <3>1. c \in Call /\ c.pid \in ProcessIds
      BY DEF SafeStopTypeOK, Call
    <3>2. TokenOf(c.pid) \in Token
      BY <3>1, <2>2, ProcessType DEF SafeStopTypeOK
    <3>3. [c EXCEPT !.found = TokenOf(c.pid)] \in Call
      BY <3>1, <3>2, FoundType
    <3> QED
      BY <1>5, <2>2, <3>3 DEF InspectProcess, SafeStopTypeOK
  <2> QED
    BY <2>1, <2>2
<1>6. ASSUME NEW c \in calls, RefuseProtected(c) \/ RefuseChanged(c) PROVE SafeStopTypeOK'
  BY <1>6, DialogType DEF RefuseProtected, RefuseChanged
<1>7. ASSUME NEW c \in calls, ReviewArrives(c) PROVE SafeStopTypeOK'
  <2>1. c.found \in Token
    BY <1>7 DEF ReviewArrives, SafeStopTypeOK, Call
  <2> QED
    BY <1>7, <2>1 DEF ReviewArrives, SafeStopTypeOK
<1>8. ASSUME NEW c \in calls, TerminateProcess(c) PROVE SafeStopTypeOK'
  <2>1. c.pid \in ProcessIds /\ c.found \in Token /\ c.token = c.found
    BY <1>8 DEF TerminateProcess, SameIdentity, SafeStopTypeOK, Call
  <2>2. process' \in [ProcessIds -> Process]
    BY <1>8, <2>1 DEF TerminateProcess, SafeStopTypeOK, Process
  <2>3. signalled' \in SUBSET [pid : ProcessIds, program : Programs, token : Token]
    <3>1. CASE UNCHANGED signalled
      BY <3>1 DEF SafeStopTypeOK
    <3>2. CASE /\ process[c.pid].program # NoTarget
               /\ signalled' = signalled \cup
                    {[pid |-> c.pid, program |-> process[c.pid].program, token |-> c.token]}
      <4>1. process[c.pid].program \in Programs
        BY <2>1, <3>2, ProcessType DEF SafeStopTypeOK
      <4> QED
        BY <2>1, <3>2, <4>1 DEF SafeStopTypeOK
    <3> QED
      BY <1>8, <3>1, <3>2 DEF TerminateProcess
  <2> QED
    BY <1>8, <2>2, <2>3 DEF TerminateProcess, SafeStopTypeOK
<1>9. CASE UNCHANGED stopVars
  BY <1>9 DEF stopVars, SafeStopTypeOK
<1> QED
  BY <1>1, <1>2, <1>3, <1>4, <1>5, <1>6, <1>7, <1>8, <1>9 DEF StopNext

-----------------------------------------------------------------------------
(* What a confirmed request has found is its own pid, which is none of the *)
(* protected ones, and the program found still runs there or has ended.    *)
FoundIsCurrent ==
  \A c \in calls :
    c.kind = "terminate" /\ c.found # NoTarget =>
      /\ c.pid \notin Protected
      /\ c.found.pid = c.pid
      /\ process[c.pid].program \in {c.found.program, NoTarget}

StopInv == SafeStopTypeOK /\ FoundIsCurrent /\ TerminatedIsReviewed

LEMMA StopInvStep ==
  ASSUME ~ReusedInBetween, StopInv, [StopNext]_stopVars
  PROVE  StopInv'
<1> USE DEF StopInv, processesVars, dialogVars, callVars
<1>0. SafeStopTypeOK'
  BY SafeStopTypeStep
<1>1. ASSUME UNCHANGED <<process, signalled>>,
             \A d \in calls' : d.kind = "terminate" /\ d.found # NoTarget => d \in calls
      PROVE  StopInv'
  BY <1>0, <1>1 DEF FoundIsCurrent, TerminatedIsReviewed
<1>2. CASE CloseDialog \/ ConfirmSafeStop \/ \E p \in ProcessIds : OpenSafeStop(p)
  BY <1>1, <1>2 DEF CloseDialog, ConfirmSafeStop, OpenSafeStop, Ask
<1>3. ASSUME NEW c \in calls, RefuseProtected(c) \/ RefuseChanged(c) \/ ReviewArrives(c)
      PROVE  StopInv'
  BY <1>1, <1>3 DEF RefuseProtected, RefuseChanged, ReviewArrives, CallEnds
<1>4. ASSUME NEW c \in calls, InspectProcess(c) PROVE StopInv'
  <2>1. CASE process[c.pid].program = NoTarget
    BY <1>1, <1>4, <2>1 DEF InspectProcess, CallEnds
  <2>2. CASE process[c.pid].program # NoTarget
    <3> DEFINE e == [c EXCEPT !.found = TokenOf(c.pid)]
    <3>1. c \in Call
      BY DEF SafeStopTypeOK
    <3>2. e.kind = c.kind /\ e.pid = c.pid /\ e.found = TokenOf(c.pid)
      BY <3>1 DEF Call
    <3>3. calls' = (calls \ {c}) \cup {e} /\ UNCHANGED <<process, signalled>>
      BY <1>4, <2>2 DEF InspectProcess
    <3>4. c.kind = "terminate" => c.pid \notin Protected
      BY <1>4 DEF InspectProcess, OfProtected
    <3>5. e.found.pid = c.pid /\ e.found.program = process[c.pid].program
      BY <3>2 DEF TokenOf
    <3> QED
      BY <1>0, <3>2, <3>3, <3>4, <3>5 DEF FoundIsCurrent, TerminatedIsReviewed
  <2> QED
    BY <2>1, <2>2
<1>5. ASSUME NEW c \in calls, TerminateProcess(c) PROVE StopInv'
  <2>1. c \in Call /\ c.pid \in ProcessIds /\ c.found = c.token
    BY <1>5 DEF SafeStopTypeOK, Call, TerminateProcess, SameIdentity
  <2>2. /\ c.pid \notin Protected
        /\ c.token.pid = c.pid
        /\ process[c.pid].program \in {c.token.program, NoTarget}
    BY <1>5, <2>1 DEF TerminateProcess, FoundIsCurrent
  <2>3. TerminatedIsReviewed'
    BY <1>5, <2>2 DEF TerminateProcess, TerminatedIsReviewed
  <2>4. \A p \in ProcessIds : process'[p].program \in {process[p].program, NoTarget}
    BY <1>5, <2>1 DEF TerminateProcess, SafeStopTypeOK, Process
  <2>5. FoundIsCurrent'
    <3> SUFFICES ASSUME NEW d \in calls', d.kind = "terminate", d.found # NoTarget
                 PROVE  /\ d.pid \notin Protected
                        /\ d.found.pid = d.pid
                        /\ process'[d.pid].program \in {d.found.program, NoTarget}
      BY DEF FoundIsCurrent
    <3>1. d \in calls /\ d.pid \in ProcessIds
      BY <1>5 DEF TerminateProcess, SafeStopTypeOK, Call
    <3> QED
      BY <2>4, <3>1 DEF FoundIsCurrent
  <2> QED
    BY <1>0, <2>3, <2>5
<1>6. ASSUME NEW p \in ProcessIds, ProcessChanges(p) PROVE StopInv'
  <2>1. UNCHANGED <<calls, signalled>>
    BY <1>6 DEF ProcessChanges
  <2>2. TerminatedIsReviewed'
    BY <2>1 DEF TerminatedIsReviewed
  <2>3. \A q \in ProcessIds :
          process'[q].program \in {process[q].program, NoTarget} \/ ~UnderReview(q)
    <3>1. CASE \E program \in Programs :
                 process' = [process EXCEPT ![p] = [program |-> program, minute |-> 0]]
               /\ ~UnderReview(p)
      BY <3>1 DEF SafeStopTypeOK
    <3>2. CASE \/ process' = [process EXCEPT ![p].program = NoTarget]
               \/ process' = [process EXCEPT ![p].minute = @ + 1]
      BY <3>2 DEF SafeStopTypeOK, Process
    <3> QED
      BY <1>6, <3>1, <3>2 DEF ProcessChanges
  <2>4. FoundIsCurrent'
    <3> SUFFICES ASSUME NEW d \in calls, d.kind = "terminate", d.found # NoTarget
                 PROVE  /\ d.pid \notin Protected
                        /\ d.found.pid = d.pid
                        /\ process'[d.pid].program \in {d.found.program, NoTarget}
      BY <2>1 DEF FoundIsCurrent
    <3>1. d.pid \in ProcessIds /\ UnderReview(d.pid)
      BY DEF SafeStopTypeOK, Call, UnderReview
    <3> QED
      BY <2>3, <3>1 DEF FoundIsCurrent
  <2> QED
    BY <1>0, <2>2, <2>4
<1>7. CASE UNCHANGED stopVars
  BY <1>1, <1>7 DEF stopVars
<1> QED
  BY <1>2, <1>3, <1>4, <1>5, <1>6, <1>7 DEF StopNext

(* When the system reuses no pid between the ps and the kill of a request, *)
(* only the process and program whose review was confirmed are signalled,  *)
(* never a protected one, in whatever order requests are made and answered *)
(* and dialogs opened and closed (terminateProcess of resources.ts, the    *)
(* dialog of App.tsx).                                                     *)
THEOREM OnlyReviewedTerminated ==
  ~ReusedInBetween => (StopSpec => []TerminatedIsReviewed)
<1> SUFFICES ASSUME ~ReusedInBetween PROVE StopSpec => []TerminatedIsReviewed
  OBVIOUS
<1>1. StopInit => StopInv
  BY DEF StopInit, StopInv, SafeStopTypeOK, Process, FoundIsCurrent, TerminatedIsReviewed
<1>2. StopInv /\ [StopNext]_stopVars => StopInv'
  BY StopInvStep
<1>3. StopInv => TerminatedIsReviewed
  BY DEF StopInv
<1> QED
  BY <1>1, <1>2, <1>3, PTL DEF StopSpec
=============================================================================
