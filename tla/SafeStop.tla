------------------------------ MODULE SafeStop ------------------------------
(***************************************************************************)
(* Stopping a process from the console: the dialog of App.tsx, which asks  *)
(* for a review of the process and sends its identity token back with the  *)
(* confirmation, and reviewProcessTermination and terminateProcess of      *)
(* src/src/runtime/resources.ts, which inspect the process anew and signal *)
(* it if the token is still its own.  Answers come in any order, dialogs   *)
(* are closed and opened meanwhile, and the system reuses pids.            *)
(***************************************************************************)
EXTENDS Naturals

CONSTANTS
  ProcessIds,     \* pids
  Protected,      \* pid 1 and the dashboard's own
  Programs,       \* the name and command of a process
  NoTarget,        \* no process, no target, no review
  MaxMinutes,     \* bound: the age of a process, in minutes
  MaxCalls,       \* bound: requests of the console
  MaxEvents,      \* bound: processes that end, start or get a minute older
  ReusedInBetween \* may a pid be reused while terminateProcess looks at it?

ASSUME SafeStopAssumption ==
  /\ Protected \subseteq ProcessIds
  /\ NoTarget \notin ProcessIds \cup Programs
  /\ MaxMinutes \in Nat /\ MaxCalls \in Nat /\ MaxEvents \in Nat
  /\ ReusedInBetween \in BOOLEAN

VARIABLES
  process,     \* what runs under each pid: its program and age
  events,      \* of processes so far
  killTarget,  \* the process the dialog is about
  killReview,  \* the review the dialog shows, as its identity token
  calls,       \* requests of the console that have no answer yet
  callsMade,
  signalled    \* SIGTERMs sent: the pid, the program hit, the token confirmed

dialogVars == <<killTarget, killReview>>
callVars == <<calls, callsMade>>
processesVars == <<process, events>>
stopVars == <<processesVars, dialogVars, callVars, signalled>>

Process == [program : Programs \cup {NoTarget}, minute : 0..MaxMinutes]

(* identityToken: the pid, name, age in minutes and command. *)
Token == [pid : ProcessIds, program : Programs, minute : 0..MaxMinutes]

Call == [id : 1..MaxCalls, kind : {"review", "terminate"}, pid : ProcessIds,
         token : Token \cup {NoTarget}, found : Token \cup {NoTarget}]

SafeStopTypeOK ==
  /\ process \in [ProcessIds -> Process]
  /\ killTarget \in ProcessIds \cup {NoTarget}
  /\ killReview \in Token \cup {NoTarget}
  /\ calls \in SUBSET Call /\ callsMade \in 0..MaxCalls /\ events \in 0..MaxEvents
  /\ signalled \in SUBSET [pid : ProcessIds, program : Programs, token : Token]

StopInit ==
  /\ \E program \in Programs :
       process = [p \in ProcessIds |-> [program |-> program, minute |-> 0]]
  /\ killTarget = NoTarget /\ killReview = NoTarget
  /\ calls = {} /\ callsMade = 0
  /\ signalled = {} /\ events = 0

-----------------------------------------------------------------------------
Ask(kind, pid, token) ==
  /\ callsMade < MaxCalls
  /\ callsMade' = callsMade + 1
  /\ calls' = calls \cup {[id |-> callsMade + 1, kind |-> kind, pid |-> pid,
                           token |-> token, found |-> NoTarget]}

OpenSafeStop(p) ==
  /\ killTarget' = p
  /\ killReview' = NoTarget
  /\ Ask("review", p, NoTarget)
  /\ UNCHANGED <<processesVars, signalled>>

(* The review of a dialog may outlive it. *)
CloseDialog ==
  /\ killTarget # NoTarget
  /\ killTarget' = NoTarget
  /\ UNCHANGED <<processesVars, killReview, callVars, signalled>>

(* The button of the dialog, which stays enabled until the answer comes.   *)
ConfirmSafeStop ==
  /\ killTarget # NoTarget /\ killReview # NoTarget
  /\ killReview.pid \notin Protected
  /\ Ask("terminate", killTarget, killReview)
  /\ UNCHANGED <<processesVars, dialogVars, signalled>>

(* inspectProcess: ps finds the process, or there is none. *)
TokenOf(p) == [pid |-> p, program |-> process[p].program, minute |-> process[p].minute]

(* Whatever dialog is open when the confirmation ends, it is cleared. *)
CallEnds(c) ==
  /\ calls' = calls \ {c}
  /\ IF c.kind = "terminate" THEN killTarget' = NoTarget /\ killReview' = NoTarget
                             ELSE UNCHANGED dialogVars
  /\ UNCHANGED <<processesVars, callsMade, signalled>>

OfProtected(c) == c.kind = "terminate" /\ c.pid \in Protected

InspectProcess(c) ==
  /\ c.found = NoTarget /\ ~OfProtected(c)
  /\ IF process[c.pid].program = NoTarget THEN CallEnds(c)
     ELSE /\ calls' = (calls \ {c}) \cup {[c EXCEPT !.found = TokenOf(c.pid)]}
          /\ UNCHANGED <<processesVars, dialogVars, callsMade, signalled>>

RefuseProtected(c) == c.found = NoTarget /\ OfProtected(c) /\ CallEnds(c)

(* The answer of openSafeStop's request sets the review, whichever dialog  *)
(* is open by then.                                                        *)
ReviewArrives(c) ==
  /\ c.kind = "review" /\ c.found # NoTarget
  /\ killReview' = c.found
  /\ calls' = calls \ {c}
  /\ UNCHANGED <<processesVars, killTarget, callsMade, signalled>>

(* A mutant: the token is the name, age and command, without the pid. *)
SameIdentityElsewhere(token, found) ==
  token.program = found.program /\ token.minute = found.minute

SameIdentity(token, found) == token = found

(* PROCESS_CHANGED *)
RefuseChanged(c) ==
  /\ c.kind = "terminate" /\ c.found # NoTarget
  /\ ~SameIdentity(c.token, c.found)
  /\ CallEnds(c)

(* process.kill: the process ends now or later, or has ended before. *)
TerminateProcess(c) ==
  /\ c.kind = "terminate" /\ c.found # NoTarget
  /\ SameIdentity(c.token, c.found)
  /\ \/ /\ process[c.pid].program # NoTarget
        /\ signalled' = signalled \cup
             {[pid |-> c.pid, program |-> process[c.pid].program, token |-> c.token]}
        /\ \/ process' = [process EXCEPT ![c.pid].program = NoTarget]
           \/ UNCHANGED process
     \/ process[c.pid].program = NoTarget /\ UNCHANGED <<process, signalled>>
  /\ calls' = calls \ {c}
  /\ killTarget' = NoTarget /\ killReview' = NoTarget
  /\ UNCHANGED <<callsMade, events>>

-----------------------------------------------------------------------------
(* External: a process ends, a minute of its life passes, or a program     *)
(* starts under a free pid.  Between the ps and the kill of a request the  *)
(* system reuses no pid: it would have to go through all of them first.    *)
(* The protected processes live as long as the dashboard.                  *)
UnderReview(p) == \E c \in calls : c.kind = "terminate" /\ c.pid = p /\ c.found # NoTarget

ProcessChanges(p) ==
  /\ p \notin Protected /\ events < MaxEvents
  /\ events' = events + 1
  /\ \/ process[p].program # NoTarget /\ process' = [process EXCEPT ![p].program = NoTarget]
     \/ /\ process[p].program # NoTarget /\ process[p].minute < MaxMinutes
        /\ process' = [process EXCEPT ![p].minute = @ + 1]
     \/ /\ process[p].program = NoTarget
        /\ UnderReview(p) => ReusedInBetween
        /\ \E program \in Programs :
             process' = [process EXCEPT ![p] = [program |-> program, minute |-> 0]]
  /\ UNCHANGED <<dialogVars, callVars, signalled>>

StopNext ==
  \/ CloseDialog \/ ConfirmSafeStop
  \/ \E p \in ProcessIds : OpenSafeStop(p) \/ ProcessChanges(p)
  \/ \E c \in calls : \/ InspectProcess(c) \/ RefuseProtected(c) \/ ReviewArrives(c)
                      \/ RefuseChanged(c) \/ TerminateProcess(c)

StopSpec == StopInit /\ [][StopNext]_stopVars

-----------------------------------------------------------------------------
(* What is signalled is the process and the program whose review was       *)
(* confirmed, and never a protected one, although an answer may come late  *)
(* and show the review of one process in the dialog of another, a button   *)
(* may be pressed twice, and the pid may have gone to another program      *)
(* since the review.                                                       *)
TerminatedIsReviewed ==
  \A s \in signalled :
    /\ s.pid = s.token.pid /\ s.program = s.token.program
    /\ s.pid \notin Protected
=============================================================================
