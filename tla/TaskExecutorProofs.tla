------------------------- MODULE TaskExecutorProofs -------------------------
(***************************************************************************)
(* Proofs about TaskExecutor for any calls, services, dependencies,        *)
(* processes and number of other programs' starts and ends.                *)
(***************************************************************************)
EXTENDS TaskExecutor, SequenceTheorems, TLAPS

-----------------------------------------------------------------------------
(* TaskExecutor: what a call and what the host holds. *)
Steps == {"idle", "resolve", "savelock", "relock", "done"} \cup Acting \cup Guarded
Activations == [service : Services, action : {"start", "restart", "stop"}, next : Nat \ {0}]
Identities == [pid : Pids, parent : Pids \cup {NoPid}, start : Nat]

CallTypes ==
  /\ depends \in [Services -> Seq(Services)]
  /\ lock \in Calls \cup {Nobody}
  /\ pc \in [Calls -> Steps]
  /\ stack \in [Calls -> Seq(Activations)]
  /\ \A c \in Calls : pc[c] \in Acting \cup {"resolve"} => stack[c] # <<>>
  /\ completed \in [Calls -> SUBSET Services]
  /\ result \in [Calls -> {"none", "ok", "failed"}]

LocalTypes ==
  /\ previous \in [Calls -> Pids \cup {NoPid}]
  /\ captured \in [Calls -> SUBSET Identities]
  /\ todo \in [Calls -> SUBSET Identities]
  /\ attempt \in [Calls -> Nat]

HostTypes ==
  /\ daemon \in BOOLEAN /\ saved \subseteq Names
  /\ row \in [Names -> [status : Statuses, pid : Pids \cup {NoPid}]]
  /\ startOf \in [Pids -> Nat] /\ parent \in [Pids -> Pids \cup {NoPid}]
  /\ foreign \subseteq Nat /\ clock \in Nat

ExecutorTypes == CallTypes /\ LocalTypes /\ HostTypes

LEMMA TopType ==
  ASSUME CallTypes, NEW c \in Calls, stack[c] # <<>>
  PROVE  /\ stack[c] \in Seq(Activations) /\ Len(stack[c]) \in Nat \ {0}
         /\ Top(c) \in Activations /\ Top(c) = stack[c][Len(stack[c])]
         /\ Top(c).service \in Services /\ Top(c).next \in Nat \ {0}
         /\ depends[Top(c).service] \in Seq(Services)
<1>1. stack[c] \in Seq(Activations) /\ Len(stack[c]) \in Nat \ {0}
  BY DEF CallTypes
<1>2. Top(c) \in Activations /\ Top(c) = stack[c][Len(stack[c])]
  BY <1>1 DEF Top, Last
<1> QED
  BY <1>1, <1>2 DEF Activations, CallTypes

(* The dependency that comes next is a service. *)
LEMMA NextType ==
  ASSUME CallTypes, NEW c \in Calls, stack[c] # <<>>, NEW d \in NextDependency(c)
  PROVE  /\ d \in Services /\ Top(c).action = "start"
         /\ Top(c).next <= Len(depends[Top(c).service]) /\ d = depends[Top(c).service][Top(c).next]
<1>1. /\ Top(c).action = "start" /\ Top(c).next <= Len(depends[Top(c).service])
      /\ d = depends[Top(c).service][Top(c).next]
  BY DEF NextDependency, StartsService
<1> QED
  BY <1>1, TopType

(* The call that is above an activation goes on where it was. *)
LEMMA Onwards ==
  ASSUME NEW rest \in Seq(Activations), rest # <<>>,
         NEW more, more = [rest EXCEPT ![Len(rest)].next = @ + 1]
  PROVE  /\ more \in Seq(Activations) /\ Len(more) = Len(rest)
         /\ \A i \in 1..(Len(rest) - 1) : more[i] = rest[i]
         /\ more[Len(rest)].service = rest[Len(rest)].service
         /\ more[Len(rest)].action = rest[Len(rest)].action
         /\ more[Len(rest)].next = rest[Len(rest)].next + 1
<1> DEFINE n == Len(rest)
           last == rest[n]
           act == [last EXCEPT !.next = last.next + 1]
<1>1. n \in Nat \ {0} /\ n \in 1..n
  OBVIOUS
<1>2. last \in Activations
  BY <1>1
<1> HIDE DEF last
<1>3. last.next \in Nat \ {0}
  BY <1>2 DEF Activations
<1>4. last.next + 1 \in Nat \ {0}
  BY <1>3
<1>5. act \in Activations /\ act.service = last.service /\ act.action = last.action
      /\ act.next = last.next + 1
  BY <1>2, <1>4 DEF Activations
<1>6. more = [rest EXCEPT ![n] = act]
  BY DEF last
<1> HIDE DEF act
<1>7. /\ more \in Seq(Activations) /\ Len(more) = n
      /\ \A j \in 1..n : more[j] = IF j = n THEN act ELSE rest[j]
  BY ONLY rest \in Seq(Activations), <1>1, <1>5, <1>6, ExceptSeq
<1> QED
  BY <1>1, <1>5, <1>7 DEF last

LEMMA AnswerStack ==
  ASSUME CallTypes, NEW c \in Calls, Len(stack[c]) > 1,
         stack' = [stack EXCEPT ![c] =
                    LET rest == Front(@) IN [rest EXCEPT ![Len(rest)].next = @ + 1]]
  PROVE  /\ stack'[c] \in Seq(Activations) /\ Len(stack'[c]) = Len(stack[c]) - 1
         /\ \A i \in 1..(Len(stack[c]) - 2) : stack'[c][i] = stack[c][i]
         /\ stack'[c][Len(stack[c]) - 1].service = stack[c][Len(stack[c]) - 1].service
         /\ stack'[c][Len(stack[c]) - 1].action = stack[c][Len(stack[c]) - 1].action
         /\ stack'[c][Len(stack[c]) - 1].next = stack[c][Len(stack[c]) - 1].next + 1
         /\ stack' = [stack EXCEPT ![c] = stack'[c]]
<1> DEFINE st == stack[c]
           rest == Front(st)
           n == Len(st) - 1
<1>1. st \in Seq(Activations) /\ stack \in [Calls -> Seq(Activations)]
  BY DEF CallTypes
<1>a. Len(st) > 1
  OBVIOUS
<1>2. Len(st) \in Nat /\ n \in Nat \ {0} /\ n < Len(st)
  <2>1. Len(st) \in Nat
    BY ONLY <1>1, LenProperties
  <2>2. n < Len(st)
    BY ONLY <2>1, <1>a
  <2>3. n \in Nat
    BY ONLY <2>1, <1>a
  <2>4. n > 0
    BY ONLY <2>1, <1>a
  <2> HIDE DEF n
  <2> QED
    BY ONLY <2>1, <2>2, <2>3, <2>4
<1>3. rest \in Seq(Activations) /\ Len(rest) = n /\ \A i \in 1..n : rest[i] = st[i]
  <2>1. \A i \in 1..n : st[i] \in Activations
    BY <1>1, <1>2
  <2>2. rest = SubSeq(st, 1, n)
    BY DEF Front
  <2>3. n \in Int /\ 1 \in Int /\ 1 <= n /\ n - 1 + 1 = n
    BY <1>2
  <2> HIDE DEF n
  <2> HIDE DEF rest
  <2>4. /\ rest \in Seq(Activations) /\ Len(rest) = n - 1 + 1
        /\ \A i \in 1..(n - 1 + 1) : rest[i] = st[1 + i - 1]
    BY ONLY <2>1, <2>2, <2>3, SubSeqProperties
  <2> QED
    BY <2>3, <2>4
<1>4. stack'[c] = [rest EXCEPT ![Len(rest)].next = @ + 1] /\ stack' = [stack EXCEPT ![c] = stack'[c]]
  BY <1>1
<1> HIDE DEF rest
<1>5. rest # <<>>
  BY <1>2, <1>3
<1>6. /\ stack'[c] \in Seq(Activations) /\ Len(stack'[c]) = Len(rest)
      /\ \A i \in 1..(Len(rest) - 1) : stack'[c][i] = rest[i]
      /\ stack'[c][Len(rest)].service = rest[Len(rest)].service
      /\ stack'[c][Len(rest)].action = rest[Len(rest)].action
      /\ stack'[c][Len(rest)].next = rest[Len(rest)].next + 1
  BY <1>3, <1>4, <1>5, Onwards
<1> HIDE DEF n, st
<1>7. /\ \A i \in 1..(n - 1) : stack'[c][i] = st[i]
      /\ rest[n] = st[n]
  BY <1>2, <1>3, <1>6
<1> QED
  BY SMTT(30), <1>2, <1>3, <1>4, <1>6, <1>7 DEF n, st

-----------------------------------------------------------------------------
LEMMA SettleTypes ==
  ASSUME CallTypes, LocalTypes, NEW c \in Calls, NEW outcome \in {"ok", "failed"}, Settle(c, outcome)
  PROVE  CallTypes' /\ LocalTypes'
<1>1. /\ pc' = [pc EXCEPT ![c] = "done"] /\ result' = [result EXCEPT ![c] = outcome]
      /\ stack' = [stack EXCEPT ![c] = <<>>] /\ completed' = [completed EXCEPT ![c] = {}]
      /\ depends' = depends /\ lock' \in {lock, Nobody}
  BY DEF Settle, Goto
<1>2. LocalTypes'
  BY DEF Settle, Forget, LocalTypes
<1>3. "done" \in Steps /\ "done" \notin Acting \cup {"resolve"}
  BY DEF Steps, Acting, Guarded
<1>4. \A d \in Calls : pc'[d] \in Acting \cup {"resolve"} => stack'[d] # <<>>
  BY <1>1, <1>3 DEF CallTypes
<1>5. stack' \in [Calls -> Seq(Activations)]
  BY <1>1 DEF CallTypes
<1> QED
  BY <1>1, <1>2, <1>3, <1>4, <1>5 DEF CallTypes

LEMMA AnswerTypes ==
  ASSUME CallTypes, LocalTypes, NEW c \in Calls, Answer(c)
  PROVE  CallTypes' /\ LocalTypes'
<1>1. CASE Settle(c, "ok")
  BY <1>1, SettleTypes
<1>2. CASE /\ Len(stack[c]) > 1
           /\ Goto(c, "resolve")
           /\ completed' = [completed EXCEPT ![c] =
                              IF StartsService(Top(c).action) THEN @ \cup {Top(c).service} ELSE @]
           /\ stack' = [stack EXCEPT ![c] =
                          LET rest == Front(@) IN [rest EXCEPT ![Len(rest)].next = @ + 1]]
           /\ lock' = IF lock = c THEN Nobody ELSE lock
           /\ Forget(c)
           /\ UNCHANGED <<depends, result>>
  <2>1. stack[c] # <<>>
    BY <1>2 DEF CallTypes
  <2>2. completed' \in [Calls -> SUBSET Services]
    BY <1>2, <2>1, TopType DEF CallTypes
  <2>3. stack' = [stack EXCEPT ![c] = stack'[c]] /\ stack'[c] \in Seq(Activations)
        /\ Len(stack'[c]) = Len(stack[c]) - 1
    BY <1>2, AnswerStack
  <2>4. stack'[c] # <<>>
    BY <1>2, <2>1, <2>3, TopType
  <2>5. stack' \in [Calls -> Seq(Activations)]
    BY <2>3 DEF CallTypes
  <2>6. \A d \in Calls \ {c} : stack'[d] = stack[d] /\ pc'[d] = pc[d]
    BY <1>2, <2>3 DEF CallTypes, Goto
  <2>7. pc' \in [Calls -> Steps]
    BY <1>2 DEF CallTypes, Goto, Steps
  <2>8. LocalTypes'
    BY <1>2 DEF Forget, LocalTypes
  <2>9. lock' \in Calls \cup {Nobody}
    BY <1>2 DEF CallTypes
  <2>10. \A d \in Calls : pc'[d] \in Acting \cup {"resolve"} => stack'[d] # <<>>
    BY <2>4, <2>6 DEF CallTypes
  <2> QED
    BY <1>2, <2>2, <2>5, <2>7, <2>8, <2>9, <2>10 DEF CallTypes
<1> QED
  BY <1>1, <1>2 DEF Answer

LEMMA GotoTypes ==
  ASSUME CallTypes, NEW c \in Calls, NEW step \in Steps, Goto(c, step),
         step \in Acting \cup {"resolve"} => stack[c] # <<>>,
         UNCHANGED <<depends, stack, completed, result>>, lock' \in Calls \cup {Nobody}
  PROVE  CallTypes'
<1>1. pc' \in [Calls -> Steps]
  BY DEF CallTypes, Goto
<1>2. \A d \in Calls : pc'[d] \in Acting \cup {"resolve"} => stack'[d] # <<>>
  BY DEF CallTypes, Goto
<1> QED
  BY <1>1, <1>2 DEF CallTypes

LEMMA ThenSaveTypes ==
  ASSUME CallTypes, LocalTypes, NEW c \in Calls, ThenSave(c)
  PROVE  CallTypes' /\ LocalTypes'
<1>1. LocalTypes'
  BY DEF ThenSave, Forget, LocalTypes
<1>2. Goto(c, "savelock") /\ lock' = Nobody /\ UNCHANGED <<depends, stack, completed, result>>
  BY DEF ThenSave, frameVars
<1>3. "savelock" \in Steps /\ "savelock" \notin Acting \cup {"resolve"}
  BY DEF Steps, Acting, Guarded
<1> QED
  BY <1>1, <1>2, <1>3, GotoTypes

LEMMA QuietTypes ==
  ASSUME CallTypes, LocalTypes, NEW c \in Calls, NEW step \in Steps, Quietly(c, step),
         step \in Acting \cup {"resolve"} => stack[c] # <<>>
  PROVE  CallTypes' /\ LocalTypes'
<1>1. /\ Goto(c, step) /\ UNCHANGED <<depends, lock, stack, completed, result>>
      /\ UNCHANGED <<previous, captured, todo, attempt>>
  BY DEF Quietly, kept, frameVars, replaceVars
<1>2. LocalTypes'
  BY <1>1 DEF LocalTypes
<1>3. lock' \in Calls \cup {Nobody}
  BY <1>1 DEF CallTypes
<1> QED
  BY <1>1, <1>2, <1>3, GotoTypes

-----------------------------------------------------------------------------
LEMMA TryAgainTypes ==
  ASSUME CallTypes, LocalTypes, NEW c \in Calls, TryAgain(c)
  PROVE  CallTypes' /\ LocalTypes'
<1>1. CASE Fail(c)
  BY <1>1, SettleTypes DEF Fail
<1>2. CASE /\ attempt' = [attempt EXCEPT ![c] = @ + 1]
           /\ UNCHANGED <<pc, kept, previous, captured, todo>>
  <2>1. LocalTypes'
    BY <1>2 DEF LocalTypes
  <2> QED
    BY <1>2, <2>1 DEF kept, frameVars, CallTypes
<1> QED
  BY <1>1, <1>2 DEF TryAgain

LEMMA TakeLockTypes ==
  ASSUME CallTypes, LocalTypes, NEW c \in Calls, NEW from, NEW to \in Steps, TakeLock(c, from, to),
         to \in Acting \cup {"resolve"} => stack[c] # <<>>
  PROVE  CallTypes' /\ LocalTypes'
<1>1. CASE Fail(c)
  BY <1>1, SettleTypes DEF Fail
<1>2. CASE lock' = c /\ Goto(c, to) /\ UNCHANGED <<depends, frameVars, replaceVars, result>>
  <2>1. LocalTypes'
    BY <1>2 DEF LocalTypes, replaceVars
  <2>2. UNCHANGED <<depends, stack, completed, result>> /\ lock' \in Calls \cup {Nobody}
    BY <1>2 DEF frameVars
  <2> QED
    BY <1>2, <2>1, <2>2, GotoTypes
<1> QED
  BY <1>1, <1>2 DEF TakeLock

LEMMA CaptureTypes ==
  ASSUME HostTypes, NEW pids \in SUBSET Pids
  PROVE  IdentitiesOf(pids) \in SUBSET Identities
BY DEF HostTypes, IdentitiesOf, Identities

LEMMA TreeOfPids == \A roots : Tree(roots) \in SUBSET Pids
BY DEF Tree

LEMMA CallStepTypes ==
  ASSUME ExecutorTypes, NEW c \in Calls, Request(c) \/ RequestWorkspace(c) \/ CallStep(c)
  PROVE  CallTypes' /\ LocalTypes'
<1>0. CallTypes /\ LocalTypes /\ HostTypes /\ "ok" \in {"ok", "failed"} /\ "failed" \in {"ok", "failed"}
  BY DEF ExecutorTypes
<1>f. Fail(c) => CallTypes' /\ LocalTypes'
  BY <1>0, SettleTypes DEF Fail
<1>t. ThenSave(c) => CallTypes' /\ LocalTypes'
  BY <1>0, ThenSaveTypes
<1>a. Answer(c) => CallTypes' /\ LocalTypes'
  BY <1>0, AnswerTypes
<1>r. TryAgain(c) => CallTypes' /\ LocalTypes'
  BY <1>0, TryAgainTypes
<1>s. /\ Acting \subseteq Steps /\ Guarded \subseteq Steps /\ {"idle", "resolve", "savelock", "relock", "done"} \subseteq Steps
      /\ {"list", "capture", "delete", "cleanup", "launch", "verify", "stop", "inspect", "preflight", "command", "lock"} \subseteq Acting
      /\ {"save", "resurrect", "reverify"} \subseteq Guarded \ Acting
      /\ "savelock" \notin Acting /\ "relock" \notin Acting
  BY DEF Acting, Guarded, Steps
<1>q. ASSUME NEW step \in Acting, Quietly(c, step), stack[c] # <<>> PROVE CallTypes' /\ LocalTypes'
  BY <1>0, <1>s, <1>q, QuietTypes
<1>p. pc[c] \in Acting \cup {"resolve"} => stack[c] # <<>>
  BY <1>0 DEF CallTypes
<1>1. CASE Request(c)
  <2>1. PICK r \in TaskRequests[c] : stack' = [stack EXCEPT ![c] = <<Activation(r.service, r.action)>>]
    BY <1>1 DEF Request
  <2>2. r.service \in Services /\ r.action \in {"start", "restart", "stop"}
    BY <2>1, ExecutorAssumption
  <2>3. Activation(r.service, r.action) \in Activations
    BY <2>2 DEF Activation, Activations
  <2>4. /\ pc' = [pc EXCEPT ![c] = "resolve"]
        /\ UNCHANGED <<depends, lock, completed, previous, captured, todo, attempt, result>>
    BY <1>1 DEF Request, Goto, replaceVars
  <2>5. LocalTypes'
    BY <1>0, <2>4 DEF LocalTypes
  <2>6. stack' \in [Calls -> Seq(Activations)] /\ stack'[c] # <<>> /\ \A d \in Calls \ {c} : stack'[d] = stack[d]
    <3>1. <<Activation(r.service, r.action)>> \in Seq(Activations) /\ <<Activation(r.service, r.action)>> # <<>>
      BY <2>3
    <3> QED
      BY <1>0, <2>1, <3>1 DEF CallTypes
  <2>7. \A d \in Calls : pc'[d] \in Acting \cup {"resolve"} => stack'[d] # <<>>
    BY <1>0, <2>4, <2>6 DEF CallTypes
  <2> QED
    BY <1>0, <1>s, <2>4, <2>5, <2>6, <2>7 DEF CallTypes
<1>2. CASE RequestWorkspace(c)
  <2>1. PICK step \in {"savelock", "relock"} : Goto(c, step)
    BY <1>2 DEF RequestWorkspace
  <2>2. UNCHANGED <<depends, lock, stack, completed, previous, captured, todo, attempt, result>>
    BY <1>2 DEF RequestWorkspace, replaceVars
  <2>3. LocalTypes'
    BY <1>0, <2>2 DEF LocalTypes
  <2>4. lock' \in Calls \cup {Nobody} /\ step \in Steps /\ step \notin Acting \cup {"resolve"}
    BY <1>0, <1>s, <2>1, <2>2 DEF CallTypes
  <2>5. CallTypes'
    BY <1>0, <2>1, <2>2, <2>4, GotoTypes
  <2> QED
    BY <2>3, <2>5
<1>3. CASE Resolve(c)
  <2>1. ASSUME NEW d \in NextDependency(c), Enter(c, d), pc[c] = "resolve" PROVE CallTypes' /\ LocalTypes'
    <3>1. d \in Services
      BY <1>0, <1>p, <2>1, NextType
    <3>2. Activation(d, "start") \in Activations
      BY <3>1 DEF Activation, Activations
    <3>3. stack' = [stack EXCEPT ![c] = Append(@, Activation(d, "start"))]
          /\ UNCHANGED <<depends, lock, pc, completed, previous, captured, todo, attempt, result>>
      BY <2>1 DEF Enter, replaceVars
    <3>4. Append(stack[c], Activation(d, "start")) \in Seq(Activations)
          /\ Append(stack[c], Activation(d, "start")) # <<>>
      <4>1. stack[c] \in Seq(Activations)
        BY <1>0 DEF CallTypes
      <4> QED
        BY ONLY <3>2, <4>1, AppendProperties
    <3>5. stack' \in [Calls -> Seq(Activations)] /\ stack'[c] # <<>> /\ \A e \in Calls \ {c} : stack'[e] = stack[e]
      BY <1>0, <3>3, <3>4 DEF CallTypes
    <3>6. LocalTypes'
      BY <1>0, <3>3 DEF LocalTypes
    <3> QED
      BY <1>0, <3>3, <3>5, <3>6 DEF CallTypes
  <2> QED
    BY <1>3, <1>f, <1>a, <1>q, <1>p, <1>s, <2>1 DEF Resolve
<1>4. CASE Preflight(c)
  BY <1>4, <1>f, <1>q, <1>p, <1>s DEF Preflight
<1>5. CASE RunCommand(c)
  <2>1. ASSUME attempt' = [attempt EXCEPT ![c] = 1], UNCHANGED <<kept, pc, previous, captured, todo>>
        PROVE  CallTypes' /\ LocalTypes'
    <3>1. LocalTypes'
      BY <1>0, <2>1 DEF LocalTypes
    <3> QED
      BY <1>0, <2>1, <3>1 DEF kept, frameVars, CallTypes
  <2> QED
    BY <1>5, <1>f, <1>a, <2>1 DEF RunCommand
<1>6. CASE Lock(c)
  <2>1. stack[c] # <<>> /\ "inspect" \in Steps
    BY <1>6, <1>p, <1>s DEF Lock, TakeLock
  <2> QED
    BY <1>0, <1>6, <2>1, TakeLockTypes DEF Lock
<1>7. CASE Inspect(c)
  BY <1>7, <1>t, <1>f, <1>q, <1>p, <1>s DEF Inspect
<1>8. CASE List(c)
  <2> DEFINE existing == SelectPm2Row(Top(c).service)
  <2>1. ASSUME previous' = [previous EXCEPT ![c] = existing.pid],
               Goto(c, IF existing.status = "absent" THEN "launch" ELSE "capture"),
               UNCHANGED <<kept, captured, todo, attempt>>, pc[c] = "list"
        PROVE  CallTypes' /\ LocalTypes'
    <3>1. stack[c] # <<>>
      BY <1>p, <1>s, <2>1
    <3>2. Top(c).service \in Services
      BY <1>0, <3>1, TopType
    <3>3. RuntimeNameOf[Top(c).service] \in Names /\ NameOf[Top(c).service] \in Names
      BY <3>2, ExecutorAssumption
    <3>4. existing.pid \in Pids \cup {NoPid}
      BY <1>0, <3>3 DEF SelectPm2Row, HostTypes
    <3>5. LocalTypes'
      BY <1>0, <2>1, <3>4 DEF LocalTypes
    <3>6. PICK step \in {"launch", "capture"} : Goto(c, step)
      BY <2>1
    <3>7. UNCHANGED <<depends, stack, completed, result>> /\ lock' \in Calls \cup {Nobody}
      BY <1>0, <2>1 DEF kept, frameVars, CallTypes
    <3>8. step \in Steps
      BY <1>s, <3>6
    <3> QED
      BY <1>0, <3>1, <3>5, <3>6, <3>7, <3>8, GotoTypes
  <2> HIDE DEF existing
  <2>2. \/ Fail(c) \/ ThenSave(c)
        \/ /\ previous' = [previous EXCEPT ![c] = existing.pid]
           /\ Goto(c, IF existing.status = "absent" THEN "launch" ELSE "capture")
           /\ UNCHANGED <<kept, captured, todo, attempt>> /\ pc[c] = "list"
    BY <1>8 DEF List, existing
  <2> QED
    BY <1>f, <1>t, <2>1, <2>2
<1>9. CASE Capture(c)
  <2>1. /\ captured' = [captured EXCEPT ![c] = IdentitiesOf(Tree({previous[c]}))]
        /\ todo' = [todo EXCEPT ![c] = captured'[c]]
        /\ Goto(c, "delete") /\ pc[c] = "capture"
        /\ UNCHANGED <<depends, lock, stack, completed, result, previous, attempt>>
    BY <1>9 DEF Capture, kept, frameVars
  <2>2. IdentitiesOf(Tree({previous[c]})) \in SUBSET Identities
    BY <1>0, CaptureTypes, TreeOfPids
  <2>3. captured' \in [Calls -> SUBSET Identities] /\ captured'[c] \in SUBSET Identities
    BY <1>0, <2>1, <2>2 DEF LocalTypes
  <2>4. LocalTypes'
    BY <1>0, <2>1, <2>3 DEF LocalTypes
  <2>5. lock' \in Calls \cup {Nobody} /\ "delete" \in Steps /\ stack[c] # <<>>
    BY <1>0, <1>s, <1>p, <2>1 DEF CallTypes
  <2> QED
    BY <1>0, <2>1, <2>4, <2>5, GotoTypes
<1>10. CASE Delete(c)
  BY <1>10, <1>f, <1>q, <1>p, <1>s DEF Delete
<1>11. CASE Signal(c)
  <2>1. PICK id \in Deepest(todo[c]) : todo' = [todo EXCEPT ![c] = @ \ {id}]
    BY <1>11 DEF Signal
  <2>2. UNCHANGED <<depends, lock, stack, completed, result, pc, previous, captured, attempt>>
    BY <1>11 DEF Signal, kept, frameVars
  <2>3. LocalTypes'
    BY <1>0, <2>1, <2>2 DEF LocalTypes
  <2> QED
    BY <1>0, <2>2, <2>3 DEF CallTypes
<1>12. CASE CleanupDone(c)
  BY <1>12, <1>f, <1>q, <1>p, <1>s DEF CleanupDone
<1>13. CASE Launch(c)
  BY <1>13, <1>f, <1>q, <1>p, <1>s DEF Launch
<1>14. CASE Verify(c)
  BY <1>14, <1>f, <1>t, <1>r DEF Verify
<1>15. CASE Stop(c)
  BY <1>15, <1>f, <1>t DEF Stop
<1>16. CASE SaveLock(c) \/ ResurrectLock(c)
  <2>1. PICK step \in {"save", "resurrect"} : \E from \in {"savelock", "relock"} : TakeLock(c, from, step)
    BY <1>16 DEF SaveLock, ResurrectLock
  <2>2. step \in Steps /\ step \notin Acting \cup {"resolve"}
    BY <1>s, <2>1
  <2> QED
    BY <1>0, <2>1, <2>2, TakeLockTypes
<1>17. CASE Save(c)
  BY <1>17, <1>f, <1>a DEF Save
<1>18. CASE Resurrect(c)
  <2>1. UNCHANGED <<kept, pc, replaceVars>> => CallTypes' /\ LocalTypes'
    BY <1>0 DEF kept, frameVars, replaceVars, CallTypes, LocalTypes
  <2>2. Quietly(c, "reverify") => CallTypes' /\ LocalTypes'
    <3>1. "reverify" \in Steps /\ "reverify" \notin Acting \cup {"resolve"}
      BY <1>s
    <3> QED
      BY <1>0, <3>1, QuietTypes
  <2>3. Fail(c) \/ Quietly(c, "reverify") \/ UNCHANGED <<kept, pc, replaceVars>>
    BY <1>18 DEF Resurrect, RestoreEntries
  <2> QED
    BY <1>f, <2>1, <2>2, <2>3
<1>19. CASE VerifyResurrected(c)
  BY <1>0, <1>19, <1>f, <1>r, SettleTypes DEF VerifyResurrected
<1> QED
  BY <1>1, <1>2, <1>3, <1>4, <1>5, <1>6, <1>7, <1>8, <1>9, <1>10, <1>11, <1>12, <1>13, <1>14,
     <1>15, <1>16, <1>17, <1>18, <1>19 DEF CallStep

-----------------------------------------------------------------------------
LEMMA StartTypes ==
  ASSUME HostTypes, NEW p \in Pids, NEW from \in Pids \cup {NoPid}, Start(p, from)
  PROVE  /\ startOf' \in [Pids -> Nat] /\ parent' \in [Pids -> Pids \cup {NoPid}] /\ clock' \in Nat
         /\ clock' = clock + 1 /\ startOf[p] = 0 /\ startOf'[p] = clock + 1 /\ parent'[p] = from
         /\ \A q \in Pids \ {p} : startOf'[q] = startOf[q] /\ parent'[q] = parent[q]
BY DEF HostTypes, Start

LEMMA EndTypes ==
  ASSUME HostTypes, NEW pids, EndOf(pids)
  PROVE  /\ startOf' \in [Pids -> Nat] /\ parent' \in [Pids -> Pids \cup {NoPid}] /\ clock' \in Nat
         /\ foreign' = foreign /\ clock' = clock
         /\ \A p \in Pids : /\ startOf'[p] = IF p \in pids THEN 0 ELSE startOf[p]
                            /\ parent'[p] = IF p \in pids \/ parent[p] \in pids THEN NoPid ELSE parent[p]
                            /\ parent'[p] \in {parent[p], NoPid}
BY DEF HostTypes, EndOf

LEMMA WatchedPids == LocalTypes => Watched \subseteq Pids
BY DEF LocalTypes, Identities, Watched

LEMMA HostStepTypes == ExecutorTypes /\ [Next]_vars => HostTypes'
<1> SUFFICES ASSUME ExecutorTypes, [Next]_vars PROVE HostTypes'
  OBVIOUS
<1>0. CallTypes /\ LocalTypes /\ HostTypes
  BY DEF ExecutorTypes
<1>1. ASSUME UNCHANGED <<treeVars, pm2Vars>> PROVE HostTypes'
  BY <1>0, <1>1 DEF HostTypes, treeVars, pm2Vars
<1> DEFINE Rows == [Names -> [status : Statuses, pid : Pids \cup {NoPid}]]
<1>2. ASSUME NEW pids, EndOf(pids), UNCHANGED <<daemon, saved>>, row' \in Rows PROVE HostTypes'
  BY <1>0, <1>2, EndTypes DEF HostTypes
<1>3. ASSUME NEW p \in Pids, NEW from \in Pids \cup {NoPid}, Start(p, from), UNCHANGED saved,
             daemon' \in BOOLEAN, foreign' \subseteq Nat, row' \in Rows
      PROVE  HostTypes'
  BY <1>0, <1>3, StartTypes DEF HostTypes
<1>4. ASSUME UNCHANGED treeVars, row' \in Rows, daemon' \in BOOLEAN, saved' \subseteq Names PROVE HostTypes'
  BY <1>0, <1>4 DEF HostTypes, treeVars
<1>5. row \in Rows /\ daemon \in BOOLEAN /\ saved \subseteq Names
  BY <1>0 DEF HostTypes
<1>6. \A n \in Names, pid \in Pids \cup {NoPid}, status \in Statuses :
        [row EXCEPT ![n] = [status |-> status, pid |-> pid]] \in Rows
  BY <1>5
<1>7. Absent = [status |-> "absent", pid |-> NoPid] /\ {"absent", "online", "stopped", "errored"} = Statuses
  BY DEF Absent, Statuses
<1>8. \A n \in Names : [row EXCEPT ![n] = Absent] \in Rows
  BY <1>6, <1>7
<1> HIDE DEF Rows
<1>n. ASSUME NEW c \in Calls, pc[c] \in Acting \cup {"resolve"} PROVE RuntimeNameOf[Top(c).service] \in Names
  <2>1. stack[c] # <<>>
    BY <1>0, <1>n DEF CallTypes
  <2> QED
    BY <1>0, <2>1, TopType, ExecutorAssumption
<1>9. ASSUME NEW c \in Calls, CallStep(c) PROVE HostTypes'
  <2>1. CASE Resolve(c) \/ Preflight(c) \/ RunCommand(c) \/ Lock(c) \/ List(c) \/ Capture(c) \/ CleanupDone(c)
             \/ Verify(c) \/ SaveLock(c) \/ ResurrectLock(c) \/ VerifyResurrected(c)
    BY <1>1, <2>1 DEF Resolve, Preflight, RunCommand, Lock, List, Capture, CleanupDone, Verify, SaveLock,
                      ResurrectLock, VerifyResurrected, TakeLock
  <2>2. CASE Inspect(c)
    <3>1. UNCHANGED <<treeVars, row, saved>> /\ daemon' \in {daemon, TRUE}
      BY <2>2 DEF Inspect
    <3> QED
      BY <1>4, <1>5, <3>1
  <2>3. CASE Delete(c) \/ Stop(c)
    <3>1. UNCHANGED <<daemon, saved>> /\ RuntimeNameOf[Top(c).service] \in Names
      BY <1>n, <2>3 DEF Delete, Stop, Acting, Guarded
    <3>2. CASE UNCHANGED <<treeVars, row>>
      BY <1>1, <3>1, <3>2 DEF pm2Vars
    <3>3. CASE ~UNCHANGED <<treeVars, row>>
      <4>1. PICK ended : EndOf(ended)
        BY <2>3, <3>3 DEF Delete, Stop
      <4>2. row' \in {[row EXCEPT ![RuntimeNameOf[Top(c).service]] = Absent],
                     [row EXCEPT ![RuntimeNameOf[Top(c).service]] = [status |-> "stopped", pid |-> NoPid]]}
        BY <2>3, <3>3 DEF Delete, Stop
      <4>3. row' \in Rows
        BY <1>6, <1>7, <1>8, <3>1, <4>2
      <4> QED
        BY <1>2, <3>1, <4>1, <4>3
    <3> QED
      BY <3>2, <3>3
  <2>4. CASE Signal(c)
    <3>1. UNCHANGED pm2Vars
      BY <2>4 DEF Signal
    <3>2. UNCHANGED treeVars \/ \E pids : EndOf(pids)
      BY <2>4 DEF Signal
    <3> QED
      BY <1>1, <1>2, <1>5, <3>1, <3>2 DEF pm2Vars
  <2>5. CASE Launch(c)
    <3>1. UNCHANGED <<foreign, daemon, saved>> /\ RuntimeNameOf[Top(c).service] \in Names
      BY <1>n, <2>5 DEF Launch, Acting, Guarded
    <3>2. ASSUME NEW p \in Pids, Start(p, NoPid), row' = [row EXCEPT ![RuntimeNameOf[Top(c).service]] = [status |-> "online", pid |-> p]]
          PROVE  HostTypes'
      <4>1. row' \in Rows
        BY <1>6, <1>7, <3>1, <3>2
      <4>2. foreign' \subseteq Nat
        BY <1>0, <3>1 DEF HostTypes
      <4> QED
        BY <1>3, <1>5, <3>1, <3>2, <4>1, <4>2
    <3>3. ASSUME row' \in {row, [row EXCEPT ![RuntimeNameOf[Top(c).service]] = [status |-> "errored", pid |-> NoPid]]},
                 UNCHANGED <<startOf, parent, clock>>
          PROVE  HostTypes'
      <4>1. row' \in Rows
        BY <1>5, <1>6, <1>7, <3>1, <3>3
      <4> QED
        BY <1>4, <1>5, <3>1, <3>3, <4>1 DEF treeVars
    <3> QED
      BY <2>5, <3>2, <3>3 DEF Launch
  <2>6. CASE Save(c)
    <3>1. saved' \subseteq Names /\ UNCHANGED <<treeVars, daemon, row>>
      BY <1>5, <2>6 DEF Save, Registered
    <3> QED
      BY <1>4, <1>5, <3>1
  <2>7. CASE Resurrect(c)
    <3>1. UNCHANGED <<foreign, saved>> /\ daemon' \in {daemon, TRUE} /\ foreign' \subseteq Nat
      BY <1>0, <2>7 DEF Resurrect, HostTypes
    <3>2. ASSUME NEW n \in saved, NEW p \in Pids, Start(p, NoPid), row' = [row EXCEPT ![n] = [status |-> "online", pid |-> p]]
          PROVE  HostTypes'
      <4>1. row' \in Rows
        BY <1>5, <1>6, <1>7, <3>2
      <4> QED
        BY <1>3, <1>5, <3>1, <3>2, <4>1
    <3>3. ASSUME UNCHANGED <<startOf, parent, clock>>,
                 row' = row \/ \E n \in saved : row' = [row EXCEPT ![n] = [status |-> "errored", pid |-> NoPid]]
          PROVE  HostTypes'
      <4>1. row' \in Rows
        BY <1>5, <1>6, <1>7, <3>3
      <4> QED
        BY <1>4, <1>5, <3>1, <3>3, <4>1 DEF treeVars
    <3> QED
      BY <2>7, <3>2, <3>3 DEF Resurrect, RestoreEntries
  <2> QED
    BY <1>9, <2>1, <2>2, <2>3, <2>4, <2>5, <2>6, <2>7 DEF CallStep
<1>10. ASSUME NEW c \in Calls, Request(c) \/ RequestWorkspace(c) PROVE HostTypes'
  BY <1>1, <1>10 DEF Request, RequestWorkspace
<1>11. CASE Fork
  <2>1. PICK p \in Pids, q \in Pids : Start(p, q)
    BY <1>11 DEF Fork
  <2>2. UNCHANGED <<daemon, row, saved>> /\ foreign' \subseteq foreign \cup {clock'}
    BY <1>11 DEF Fork, pm2Vars
  <2>3. foreign' \subseteq Nat
    BY <1>0, <2>1, <2>2, StartTypes DEF HostTypes
  <2> QED
    BY <1>3, <1>5, <2>1, <2>2, <2>3
<1>12. CASE ForeignStarts
  <2>1. PICK p \in Watched : Start(p, NoPid)
    BY <1>12 DEF ForeignStarts
  <2>2. p \in Pids
    BY <1>0, WatchedPids
  <2>3. UNCHANGED <<daemon, row, saved>> /\ foreign' \subseteq Nat
    BY <1>0, <1>12, <2>1, <2>2, StartTypes DEF ForeignStarts, pm2Vars, HostTypes
  <2> QED
    BY <1>3, <1>5, <2>1, <2>2, <2>3
<1>13. CASE ProcessEnds
  <2>1. PICK p \in Pids : /\ EndOf({p})
                          /\ row' = [n \in Names |-> IF row[n].pid = p
                                  THEN [status |-> "errored", pid |-> NoPid] ELSE row[n]]
    BY <1>13 DEF ProcessEnds
  <2>2. row' \in Rows /\ UNCHANGED <<daemon, saved>>
    BY <1>5, <1>7, <1>13, <2>1 DEF ProcessEnds, Rows
  <2> QED
    BY <1>2, <2>1, <2>2
<1>14. CASE DaemonEnds
  <2>1. PICK ended : EndOf(ended)
    BY <1>14 DEF DaemonEnds
  <2>2. row' \in Rows
    BY <1>7, <1>14 DEF DaemonEnds, Rows
  <2>3. daemon' = FALSE /\ saved' = saved
    BY <1>14 DEF DaemonEnds
  <2> QED
    BY <1>0, <1>5, <2>1, <2>2, <2>3, EndTypes DEF HostTypes, Rows
<1>15. CASE UNCHANGED vars
  BY <1>1, <1>15 DEF vars
<1> QED
  BY <1>9, <1>10, <1>11, <1>12, <1>13, <1>14, <1>15 DEF Next

LEMMA ExecutorTypesStep == ExecutorTypes /\ [Next]_vars => ExecutorTypes'
<1> SUFFICES ASSUME ExecutorTypes, [Next]_vars PROVE ExecutorTypes'
  OBVIOUS
<1>1. HostTypes'
  BY HostStepTypes
<1>2. ASSUME UNCHANGED <<kept, pc, replaceVars>> PROVE CallTypes' /\ LocalTypes'
  BY <1>2 DEF ExecutorTypes, CallTypes, LocalTypes, kept, frameVars, replaceVars
<1>3. Fork \/ ForeignStarts \/ ProcessEnds \/ DaemonEnds \/ UNCHANGED vars => UNCHANGED <<kept, pc, replaceVars>>
  BY DEF Fork, ForeignStarts, ProcessEnds, DaemonEnds, outside, vars, kept
<1> QED
  BY <1>1, <1>2, <1>3, CallStepTypes DEF Next, ExecutorTypes

-----------------------------------------------------------------------------
(* A step of one call leaves the others where they are. *)
Others(c) ==
  \A d \in Calls \ {c} :
    /\ pc'[d] = pc[d] /\ stack'[d] = stack[d] /\ completed'[d] = completed[d]
    /\ previous'[d] = previous[d] /\ captured'[d] = captured[d] /\ todo'[d] = todo[d]
    /\ result'[d] = result[d]

Forgotten(c) == previous'[c] = NoPid /\ captured'[c] = {} /\ todo'[c] = {}

(* It ends; *)
Ended(c, outcome) ==
  /\ pc'[c] = "done" /\ result'[c] = outcome /\ stack'[c] = <<>> /\ completed'[c] = {}
  /\ Forgotten(c) /\ lock' = IF lock = c THEN Nobody ELSE lock

(* goes on with its caller; *)
Returned(c) ==
  /\ pc'[c] = "resolve" /\ result'[c] = result[c] /\ Forgotten(c)
  /\ lock' = IF lock = c THEN Nobody ELSE lock

(* is to save the list; *)
ToSave(c) ==
  /\ pc'[c] = "savelock" /\ lock' = Nobody /\ Forgotten(c)
  /\ stack'[c] = stack[c] /\ completed'[c] = completed[c] /\ result'[c] = result[c]

(* or goes to another step or stays. *)
Moved(c, step) ==
  /\ pc'[c] = step /\ lock' = lock
  /\ stack'[c] = stack[c] /\ completed'[c] = completed[c] /\ result'[c] = result[c]
  /\ previous'[c] = previous[c] /\ captured'[c] = captured[c] /\ todo'[c] = todo[c]

LEMMA SettleShape ==
  ASSUME CallTypes, LocalTypes, NEW c \in Calls, NEW outcome, Settle(c, outcome)
  PROVE  Ended(c, outcome) /\ Others(c) /\ depends' = depends
BY DEF Settle, Goto, Forget, CallTypes, LocalTypes, Ended, Others, Forgotten

LEMMA AnswerShape ==
  ASSUME CallTypes, LocalTypes, NEW c \in Calls, Answer(c)
  PROVE  /\ (Ended(c, "ok") /\ Len(stack[c]) <= 1) \/ (Returned(c) /\ Len(stack[c]) > 1)
         /\ Others(c) /\ depends' = depends
<1>1. CASE Len(stack[c]) <= 1 /\ Settle(c, "ok")
  BY <1>1, SettleShape
<1>2. CASE /\ Len(stack[c]) > 1
           /\ Goto(c, "resolve")
           /\ completed' = [completed EXCEPT ![c] =
                              IF StartsService(Top(c).action) THEN @ \cup {Top(c).service} ELSE @]
           /\ stack' = [stack EXCEPT ![c] =
                          LET rest == Front(@) IN [rest EXCEPT ![Len(rest)].next = @ + 1]]
           /\ lock' = IF lock = c THEN Nobody ELSE lock
           /\ Forget(c)
           /\ UNCHANGED <<depends, result>>
  <2>1. stack' = [stack EXCEPT ![c] = stack'[c]]
    BY <1>2, AnswerStack
  <2>2. \A d \in Calls \ {c} : stack'[d] = stack[d] /\ completed'[d] = completed[d] /\ pc'[d] = pc[d]
    BY <1>2, <2>1 DEF CallTypes, Goto
  <2>3. Returned(c)
    BY <1>2 DEF Returned, Goto, Forget, Forgotten, CallTypes, LocalTypes
  <2> QED
    BY <1>2, <2>2, <2>3 DEF Others, Forget, LocalTypes
<1> QED
  BY <1>1, <1>2 DEF Answer

LEMMA ThenSaveShape ==
  ASSUME CallTypes, LocalTypes, NEW c \in Calls, ThenSave(c)
  PROVE  ToSave(c) /\ Others(c) /\ depends' = depends
BY DEF ThenSave, Goto, Forget, frameVars, CallTypes, LocalTypes, ToSave, Others, Forgotten

LEMMA QuietShape ==
  ASSUME CallTypes, LocalTypes, NEW c \in Calls, NEW step, Quietly(c, step)
  PROVE  Moved(c, step) /\ Others(c) /\ depends' = depends
BY DEF Quietly, Goto, kept, frameVars, replaceVars, CallTypes, LocalTypes, Moved, Others

LEMMA TryAgainShape ==
  ASSUME CallTypes, LocalTypes, NEW c \in Calls, TryAgain(c)
  PROVE  (Moved(c, pc[c]) \/ Ended(c, "failed")) /\ Others(c) /\ depends' = depends
<1>1. CASE Fail(c)
  BY <1>1, SettleShape DEF Fail
<1>2. CASE UNCHANGED <<pc, kept, previous, captured, todo>>
  BY <1>2 DEF kept, frameVars, Moved, Others
<1> QED
  BY <1>1, <1>2 DEF TryAgain

LEMMA TakeLockShape ==
  ASSUME CallTypes, LocalTypes, NEW c \in Calls, NEW from, NEW to, TakeLock(c, from, to)
  PROVE  /\ \/ Ended(c, "failed")
            \/ /\ lock = Nobody /\ lock' = c /\ pc'[c] = to
               /\ stack'[c] = stack[c] /\ completed'[c] = completed[c] /\ result'[c] = result[c]
               /\ captured'[c] = captured[c] /\ todo'[c] = todo[c] /\ previous'[c] = previous[c]
         /\ Others(c) /\ depends' = depends
<1>1. CASE Fail(c)
  BY <1>1, SettleShape DEF Fail
<1>2. CASE lock = Nobody /\ lock' = c /\ Goto(c, to) /\ UNCHANGED <<depends, frameVars, replaceVars, result>>
  BY <1>2 DEF Goto, frameVars, replaceVars, CallTypes, Others
<1> QED
  BY <1>1, <1>2 DEF TakeLock

-----------------------------------------------------------------------------
(* Where a call goes from where it is, and what it does to the lock.       *)
Edges ==
  {<<"idle", "resolve">>, <<"idle", "savelock">>, <<"idle", "relock">>, <<"resolve", "resolve">>,
   <<"resolve", "preflight">>, <<"preflight", "lock">>, <<"preflight", "command">>,
   <<"command", "command">>, <<"inspect", "stop">>, <<"inspect", "list">>, <<"list", "launch">>,
   <<"list", "capture">>, <<"capture", "delete">>, <<"delete", "cleanup">>,
   <<"cleanup", "cleanup">>, <<"cleanup", "launch">>, <<"launch", "verify">>,
   <<"verify", "verify">>, <<"resurrect", "resurrect">>, <<"resurrect", "reverify">>,
   <<"reverify", "reverify">>}
IntoLock == {<<"lock", "inspect">>, <<"savelock", "save">>, <<"relock", "resurrect">>}

Control(c) ==
  \/ Ended(c, "failed") /\ pc[c] \notin {"idle", "done"}
  \/ Ended(c, "ok") /\ pc[c] \in {"resolve", "command", "save", "reverify"}
  \/ Returned(c) /\ pc[c] \in {"resolve", "command", "save"}
  \/ ToSave(c) /\ pc[c] \in {"inspect", "list", "verify", "stop"}
  \/ <<pc[c], pc'[c]>> \in Edges /\ lock' = lock /\ result'[c] = result[c]
  \/ <<pc[c], pc'[c]>> \in IntoLock /\ lock = Nobody /\ lock' = c /\ result'[c] = result[c]

LEMMA Controlled ==
  ASSUME ExecutorTypes, NEW c \in Calls, Request(c) \/ RequestWorkspace(c) \/ CallStep(c)
  PROVE  Control(c) /\ Others(c) /\ depends' = depends
<1>0. CallTypes /\ LocalTypes /\ HostTypes
  BY DEF ExecutorTypes
<1> DEFINE Good == Control(c) /\ Others(c) /\ depends' = depends
<1> SUFFICES Good
  OBVIOUS
<1> HIDE DEF Good
<1>f. ASSUME Fail(c), pc[c] \notin {"idle", "done"} PROVE Good
  BY <1>0, <1>f, SettleShape DEF Fail, Control, Good
<1>a. ASSUME Answer(c), pc[c] \in {"resolve", "command", "save"} PROVE Good
  BY <1>0, <1>a, AnswerShape DEF Control, Good
<1>t. ASSUME ThenSave(c), pc[c] \in {"inspect", "list", "verify", "stop"} PROVE Good
  BY <1>0, <1>t, ThenSaveShape DEF Control, Good
<1>q. ASSUME NEW step, Quietly(c, step), <<pc[c], step>> \in Edges PROVE Good
  <2>1. Moved(c, step) /\ Others(c) /\ depends' = depends
    BY <1>0, <1>q, QuietShape
  <2> QED
    BY <1>q, <2>1 DEF Moved, Control, Good
<1>r. ASSUME TryAgain(c), pc[c] \in {"verify", "reverify"} PROVE Good
  <2>1. (Moved(c, pc[c]) \/ Ended(c, "failed")) /\ Others(c) /\ depends' = depends
    BY <1>0, <1>r, TryAgainShape
  <2>2. <<pc[c], pc[c]>> \in Edges
    BY <1>r DEF Edges
  <2> QED
    BY <1>r, <2>1, <2>2 DEF Moved, Control, Good
<1>l. ASSUME NEW from, NEW to, TakeLock(c, from, to), <<from, to>> \in IntoLock PROVE Good
  <2>1. pc[c] = from /\ pc[c] \notin {"idle", "done"}
    BY <1>l DEF TakeLock, IntoLock
  <2> QED
    BY <1>0, <1>l, <2>1, TakeLockShape DEF Control, Good
<1>e. /\ <<"idle", "resolve">> \in Edges /\ <<"idle", "savelock">> \in Edges /\ <<"idle", "relock">> \in Edges
      /\ <<"resolve", "resolve">> \in Edges /\ <<"resolve", "preflight">> \in Edges /\ <<"preflight", "lock">> \in Edges
      /\ <<"preflight", "command">> \in Edges /\ <<"command", "command">> \in Edges /\ <<"inspect", "stop">> \in Edges
      /\ <<"inspect", "list">> \in Edges /\ <<"list", "launch">> \in Edges /\ <<"list", "capture">> \in Edges
      /\ <<"capture", "delete">> \in Edges /\ <<"delete", "cleanup">> \in Edges /\ <<"cleanup", "cleanup">> \in Edges
      /\ <<"cleanup", "launch">> \in Edges /\ <<"launch", "verify">> \in Edges /\ <<"verify", "verify">> \in Edges
      /\ <<"resurrect", "resurrect">> \in Edges /\ <<"resurrect", "reverify">> \in Edges /\ <<"reverify", "reverify">> \in Edges
  BY DEF Edges
<1>i. /\ <<"lock", "inspect">> \in IntoLock /\ <<"savelock", "save">> \in IntoLock
      /\ <<"relock", "resurrect">> \in IntoLock
  BY DEF IntoLock
<1>o. ASSUME NEW step, Goto(c, step), <<pc[c], step>> \in Edges, UNCHANGED <<kept, previous, attempt>>,
             \A d \in Calls \ {c} : captured'[d] = captured[d] /\ todo'[d] = todo[d]
      PROVE  Good
  BY <1>0, <1>o DEF Goto, kept, frameVars, CallTypes, Control, Others, Good
<1>1. CASE Request(c)
  BY <1>0, <1>e, <1>1 DEF Request, Goto, replaceVars, CallTypes, Control, Others, Good
<1>2. CASE RequestWorkspace(c)
  <2>1. PICK step \in {"savelock", "relock"} : Goto(c, step)
    BY <1>2 DEF RequestWorkspace
  <2> QED
    BY <1>0, <1>e, <1>2, <2>1 DEF RequestWorkspace, Goto, replaceVars, CallTypes, Control, Others, Good
<1>3. CASE Resolve(c)
  <2>1. ASSUME NEW d, Enter(c, d), pc[c] = "resolve" PROVE Good
    BY <1>0, <1>e, <2>1 DEF Enter, replaceVars, CallTypes, Control, Others, Good
  <2> QED
    BY <1>3, <1>f, <1>a, <1>q, <1>e, <2>1 DEF Resolve
<1>4. CASE Preflight(c)
  BY <1>4, <1>f, <1>q, <1>e DEF Preflight
<1>5. CASE RunCommand(c)
  <2>1. ASSUME UNCHANGED <<kept, pc, previous, captured, todo>>, pc[c] = "command" PROVE Good
    BY <1>e, <2>1 DEF kept, frameVars, Control, Others, Good
  <2> QED
    BY <1>5, <1>f, <1>a, <2>1 DEF RunCommand
<1>6. CASE Lock(c) \/ SaveLock(c) \/ ResurrectLock(c)
  BY <1>6, <1>l, <1>i DEF Lock, SaveLock, ResurrectLock
<1>7. CASE Inspect(c)
  BY <1>7, <1>f, <1>t, <1>q, <1>e DEF Inspect
<1>8. CASE List(c)
  <2>1. ASSUME NEW step \in {"launch", "capture"}, Goto(c, step), UNCHANGED <<kept, captured, todo, attempt>>,
               NEW pid, previous' = [previous EXCEPT ![c] = pid], pc[c] = "list"
        PROVE  Good
    BY <1>0, <1>e, <2>1 DEF Goto, kept, frameVars, CallTypes, LocalTypes, Control, Others, Good
  <2>2. \/ Fail(c) \/ ThenSave(c)
        \/ /\ \E pid : previous' = [previous EXCEPT ![c] = pid]
           /\ Goto(c, "launch") \/ Goto(c, "capture")
           /\ UNCHANGED <<kept, captured, todo, attempt>>
    BY <1>8 DEF List
  <2>3. pc[c] = "list"
    BY <1>8 DEF List
  <2> QED
    BY <1>f, <1>t, <2>1, <2>2, <2>3
<1>9. CASE Capture(c)
  <2>1. pc[c] = "capture" /\ <<"capture", "delete">> \in Edges
    BY <1>9, <1>e DEF Capture
  <2>2. Goto(c, "delete") /\ UNCHANGED <<kept, previous, attempt>>
    BY <1>9 DEF Capture
  <2>3. \A d \in Calls \ {c} : captured'[d] = captured[d] /\ todo'[d] = todo[d]
    BY <1>0, <1>9 DEF Capture, LocalTypes
  <2> QED
    BY <1>o, <2>1, <2>2, <2>3
<1>10. CASE Delete(c)
  BY <1>10, <1>f, <1>q, <1>e DEF Delete
<1>11. CASE Signal(c)
  <2>1. pc[c] = "cleanup" /\ <<"cleanup", "cleanup">> \in Edges /\ UNCHANGED <<kept, pc, previous, captured, attempt>>
    BY <1>11, <1>e DEF Signal
  <2>2. \A d \in Calls \ {c} : todo'[d] = todo[d]
    BY <1>0, <1>11 DEF Signal, LocalTypes
  <2> QED
    BY <2>1, <2>2 DEF kept, frameVars, Control, Others, Good
<1>12. CASE CleanupDone(c)
  BY <1>12, <1>f, <1>q, <1>e DEF CleanupDone
<1>13. CASE Launch(c)
  BY <1>13, <1>f, <1>q, <1>e DEF Launch
<1>14. CASE Verify(c)
  BY <1>14, <1>f, <1>t, <1>r DEF Verify
<1>15. CASE Stop(c)
  BY <1>15, <1>f, <1>t DEF Stop
<1>16. CASE Save(c)
  BY <1>16, <1>f, <1>a DEF Save
<1>17. CASE Resurrect(c)
  <2>1. ASSUME UNCHANGED <<kept, pc, replaceVars>>, pc[c] = "resurrect" PROVE Good
    BY <1>e, <2>1 DEF kept, frameVars, replaceVars, Control, Others, Good
  <2> QED
    BY <1>17, <1>f, <1>q, <1>e, <2>1 DEF Resurrect, RestoreEntries
<1>18. CASE VerifyResurrected(c)
  <2>1. ASSUME Settle(c, "ok"), pc[c] = "reverify" PROVE Good
    BY <1>0, <2>1, SettleShape DEF Control, Good
  <2> QED
    BY <1>18, <1>f, <1>r, <2>1 DEF VerifyResurrected
<1> QED
  BY <1>1, <1>2, <1>3, <1>4, <1>5, <1>6, <1>7, <1>8, <1>9, <1>10, <1>11, <1>12, <1>13, <1>14,
     <1>15, <1>16, <1>17, <1>18 DEF CallStep

-----------------------------------------------------------------------------
(* One call is inside the workspace's lock, and where it needs a daemon    *)
(* there is one; a table without a daemon is empty.                        *)
NeedsDaemon == Guarded \ {"inspect", "save", "resurrect"}

HoldsLock == \A c \in Calls : pc[c] \in Guarded => lock = c

LockInv ==
  /\ HoldsLock
  /\ \A c \in Calls : pc[c] \in NeedsDaemon => daemon
  /\ ~daemon => \A n \in Names : row[n] = Absent
  /\ \A c \in Calls : result[c] # "none" => pc[c] = "done"

LEMMA HoldsLockStep ==
  ASSUME ExecutorTypes, HoldsLock, NEW c \in Calls, Control(c), Others(c)
  PROVE  HoldsLock'
<1>g. Guarded = {"inspect", "list", "capture", "delete", "cleanup", "launch",
                 "verify", "stop", "save", "resurrect", "reverify"}
  BY DEF Guarded
<1>n. Nobody \notin Calls
  BY ExecutorAssumption
<1>1. ASSUME NEW d \in Calls, d # c, pc'[d] \in Guarded PROVE lock' = d
  <2>1. lock = d
    BY <1>1 DEF Others, HoldsLock
  <2>2. lock # c /\ lock # Nobody /\ pc[c] \notin Guarded
    BY <1>1, <1>n, <2>1 DEF HoldsLock
  <2>3. ~ToSave(c) \/ pc[c] \notin {"inspect", "list", "verify", "stop"}
    BY <1>g, <2>2
  <2>4. lock' = lock
    BY <2>2, <2>3 DEF Control, Ended, Returned
  <2> QED
    BY <2>1, <2>4
<1>2. ASSUME pc'[c] \in Guarded PROVE lock' = c
  <2>1. CASE <<pc[c], pc'[c]>> \in Edges /\ lock' = lock
    <3>1. pc[c] \in Guarded
      BY <1>2, <1>g, <2>1 DEF Edges
    <3> QED
      BY <2>1, <3>1 DEF HoldsLock
  <2>2. CASE lock' = c
    BY <2>2
  <2>3. CASE Ended(c, "failed") \/ Ended(c, "ok") \/ Returned(c) \/ ToSave(c)
    BY <1>2, <1>g, <2>3 DEF Ended, Returned, ToSave
  <2> QED
    BY <2>1, <2>2, <2>3 DEF Control
<1> QED
  BY <1>1, <1>2 DEF HoldsLock

LEMMA DaemonSteps ==
  ASSUME ExecutorTypes, LockInv, NEW c \in Calls, Request(c) \/ RequestWorkspace(c) \/ CallStep(c)
  PROVE  /\ daemon' = daemon \/ daemon'
         /\ pc'[c] \in NeedsDaemon => daemon'
         /\ ~daemon' => row' = row
<1>g. /\ NeedsDaemon = {"list", "capture", "delete", "cleanup", "launch", "verify", "stop", "reverify"}
      /\ Guarded = NeedsDaemon \cup {"inspect", "save", "resurrect"}
  BY DEF NeedsDaemon, Guarded
<1>c. Control(c)
  BY Controlled
<1>1. CASE Inspect(c)
  <2>1. row' = row /\ daemon' \in {daemon, TRUE}
    BY <1>1 DEF Inspect
  <2>2. pc'[c] = "list" => daemon'
    <3>1. CallTypes /\ LocalTypes
      BY DEF ExecutorTypes
    <3>2. ASSUME Fail(c) PROVE pc'[c] = "done"
      BY <3>1, <3>2, SettleShape DEF Fail, Ended
    <3>3. ASSUME ThenSave(c) PROVE pc'[c] = "savelock"
      BY <3>1, <3>3, ThenSaveShape DEF ToSave
    <3>4. ASSUME Quietly(c, "stop") PROVE pc'[c] = "stop"
      BY <3>1, <3>4, QuietShape DEF Moved
    <3> QED
      BY <1>1, <3>2, <3>3, <3>4 DEF Inspect
  <2>3. pc'[c] = "stop" => daemon'
    <3>1. CallTypes /\ LocalTypes
      BY DEF ExecutorTypes
    <3>2. ASSUME Fail(c) PROVE pc'[c] = "done"
      BY <3>1, <3>2, SettleShape DEF Fail, Ended
    <3>3. ASSUME ThenSave(c) PROVE pc'[c] = "savelock"
      BY <3>1, <3>3, ThenSaveShape DEF ToSave
    <3> QED
      BY <1>1, <3>2, <3>3 DEF Inspect
  <2>4. pc[c] = "inspect"
    BY <1>1 DEF Inspect
  <2>5. pc'[c] \in NeedsDaemon => pc'[c] \in {"list", "stop"}
    BY <1>c, <1>g, <2>4 DEF Control, Edges, IntoLock, Ended, Returned, ToSave
  <2> QED
    BY <2>1, <2>2, <2>3, <2>5
<1>2. CASE Resurrect(c)
  <2>1. CallTypes /\ LocalTypes
    BY DEF ExecutorTypes
  <2>2. ASSUME Fail(c) PROVE pc'[c] = "done"
    BY <2>1, <2>2, SettleShape DEF Fail, Ended
  <2>3. daemon' \/ (daemon' = daemon /\ row' = row /\ pc'[c] = "done")
    BY <1>2, <2>2 DEF Resurrect
  <2> QED
    BY <1>g, <2>3
<1>3. CASE ~Inspect(c) /\ ~Resurrect(c)
  <2>1. daemon' = daemon
    BY <1>3 DEF CallStep, Request, RequestWorkspace, Resolve, Preflight, RunCommand, Lock, List, Capture, Delete, Signal,
                CleanupDone, Launch, Verify, Stop, SaveLock, Save, ResurrectLock, VerifyResurrected,
                TakeLock, pm2Vars
  <2>2. pc[c] \notin {"inspect", "resurrect"} \/ pc'[c] \notin NeedsDaemon
    <3>1. CASE Request(c) \/ RequestWorkspace(c)
      BY <3>1 DEF Request, RequestWorkspace
    <3>2. CASE CallStep(c)
      BY <1>3, <3>2 DEF CallStep, Resolve, Preflight, RunCommand, Lock, List, Capture, Delete, Signal,
                CleanupDone, Launch, Verify, Stop, SaveLock, Save, ResurrectLock, VerifyResurrected, TakeLock
    <3> QED
      BY <3>1, <3>2
  <2>3. pc'[c] \in NeedsDaemon => pc[c] \in NeedsDaemon
    BY <1>c, <1>g, <2>2 DEF Control, Edges, IntoLock, Ended, Returned, ToSave
  <2>4. row' = row \/ pc[c] \in {"delete", "launch", "stop"}
    BY <1>3 DEF CallStep, Request, RequestWorkspace, Resolve, Preflight, RunCommand, Lock, List, Capture, Delete, Signal,
                CleanupDone, Launch, Verify, Stop, SaveLock, Save, ResurrectLock, VerifyResurrected,
                TakeLock, pm2Vars
  <2>5. pc[c] \in NeedsDaemon => daemon
    BY DEF LockInv
  <2> QED
    BY <1>g, <2>1, <2>3, <2>4, <2>5
<1> QED
  BY <1>1, <1>2, <1>3

LEMMA LockStep == ExecutorTypes /\ LockInv /\ [Next]_vars => LockInv'
<1> SUFFICES ASSUME ExecutorTypes, LockInv, [Next]_vars PROVE LockInv'
  OBVIOUS
<1>1. ASSUME NEW c \in Calls, Request(c) \/ RequestWorkspace(c) \/ CallStep(c) PROVE LockInv'
  <2>1. Control(c) /\ Others(c)
    BY <1>1, Controlled
  <2>2. HoldsLock'
    BY <2>1, HoldsLockStep DEF LockInv
  <2>3. \A d \in Calls : pc'[d] \in NeedsDaemon => daemon'
    <3>1. \A d \in Calls \ {c} : pc'[d] \in NeedsDaemon => daemon
      BY <2>1 DEF LockInv, Others
    <3>2. (daemon' = daemon \/ daemon') /\ (pc'[c] \in NeedsDaemon => daemon')
      BY <1>1, DaemonSteps
    <3> QED
      BY <3>1, <3>2
  <2>4. ~daemon' => \A n \in Names : row'[n] = Absent
    <3>1. daemon' = daemon \/ daemon'
      BY <1>1, DaemonSteps
    <3>2. ~daemon' => row' = row
      BY <1>1, DaemonSteps
    <3> QED
      BY <3>1, <3>2 DEF LockInv
  <2>5. \A d \in Calls : result'[d] # "none" => pc'[d] = "done"
    <3>1. \A d \in Calls \ {c} : result'[d] # "none" => pc'[d] = "done"
      BY <2>1 DEF LockInv, Others
    <3>2. ASSUME result'[c] = result[c], pc[c] # "done" PROVE result'[c] # "none" => pc'[c] = "done"
      BY <3>2 DEF LockInv
    <3>3. pc[c] # "done"
      BY <2>1 DEF Control, Edges, IntoLock
    <3>4. result'[c] = result[c] \/ pc'[c] = "done"
      BY <2>1 DEF Control, Ended, Returned, ToSave
    <3> QED
      BY <3>1, <3>2, <3>3, <3>4
  <2> QED
    BY <2>2, <2>3, <2>4, <2>5 DEF LockInv, Absent
<1>2. CASE Fork \/ ForeignStarts \/ UNCHANGED vars
  <2>1. UNCHANGED <<pc, lock, result, daemon, row>>
    BY <1>2 DEF Fork, ForeignStarts, vars, outside, kept, pm2Vars
  <2> QED
    BY <2>1 DEF LockInv, HoldsLock, Absent
<1>3. CASE ProcessEnds
  <2>1. UNCHANGED <<pc, lock, result, daemon>>
    BY <1>3 DEF ProcessEnds, outside, kept
  <2>2. PICK p \in Pids : row' = [n \in Names |-> IF row[n].pid = p THEN [status |-> "errored", pid |-> NoPid] ELSE row[n]]
    BY <1>3 DEF ProcessEnds
  <2>3. ~daemon => \A n \in Names : row'[n] = Absent
    BY <2>2, TreeAssumption DEF LockInv, Absent
  <2> QED
    BY <2>1, <2>3 DEF LockInv, HoldsLock, Absent
<1>4. CASE DaemonEnds
  <2>1. UNCHANGED <<pc, lock, result>> /\ lock = Nobody
    BY <1>4 DEF DaemonEnds, outside, kept
  <2>2. \A c \in Calls : pc[c] \notin Guarded
    BY <2>1, ExecutorAssumption DEF LockInv, HoldsLock
  <2>3. \A n \in Names : row'[n] = Absent
    BY <1>4 DEF DaemonEnds
  <2> QED
    BY <2>1, <2>2, <2>3 DEF LockInv, HoldsLock, Absent, NeedsDaemon
<1> QED
  BY <1>1, <1>2, <1>3, <1>4 DEF Next

-----------------------------------------------------------------------------
(* How a step changes PM2's table. *)
RowPut(n, status, pid) == row' = [row EXCEPT ![n] = [status |-> status, pid |-> pid]]

LEMMA RowSteps ==
  ASSUME ExecutorTypes, [Next]_vars
  PROVE  \/ row' = row
         \/ \E n \in Names, status \in Statuses, pid \in Pids \cup {NoPid} :
              RowPut(n, status, pid) /\ (status = "absent" => pid = NoPid)
         \/ ProcessEnds \/ DaemonEnds
<1>s. {"absent", "online", "stopped", "errored"} \subseteq Statuses
  BY DEF Statuses
<1>1. ASSUME NEW c \in Calls, Delete(c) \/ Stop(c) \/ Launch(c), row' # row
      PROVE  \E n \in Names, status \in Statuses, pid \in Pids \cup {NoPid} :
               RowPut(n, status, pid) /\ (status = "absent" => pid = NoPid)
  <2>1. pc[c] \in Acting
    BY <1>1 DEF Delete, Stop, Launch, Acting, Guarded
  <2>2. stack[c] # <<>> /\ CallTypes
    BY <2>1 DEF ExecutorTypes, CallTypes
  <2>3. RuntimeNameOf[Top(c).service] \in Names
    BY <2>2, TopType, ExecutorAssumption
  <2> DEFINE m == RuntimeNameOf[Top(c).service]
  <2>4. \/ RowPut(m, "absent", NoPid) \/ RowPut(m, "stopped", NoPid) \/ RowPut(m, "errored", NoPid)
        \/ \E pid \in Pids : RowPut(m, "online", pid)
    BY <1>1 DEF Delete, Stop, Launch, Absent, RowPut
  <2> HIDE DEF m
  <2>5. m \in Names
    BY <2>3 DEF m
  <2> QED
    BY <1>s, <2>4, <2>5
<1>2. ASSUME NEW c \in Calls, Resurrect(c), row' # row
      PROVE  \E n \in Names, status \in Statuses, pid \in Pids \cup {NoPid} :
               RowPut(n, status, pid) /\ (status = "absent" => pid = NoPid)
  <2>1. \E n \in saved : RowPut(n, "errored", NoPid) \/ \E pid \in Pids : RowPut(n, "online", pid)
    BY <1>2 DEF Resurrect, RestoreEntries, RowPut
  <2>2. saved \subseteq Names
    BY DEF ExecutorTypes, HostTypes
  <2> QED
    BY <1>s, <2>1, <2>2
<1>3. ASSUME NEW c \in Calls, Request(c) \/ RequestWorkspace(c) \/ CallStep(c),
             ~Delete(c), ~Stop(c), ~Launch(c), ~Resurrect(c)
      PROVE  row' = row
  BY <1>3 DEF CallStep, Request, RequestWorkspace, Resolve, Preflight, RunCommand, Lock, Inspect, List, Capture,
              Signal, CleanupDone, Verify, SaveLock, Save, ResurrectLock, VerifyResurrected, TakeLock, pm2Vars
<1>4. Fork \/ ForeignStarts \/ UNCHANGED vars => row' = row
  BY DEF Fork, ForeignStarts, vars, pm2Vars
<1> QED
  BY <1>1, <1>2, <1>3, <1>4 DEF Next

(* An entry that is not registered has no process. *)
EntryInv == \A n \in Names : row[n].status = "absent" => row[n].pid = NoPid

LEMMA EntryStep == ExecutorTypes /\ EntryInv /\ [Next]_vars => EntryInv'
<1> SUFFICES ASSUME ExecutorTypes, EntryInv, [Next]_vars PROVE EntryInv'
  OBVIOUS
<1>0. row \in [Names -> [status : Statuses, pid : Pids \cup {NoPid}]]
  BY DEF ExecutorTypes, HostTypes
<1>1. ASSUME NEW n \in Names, NEW status, NEW pid, RowPut(n, status, pid), status = "absent" => pid = NoPid
      PROVE  EntryInv'
  BY <1>0, <1>1 DEF RowPut, EntryInv
<1>2. CASE ProcessEnds
  <2>1. PICK p \in Pids : row' = [n \in Names |-> IF row[n].pid = p THEN [status |-> "errored", pid |-> NoPid] ELSE row[n]]
    BY <1>2 DEF ProcessEnds
  <2> QED
    BY <2>1 DEF EntryInv
<1>3. CASE DaemonEnds
  BY <1>3 DEF DaemonEnds, EntryInv, Absent
<1>4. CASE row' = row
  BY <1>4 DEF EntryInv
<1> QED
  BY <1>1, <1>2, <1>3, <1>4, RowSteps

-----------------------------------------------------------------------------
(* Whatever PM2's table and its saved list differ in, some request has     *)
(* still to save, to resurrect, or has failed.                             *)
Unsaved(c) ==
  result[c] = "failed" \/ pc[c] \in {"cleanup", "launch", "verify", "savelock", "save"}

SavedInv ==
  /\ ~Registered \subseteq saved => \E c \in Calls : Unsaved(c)
  /\ Registered # {} /\ ~saved \subseteq Registered =>
       \E c \in Calls : Unsaved(c) \/ pc[c] = "resurrect"

(* A request that has changed the table saves it before it answers. *)
LEMMA UnsavedStep ==
  ASSUME ExecutorTypes, LockInv, NEW c \in Calls, Request(c) \/ RequestWorkspace(c) \/ CallStep(c),
         Unsaved(c), ~Unsaved(c)'
  PROVE  saved' = Registered' \/ Registered' = {}
<1>1. Control(c) /\ CallTypes /\ LocalTypes
  BY Controlled DEF ExecutorTypes
<1>2. pc[c] # "done"
  BY <1>1 DEF Control, Edges, IntoLock
<1>3. result[c] # "failed"
  BY <1>2 DEF LockInv
<1>4. pc[c] = "save" /\ result'[c] # "failed"
  BY <1>1, <1>3 DEF Unsaved, Control, Ended, Returned, ToSave, Edges, IntoLock
<1>5. Save(c)
  BY <1>4 DEF Request, RequestWorkspace, CallStep, Resolve, Preflight, RunCommand, Lock, Inspect, List, Capture,
              Delete, Signal, CleanupDone, Launch, Verify, Stop, SaveLock, ResurrectLock, Resurrect,
              VerifyResurrected, TakeLock
<1>6. ~Fail(c)
  BY <1>1, <1>4, SettleShape DEF Fail, Ended
<1>7. Registered' = Registered
  BY <1>5 DEF Save, Registered
<1>8. saved' = IF daemon /\ Registered # {} THEN Registered ELSE saved
  BY <1>5, <1>6 DEF Save
<1>9. ~daemon => Registered = {}
  BY DEF LockInv, Registered, Absent
<1> QED
  BY <1>7, <1>8, <1>9

(* A step that changes the table and leaves nothing to save resurrects. *)
LEMMA TableStep ==
  ASSUME ExecutorTypes, NEW c \in Calls, Request(c) \/ RequestWorkspace(c) \/ CallStep(c),
         ~Unsaved(c), ~Unsaved(c)'
  PROVE  /\ saved' = saved
         /\ \/ Registered' = Registered /\ pc[c] # "resurrect"
            \/ /\ pc[c] = "resurrect" /\ Registered \subseteq Registered' /\ Registered' \subseteq Registered \cup saved
               /\ pc'[c] = "resurrect" \/ saved \subseteq Registered'
<1>0. CallTypes /\ LocalTypes /\ HostTypes
  BY DEF ExecutorTypes
<1>f. ~Fail(c)
  BY <1>0, SettleShape DEF Fail, Ended, Unsaved
<1>1. ~Delete(c) /\ ~Launch(c) /\ ~Stop(c)
  <2>1. ~Quietly(c, "cleanup") /\ ~Quietly(c, "verify") /\ ~ThenSave(c)
    BY <1>0, QuietShape, ThenSaveShape DEF Moved, ToSave, Unsaved
  <2> QED
    BY <1>f, <2>1 DEF Delete, Launch, Stop
<1>2. ~Save(c)
  BY DEF Save, Unsaved
<1>3. CASE Resurrect(c)
  <2>1. pc[c] = "resurrect" /\ saved' = saved
    BY <1>3 DEF Resurrect
  <2>2. ASSUME NEW n \in saved, NEW status \in {"online", "errored"}, NEW pid, RowPut(n, status, pid),
               UNCHANGED pc
        PROVE  Registered' = Registered \cup {n}
    BY <1>0, <2>2 DEF RowPut, Registered, HostTypes
  <2>3. ASSUME saved \subseteq Registered, row' = row
        PROVE  Registered' = Registered
    BY <2>3 DEF Registered
  <2>4. \/ \E n \in saved, status \in {"online", "errored"} : \E pid : RowPut(n, status, pid) /\ UNCHANGED pc
        \/ saved \subseteq Registered /\ row' = row
        \/ UNCHANGED <<pc, row>>
    BY <1>3, <1>f DEF Resurrect, RestoreEntries, RowPut
  <2>5. UNCHANGED <<pc, row>> => Registered' = Registered /\ pc'[c] = "resurrect"
    BY <2>1 DEF Registered
  <2> QED
    BY <2>1, <2>2, <2>3, <2>4, <2>5
<1>4. CASE ~Resurrect(c)
  <2>1. row' = row /\ saved' = saved
    BY <1>1, <1>2, <1>4 DEF CallStep, Request, RequestWorkspace, Resolve, Preflight, RunCommand, Lock, Inspect, List,
       Capture, Signal, CleanupDone, Verify, SaveLock, ResurrectLock, VerifyResurrected, TakeLock, pm2Vars
  <2>2. pc[c] # "resurrect"
    BY <1>1, <1>2, <1>4 DEF CallStep, Request, RequestWorkspace, Resolve, Preflight, RunCommand, Lock, Inspect, List,
       Capture, Signal, CleanupDone, Verify, SaveLock, ResurrectLock, VerifyResurrected, TakeLock
  <2> QED
    BY <2>1, <2>2 DEF Registered
<1> QED
  BY <1>3, <1>4

LEMMA SavedStep == ExecutorTypes /\ LockInv /\ EntryInv /\ SavedInv /\ [Next]_vars => SavedInv'
<1> SUFFICES ASSUME ExecutorTypes, LockInv, EntryInv, SavedInv, [Next]_vars PROVE SavedInv'
  OBVIOUS
<1>1. ASSUME NEW c \in Calls, Request(c) \/ RequestWorkspace(c) \/ CallStep(c) PROVE SavedInv'
  <2>1. CASE Unsaved(c)'
    BY <2>1 DEF SavedInv
  <2>2. CASE Unsaved(c) /\ ~Unsaved(c)'
    BY <1>1, <2>2, UnsavedStep DEF SavedInv
  <2>3. CASE ~Unsaved(c) /\ ~Unsaved(c)'
    <3>0. Others(c)
      BY <1>1, Controlled
    <3>1. \A d \in Calls \ {c} : (Unsaved(d)' <=> Unsaved(d)) /\ pc'[d] = pc[d]
      BY <3>0 DEF Others, Unsaved
    <3>2. CASE \E d \in Calls : Unsaved(d)
      BY <2>3, <3>1, <3>2 DEF SavedInv
    <3>3. CASE \A d \in Calls : ~Unsaved(d)
      <4>1. Registered \subseteq saved
        BY <3>3 DEF SavedInv
      <4>2. /\ saved' = saved
            /\ \/ Registered' = Registered /\ pc[c] # "resurrect"
               \/ /\ pc[c] = "resurrect" /\ Registered \subseteq Registered' /\ Registered' \subseteq Registered \cup saved
                  /\ pc'[c] = "resurrect" \/ saved \subseteq Registered'
        BY <1>1, <2>3, TableStep
      <4>3. Registered' \subseteq saved'
        BY <4>1, <4>2
      <4>4. CASE Registered' = Registered /\ pc[c] # "resurrect"
        <5>1. Registered' # {} /\ ~saved' \subseteq Registered' => \E d \in Calls : pc[d] = "resurrect"
          BY <3>3, <4>2, <4>4 DEF SavedInv
        <5>2. Registered' # {} /\ ~saved' \subseteq Registered' => \E d \in Calls \ {c} : pc'[d] = "resurrect"
          BY <3>1, <4>4, <5>1
        <5> QED
          BY <4>3, <5>2 DEF SavedInv
      <4>5. CASE pc'[c] = "resurrect" \/ saved \subseteq Registered'
        BY <4>2, <4>3, <4>5 DEF SavedInv
      <4> QED
        BY <4>2, <4>4, <4>5
    <3> QED
      BY <3>2, <3>3
  <2> QED
    BY <2>1, <2>2, <2>3
<1>2. ASSUME UNCHANGED <<pc, result, saved>>, Registered' = Registered PROVE SavedInv'
  BY <1>2 DEF SavedInv, Unsaved
<1>3. CASE Fork \/ ForeignStarts \/ UNCHANGED vars
  BY <1>2, <1>3 DEF Fork, ForeignStarts, vars, outside, kept, pm2Vars, Registered
<1>4. CASE ProcessEnds
  <2>1. PICK p \in Pids : row' = [n \in Names |-> IF row[n].pid = p THEN [status |-> "errored", pid |-> NoPid] ELSE row[n]]
    BY <1>4 DEF ProcessEnds
  <2>2. Registered' = Registered
    BY <2>1, TreeAssumption DEF Registered, EntryInv
  <2>3. UNCHANGED <<pc, result, saved>>
    BY <1>4 DEF ProcessEnds, outside, kept
  <2> QED
    BY <1>2, <2>2, <2>3
<1>5. CASE DaemonEnds
  <2>1. Registered' = {}
    BY <1>5 DEF DaemonEnds, Registered, Absent
  <2> QED
    BY <2>1 DEF SavedInv
<1> QED
  BY <1>1, <1>3, <1>4, <1>5 DEF Next

-----------------------------------------------------------------------------
(* The activations of a request are a path of dependencies; those before   *)
(* the next one of each are started, and what is started has all it needs. *)
Path(st, done) ==
  /\ \A i \in 1..Len(st) : i # 1 \/ i # Len(st) => st[i].action = "start"
  /\ \A i \in 1..Len(st) : i # Len(st) =>
       /\ st[i].next <= Len(depends[st[i].service])
       /\ st[i + 1].service = depends[st[i].service][st[i].next]
  /\ \A i \in 1..Len(st) : \A j \in 1..Len(depends[st[i].service]) :
       j < st[i].next => depends[st[i].service][j] \in done

Closed(done) == \A s \in done : \A j \in 1..Len(depends[s]) : depends[s][j] \in done

(* All that the activation on top needs is started, and it is not. *)
TopReady(c) ==
  stack[c] # <<>> /\ Top(c).action = "start" =>
    Top(c).next > Len(depends[Top(c).service]) /\ Top(c).service \notin completed[c]

Ordered(c) ==
  /\ pc[c] = "idle" => stack[c] = <<>> /\ completed[c] = {}
  /\ Path(stack[c], completed[c]) /\ Closed(completed[c])
  /\ pc[c] \in Acting \cup {"savelock", "save"} => TopReady(c)

OrderInv == \A c \in Calls : Ordered(c)

LEMMA OrderedSame ==
  ASSUME NEW c \in Calls, Ordered(c), depends' = depends, stack'[c] = stack[c],
         completed'[c] = completed[c], pc'[c] # "idle",
         pc'[c] \in Acting \cup {"savelock", "save"} => TopReady(c)
  PROVE  Ordered(c)'
<1>1. Path(stack[c], completed[c])' /\ Closed(completed[c])'
  BY DEF Ordered, Path, Closed
<1>2. TopReady(c) => TopReady(c)'
  BY DEF TopReady, Top, Last
<1> QED
  BY <1>1, <1>2 DEF Ordered

LEMMA OrderedEnded ==
  ASSUME NEW c \in Calls, NEW outcome, Ended(c, outcome)
  PROVE  Ordered(c)'
<1>1. stack'[c] = <<>> /\ completed'[c] = {} /\ pc'[c] = "done" /\ "done" \notin Acting
  BY DEF Ended, Acting, Guarded
<1>2. Path(stack[c], completed[c])' /\ Closed(completed[c])'
  BY <1>1 DEF Path, Closed
<1> QED
  BY <1>1, <1>2 DEF Ordered

(* Entering a dependency prolongs the path. *)
LEMMA OrderedEnter ==
  ASSUME ExecutorTypes, NEW c \in Calls, Ordered(c), pc[c] = "resolve",
         NEW d \in NextDependency(c), Enter(c, d)
  PROVE  Ordered(c)'
<1> DEFINE st == stack[c]
           n == Len(st)
           act == Activation(d, "start")
           more == Append(st, act)
<1>0. CallTypes /\ LocalTypes
  BY DEF ExecutorTypes
<1>1. st # <<>>
  BY <1>0 DEF CallTypes
<1>2. st \in Seq(Activations) /\ n \in Nat \ {0} /\ Top(c) = st[n]
  BY <1>0, <1>1, TopType
<1>3. /\ d \in Services /\ st[n].action = "start" /\ st[n].next <= Len(depends[st[n].service])
      /\ d = depends[st[n].service][st[n].next]
  BY <1>0, <1>1, <1>2, NextType
<1>4. act \in Activations /\ act.service = d /\ act.action = "start" /\ act.next = 1
  <2>1. act = [service |-> d, action |-> "start", next |-> 1]
    BY DEF Activation
  <2>2. d \in Services
    BY Zenon, <1>3
  <2>3. 1 \in Nat \ {0}
    OBVIOUS
  <2> HIDE DEF act
  <2> QED
    BY <2>1, <2>2, <2>3 DEF Activations
<1>5. stack'[c] = more /\ completed'[c] = completed[c] /\ pc'[c] = "resolve" /\ depends' = depends
  BY <1>0 DEF Enter, CallTypes
<1> HIDE DEF act
<1>6. /\ Len(more) = n + 1 /\ more[n + 1] = act /\ \A i \in 1..n : more[i] = st[i]
  BY <1>2, <1>4, AppendProperties
<1> HIDE DEF more
<1>p. Path(st, completed[c]) /\ Closed(completed[c])
  BY DEF Ordered
<1> HIDE DEF n
<1> HIDE DEF st
<1>n. n \in Nat \ {0} /\ n = Len(st)
  BY <1>2 DEF n
<1>7. \A i \in 1..(n + 1) : i # 1 \/ i # n + 1 => more[i].action = "start"
  <2> SUFFICES ASSUME NEW i \in 1..(n + 1) PROVE more[i].action = "start"
    OBVIOUS
  <2>1. CASE i = n + 1
    BY <1>4, <1>6, <2>1
  <2>2. CASE i = n
    BY <1>3, <1>6, <1>n, <2>2
  <2>3. CASE i \in 1..(n - 1)
    <3>1. i \in 1..Len(st) /\ i # Len(st)
      BY <1>n, <2>3
    <3>2. st[i].action = "start"
      BY <1>p, <3>1 DEF Path
    <3> QED
      BY <1>6, <1>n, <3>1, <3>2
  <2> QED
    BY <1>n, <2>1, <2>2, <2>3
<1>8. \A i \in 1..(n + 1) : i # n + 1 =>
        /\ more[i].next <= Len(depends[more[i].service])
        /\ more[i + 1].service = depends[more[i].service][more[i].next]
  <2> SUFFICES ASSUME NEW i \in 1..n
               PROVE  /\ more[i].next <= Len(depends[more[i].service])
                      /\ more[i + 1].service = depends[more[i].service][more[i].next]
    BY <1>n
  <2>1. CASE i = n
    BY <1>3, <1>4, <1>6, <1>n, <2>1
  <2>2. CASE i # n
    <3>1. i \in 1..Len(st) /\ i # Len(st) /\ i + 1 \in 1..n
      BY <1>n, <2>2
    <3>2. st[i].next <= Len(depends[st[i].service]) /\ st[i + 1].service = depends[st[i].service][st[i].next]
      BY <1>p, <3>1 DEF Path
    <3>3. more[i] = st[i] /\ more[i + 1] = st[i + 1]
      BY <1>6, <3>1
    <3> QED
      BY <3>2, <3>3
  <2> QED
    BY <2>1, <2>2
<1>9. \A i \in 1..(n + 1) : \A j \in 1..Len(depends[more[i].service]) :
        j < more[i].next => depends[more[i].service][j] \in completed[c]
  <2> SUFFICES ASSUME NEW i \in 1..(n + 1), NEW j \in 1..Len(depends[more[i].service]), j < more[i].next
               PROVE  depends[more[i].service][j] \in completed[c]
    OBVIOUS
  <2>1. CASE i = n + 1
    BY <1>4, <1>6, <2>1
  <2>2. CASE i \in 1..n
    <3>1. more[i] = st[i] /\ i \in 1..Len(st)
      BY <1>6, <1>n, <2>2
    <3> QED
      BY <1>p, <3>1 DEF Path
  <2> QED
    BY <1>n, <2>1, <2>2
<1>10. Path(stack[c], completed[c])' /\ Closed(completed[c])'
  <2>1. Path(more, completed[c])
    BY <1>6, <1>7, <1>8, <1>9 DEF Path
  <2> QED
    BY <1>5, <1>p, <2>1 DEF Path, Closed
<1> QED
  BY <1>5, <1>10 DEF Ordered, Acting, Guarded


(* An activation that answers leaves its service started, and its caller   *)
(* with one dependency less to start.                                      *)
LEMMA OrderedAnswer ==
  ASSUME ExecutorTypes, NEW c \in Calls, Ordered(c), Answer(c), pc[c] \in {"resolve", "command", "save"},
         pc[c] = "resolve" => Top(c).service \in completed[c]
  PROVE  Ordered(c)'
<1> DEFINE st == stack[c]
           n == Len(st)
           done == completed[c]
           more == stack'[c]
<1>0. CallTypes /\ LocalTypes
  BY DEF ExecutorTypes
<1>1. CASE Settle(c, "ok")
  BY <1>0, <1>1, SettleShape, OrderedEnded
<1>2. CASE /\ Len(stack[c]) > 1
           /\ Goto(c, "resolve")
           /\ completed' = [completed EXCEPT ![c] =
                              IF StartsService(Top(c).action) THEN @ \cup {Top(c).service} ELSE @]
           /\ stack' = [stack EXCEPT ![c] =
                          LET rest == Front(@) IN [rest EXCEPT ![Len(rest)].next = @ + 1]]
           /\ UNCHANGED depends
  <2>0. st # <<>>
    BY <1>0, <1>2 DEF CallTypes
  <2>1. /\ st \in Seq(Activations) /\ n \in Nat \ {0} /\ Top(c) = st[n] /\ n > 1
        /\ Top(c).service \in Services /\ Top(c).next \in Nat \ {0}
        /\ depends[Top(c).service] \in Seq(Services)
    BY <1>0, <1>2, <2>0, TopType
  <2>2. /\ Len(more) = n - 1
        /\ \A i \in 1..(n - 2) : more[i] = st[i]
        /\ more[n - 1].service = st[n - 1].service
        /\ more[n - 1].action = st[n - 1].action
        /\ more[n - 1].next = st[n - 1].next + 1
    BY <1>0, <1>2, AnswerStack
  <2>p. Path(st, done) /\ Closed(done) /\ (pc[c] \in {"command", "save"} => TopReady(c))
    BY DEF Ordered, Acting, Guarded
  <2>3. pc'[c] = "resolve" /\ depends' = depends
    BY <1>0, <1>2 DEF Goto, CallTypes
  <2>d. done \subseteq Services
    BY <1>0 DEF CallTypes
  <2> HIDE DEF more
  <2> DEFINE top == st[n]
             now == done \cup {top.service}
  <2>4. top.action = "start"
    <3>1. n \in 1..Len(st) /\ n # 1
      BY <2>1
    <3> QED
      BY <2>p, <3>1 DEF Path
  <2>5. completed'[c] = now
    BY <1>0, <1>2, <2>1, <2>4 DEF StartsService, CallTypes
  <2>6. \A j \in 1..Len(depends[top.service]) : depends[top.service][j] \in done
    <3>1. CASE pc[c] = "resolve"
      BY <2>1, <2>p, <3>1 DEF Closed
    <3>2. CASE pc[c] \in {"command", "save"}
      <4>1. top.next > Len(depends[top.service]) /\ top.next \in Nat /\ Len(depends[top.service]) \in Nat
        BY <2>0, <2>1, <2>4, <2>p, <3>2 DEF TopReady
      <4>2. \A j \in 1..Len(depends[top.service]) : j < top.next
        BY <4>1
      <4>3. n \in 1..Len(st)
        BY <2>1
      <4> QED
        BY <2>p, <4>2, <4>3 DEF Path
    <3> QED
      BY <3>1, <3>2
  <2>t. now = done \cup {top.service} /\ top = st[n]
    OBVIOUS
  <2>q. Closed(done)
    BY <2>p
  <2>s. /\ \A i \in 1..(n - 1) : st[i] \in Activations
        /\ \A i \in 1..(n - 1) : st[i].next \in Nat
    <3>1. \A a \in Activations : a.next \in Nat
      BY DEF Activations
    <3>2. \A i \in 1..n : st[i] \in Activations
      BY <2>1
    <3>3. \A i \in 1..(n - 1) : i \in 1..n
      BY <2>1
    <3> QED
      BY <3>1, <3>2, <3>3
  <2>n. n \in Nat /\ n > 1 /\ n = Len(st)
    BY <2>1
  <2> HIDE DEF top
  <2> HIDE DEF n
  <2> HIDE DEF st
  <2> HIDE DEF now
  <2> HIDE DEF done
  <2>7. Closed(now)
    <3> SUFFICES ASSUME NEW s \in now, NEW j \in 1..Len(depends[s]) PROVE depends[s][j] \in now
      BY DEF Closed
    <3>1. CASE s = top.service
      BY <2>6, <2>t, <3>1
    <3>2. CASE s \in done
      BY <2>q, <2>t, <3>2 DEF Closed
    <3> QED
      BY <2>t, <3>1, <3>2
  <2>o. /\ \A i \in 1..n : i # 1 \/ i # n => st[i].action = "start"
        /\ \A i \in 1..(n - 1) : /\ st[i].next <= Len(depends[st[i].service])
                                 /\ st[i + 1].service = depends[st[i].service][st[i].next]
        /\ \A i \in 1..n : \A j \in 1..Len(depends[st[i].service]) :
             j < st[i].next => depends[st[i].service][j] \in done
    BY <2>p, <2>n DEF Path
  <2>8. \A i \in 1..(n - 1) : more[i].service = st[i].service /\ more[i].action = st[i].action
    <3> SUFFICES ASSUME NEW i \in 1..(n - 1) PROVE more[i].service = st[i].service /\ more[i].action = st[i].action
      OBVIOUS
    <3>1. i \in 1..(n - 2) \/ i = n - 1
      BY <2>n
    <3> QED
      BY <2>2, <3>1
  <2>9. \A i \in 1..(n - 1) : i # 1 \/ i # n - 1 => more[i].action = "start"
    <3> SUFFICES ASSUME NEW i \in 1..(n - 1) PROVE more[i].action = "start"
      OBVIOUS
    <3>1. i \in 1..n /\ i # n
      BY <2>n
    <3> QED
      BY <2>8, <2>o, <3>1
  <2>10. \A i \in 1..(n - 1) : i # n - 1 =>
           /\ more[i].next <= Len(depends[more[i].service])
           /\ more[i + 1].service = depends[more[i].service][more[i].next]
    <3> SUFFICES ASSUME NEW i \in 1..(n - 1), i # n - 1
                 PROVE  /\ more[i].next <= Len(depends[more[i].service])
                        /\ more[i + 1].service = depends[more[i].service][more[i].next]
      OBVIOUS
    <3>1. i \in 1..(n - 2) /\ i + 1 \in 1..(n - 1)
      BY <2>n
    <3>2. more[i] = st[i] /\ more[i + 1].service = st[i + 1].service
      BY <2>2, <2>8, <3>1
    <3> QED
      BY <2>o, <3>2
  <2>11. \A i \in 1..(n - 1) : \A j \in 1..Len(depends[more[i].service]) :
           j < more[i].next => depends[more[i].service][j] \in now
    <3> SUFFICES ASSUME NEW i \in 1..(n - 1), NEW j \in 1..Len(depends[more[i].service]), j < more[i].next
                 PROVE  depends[more[i].service][j] \in now
      OBVIOUS
    <3>0. more[i].service = st[i].service /\ i \in 1..n /\ st[i].next \in Nat
      BY <2>8, <2>n, <2>s
    <3>1. CASE j < st[i].next
      BY <2>o, <2>t, <3>0, <3>1
    <3>2. CASE ~(j < st[i].next)
      <4>1. i = n - 1
        <5>1. CASE i \in 1..(n - 2)
          BY <2>2, <3>2, <5>1
        <5> QED
          BY <2>n, <5>1
      <4>2. j < st[i].next + 1 /\ j \in Nat
        BY <2>2, <4>1
      <4>3. j = st[i].next
        BY <3>0, <3>2, <4>2
      <4>4. st[n].service = depends[st[i].service][j]
        <5>1. i + 1 = n
          BY <4>1, <2>n
        <5> QED
          BY <2>o, <4>3, <5>1
      <4> QED
        BY <2>t, <3>0, <4>4
    <3> QED
      BY <3>1, <3>2
  <2>12. Path(more, now)
    BY <2>2, <2>9, <2>10, <2>11 DEF Path
  <2>13. Path(stack[c], completed[c])' /\ Closed(completed[c])'
    <3>1. stack'[c] = more
      BY DEF more
    <3> QED
      BY <2>3, <2>5, <2>7, <2>12, <3>1 DEF Path, Closed
  <2> QED
    BY <2>3, <2>13 DEF Ordered, Acting, Guarded
<1> QED
  BY <1>1, <1>2 DEF Answer

LEMMA OrderedRequest ==
  ASSUME ExecutorTypes, NEW c \in Calls, Ordered(c), Request(c)
  PROVE  Ordered(c)'
<1>0. CallTypes
  BY DEF ExecutorTypes
<1>1. PICK r \in TaskRequests[c] : stack' = [stack EXCEPT ![c] = <<Activation(r.service, r.action)>>]
  BY DEF Request
<1>2. stack'[c] = <<Activation(r.service, r.action)>>
  BY <1>0, <1>1 DEF CallTypes
<1> DEFINE act == Activation(r.service, r.action)
<1>3. act.next = 1
  BY DEF Activation
<1>4. completed'[c] = {} /\ pc'[c] = "resolve"
  BY <1>0 DEF Request, Goto, Ordered, CallTypes
<1> HIDE DEF act
<1>5. Len(<<act>>) = 1 /\ <<act>>[1] = act
  OBVIOUS
<1>6. stack'[c] = <<act>>
  BY <1>2 DEF act
<1>7. Path(stack[c], completed[c])' /\ Closed(completed[c])'
  <2>1. \A i \in 1..1 : i = 1
    OBVIOUS
  <2>2. \A n \in Nat : \A j \in 1..n : ~(j < 1)
    OBVIOUS
  <2>3. \A i \in 1..Len(stack'[c]) : i = 1 /\ i = Len(stack'[c])
    BY <1>5, <1>6, <2>1
  <2>4. \A i \in 1..Len(stack'[c]) : stack'[c][i].next = 1
    BY <1>3, <1>5, <1>6, <2>3
  <2>5. \A i \in 1..Len(stack'[c]) : Len(depends'[stack'[c][i].service]) \in Nat
    <3>1. r.service \in Services
      BY <1>1, ExecutorAssumption
    <3>2. act.service = r.service
      BY DEF act, Activation
    <3>3. depends' = depends /\ depends[r.service] \in Seq(Services)
      BY <1>0, <3>1 DEF Request, CallTypes
    <3> QED
      BY <1>5, <1>6, <2>3, <3>2, <3>3
  <2> QED
    BY <1>4, <2>2, <2>3, <2>4, <2>5 DEF Path, Closed
<1> QED
  BY <1>4, <1>7 DEF Ordered, Acting, Guarded

(* Whoever has nothing more to resolve ends, answers or keeps its stack. *)
LEMMA StackSteps ==
  ASSUME ExecutorTypes, NEW c \in Calls, RequestWorkspace(c) \/ CallStep(c), pc[c] # "resolve"
  PROVE  \/ \E outcome \in {"ok", "failed"} : Ended(c, outcome)
         \/ Answer(c) /\ pc[c] \in {"command", "save"}
         \/ stack'[c] = stack[c] /\ completed'[c] = completed[c]
<1>0. CallTypes /\ LocalTypes
  BY DEF ExecutorTypes
<1> DEFINE Same == stack'[c] = stack[c] /\ completed'[c] = completed[c]
           Over == \E outcome \in {"ok", "failed"} : Ended(c, outcome)
<1>f. Fail(c) => Over
  BY <1>0, SettleShape DEF Fail
<1>t. ThenSave(c) => Same
  BY DEF ThenSave, frameVars
<1>q. ASSUME NEW step, Quietly(c, step) PROVE Same
  BY <1>q DEF Quietly, kept, frameVars
<1>r. TryAgain(c) => Over \/ Same
  BY <1>f DEF TryAgain, kept, frameVars
<1>l. ASSUME NEW from, NEW to, TakeLock(c, from, to) PROVE Over \/ Same
  BY <1>f, <1>l DEF TakeLock, frameVars
<1>k. UNCHANGED kept => Same
  BY DEF kept, frameVars
<1>s. Settle(c, "ok") => Over
  BY <1>0, SettleShape
<1> HIDE DEF Same, Over
<1>1. CASE RequestWorkspace(c)
  BY <1>1 DEF RequestWorkspace, Same
<1>2. CASE Preflight(c) \/ Inspect(c) \/ Delete(c) \/ CleanupDone(c) \/ Launch(c) \/ Verify(c) \/ Stop(c)
  BY <1>2, <1>f, <1>t, <1>q, <1>r DEF Preflight, Inspect, Delete, CleanupDone, Launch, Verify, Stop, Same, Over
<1>3. CASE Lock(c) \/ SaveLock(c) \/ ResurrectLock(c)
  BY <1>3, <1>l DEF Lock, SaveLock, ResurrectLock, Same, Over
<1>4. CASE RunCommand(c) \/ List(c) \/ Capture(c) \/ Signal(c) \/ Save(c)
  BY <1>4, <1>f, <1>t, <1>k DEF RunCommand, List, Capture, Signal, Save, Same, Over
<1>5. CASE Resurrect(c) \/ VerifyResurrected(c)
  BY <1>5, <1>f, <1>q, <1>r, <1>k, <1>s DEF Resurrect, RestoreEntries, VerifyResurrected, Same, Over
<1>6. CASE Resolve(c)
  BY <1>6 DEF Resolve
<1> QED
  BY <1>1, <1>2, <1>3, <1>4, <1>5, <1>6 DEF CallStep, Same, Over

LEMMA OrderStep == ExecutorTypes /\ OrderInv /\ [Next]_vars => OrderInv'
<1> SUFFICES ASSUME ExecutorTypes, OrderInv, [Next]_vars PROVE OrderInv'
  OBVIOUS
<1>0. CallTypes /\ LocalTypes
  BY DEF ExecutorTypes
<1>1. ASSUME NEW d \in Calls, pc'[d] = pc[d], stack'[d] = stack[d], completed'[d] = completed[d], depends' = depends
      PROVE  Ordered(d)'
  <2>1. Ordered(d)
    BY DEF OrderInv
  <2>2. TopReady(d) => TopReady(d)'
    BY <1>1 DEF TopReady, Top, Last
  <2>3. Path(stack[d], completed[d])' /\ Closed(completed[d])'
    BY <1>1, <2>1 DEF Ordered, Path, Closed
  <2> QED
    BY <1>1, <2>1, <2>2, <2>3 DEF Ordered
<1>2. ASSUME NEW c \in Calls, Request(c) \/ RequestWorkspace(c) \/ CallStep(c) PROVE Ordered(c)'
  <2>0. Ordered(c) /\ Control(c) /\ depends' = depends
    BY <1>2, Controlled DEF OrderInv
  <2>1. CASE Request(c)
    BY <2>0, <2>1, OrderedRequest
  <2>2. CASE Resolve(c)
    <3>1. pc[c] = "resolve" /\ stack[c] # <<>>
      BY <1>0, <2>2 DEF Resolve, CallTypes
    <3>2. CASE Fail(c)
      BY <1>0, <3>2, SettleShape, OrderedEnded DEF Fail
    <3>3. CASE Top(c).service \in completed[c] /\ Answer(c)
      BY <2>0, <3>1, <3>3, OrderedAnswer
    <3>4. CASE \E d \in NextDependency(c) : Enter(c, d)
      BY <2>0, <3>1, <3>4, OrderedEnter
    <3>5. CASE Top(c).service \notin completed[c] /\ NextDependency(c) = {} /\ Quietly(c, "preflight")
      <4>1. stack'[c] = stack[c] /\ completed'[c] = completed[c] /\ pc'[c] = "preflight"
        BY <1>0, <3>5, QuietShape DEF Moved
      <4>2. Top(c).action = "start" => ~(Top(c).next <= Len(depends[Top(c).service]))
        BY <3>5 DEF NextDependency, StartsService
      <4>3. Top(c).next \in Nat /\ Len(depends[Top(c).service]) \in Nat
        BY <1>0, <3>1, TopType
      <4>4. TopReady(c)
        BY <3>5, <4>2, <4>3 DEF TopReady
      <4> QED
        BY <2>0, <4>1, <4>4, OrderedSame
    <3> QED
      BY <2>2, <3>2, <3>3, <3>4, <3>5 DEF Resolve
  <2>3. CASE (RequestWorkspace(c) \/ CallStep(c)) /\ pc[c] # "resolve"
    <3>1. CASE \E outcome \in {"ok", "failed"} : Ended(c, outcome)
      BY <3>1, OrderedEnded
    <3>2. CASE Answer(c) /\ pc[c] \in {"command", "save"}
      BY <2>0, <3>2, OrderedAnswer
    <3>3. CASE stack'[c] = stack[c] /\ completed'[c] = completed[c] /\ pc'[c] # "done"
      <4>1. pc[c] = "idle" => TopReady(c)
        BY <2>0 DEF Ordered, TopReady
      <4>2. pc[c] \in Acting \cup {"savelock", "save"} => TopReady(c)
        BY <2>0 DEF Ordered
      <4>3. pc'[c] # "idle"
        BY <2>0 DEF Control, Ended, Returned, ToSave, Edges, IntoLock
      <4>4. pc'[c] \in Acting \cup {"savelock", "save"} => pc[c] \in Acting \cup {"savelock", "save", "idle"}
        BY <2>0, <2>3, <3>3 DEF Control, Ended, Returned, ToSave, Edges, IntoLock, Acting, Guarded
      <4> QED
        BY <2>0, <3>3, <4>1, <4>2, <4>3, <4>4, OrderedSame
    <3>4. CASE pc'[c] = "done"
      <4>1. \E outcome \in {"ok", "failed"} : Ended(c, outcome)
        BY <2>0, <3>4 DEF Control, Returned, ToSave, Edges, IntoLock
      <4> QED
        BY <4>1, OrderedEnded
    <3> QED
      BY <2>3, <3>1, <3>2, <3>3, <3>4, StackSteps
  <2>4. CallStep(c) /\ pc[c] = "resolve" => Resolve(c)
    BY DEF CallStep, Preflight, RunCommand, Lock, Inspect, List, Capture, Delete, Signal, CleanupDone, Launch, Verify,
           Stop, SaveLock, Save, ResurrectLock, Resurrect, VerifyResurrected, TakeLock
  <2>5. RequestWorkspace(c) => pc[c] # "resolve"
    BY DEF RequestWorkspace
  <2> QED
    BY <1>2, <2>1, <2>2, <2>3, <2>4, <2>5
<1>3. ASSUME NEW c \in Calls, Request(c) \/ RequestWorkspace(c) \/ CallStep(c), NEW d \in Calls PROVE Ordered(d)'
  <2>1. Others(c) /\ depends' = depends
    BY <1>3, Controlled
  <2> QED
    BY <1>1, <1>2, <1>3, <2>1 DEF Others
<1>4. CASE Fork \/ ForeignStarts \/ ProcessEnds \/ DaemonEnds \/ UNCHANGED vars
  <2>1. UNCHANGED <<pc, stack, completed, depends>>
    BY <1>4 DEF Fork, ForeignStarts, ProcessEnds, DaemonEnds, vars, outside, kept, frameVars
  <2> QED
    BY <1>1, <2>1 DEF OrderInv
<1> QED
  BY <1>3, <1>4 DEF Next, OrderInv

LEMMA OrderedDependencies == ExecutorTypes /\ OrderInv => DependenciesFirst
<1> SUFFICES ASSUME ExecutorTypes, OrderInv, NEW c \in Calls, pc[c] \in Acting, Top(c).action = "start"
             PROVE  /\ Upstream(Top(c).service) \subseteq completed[c]
                    /\ Top(c).service \notin completed[c]
  BY DEF DependenciesFirst, StartsService
<1> DEFINE s == Top(c).service
           st == stack[c]
           n == Len(st)
           done == completed[c]
<1>1. CallTypes /\ st # <<>>
  BY DEF ExecutorTypes, CallTypes
<1>2. Ordered(c) /\ TopReady(c)
  BY DEF OrderInv, Ordered
<1>3. n \in Nat \ {0} /\ Top(c) = st[n] /\ s \in Services /\ Top(c).next \in Nat /\ depends[s] \in Seq(Services)
  BY <1>1, TopType
<1>4. Top(c).next > Len(depends[s]) /\ s \notin done
  BY <1>1, <1>2 DEF TopReady
<1>5. \A j \in 1..Len(depends[s]) : depends[s][j] \in done
  <2>1. \A j \in 1..Len(depends[s]) : j < Top(c).next
    BY <1>3, <1>4
  <2>2. n \in 1..Len(st)
    BY <1>3
  <2> QED
    BY <1>2, <1>3, <2>1, <2>2 DEF Ordered, Path
<1>6. done \in SUBSET Services
  BY <1>1 DEF CallTypes
<1>7. \A x \in Services : (\A j \in 1..Len(depends[x]) : depends[x][j] \in done) => ToSet(depends[x]) \subseteq done
  <2> SUFFICES ASSUME NEW x \in Services, \A j \in 1..Len(depends[x]) : depends[x][j] \in done
               PROVE  ToSet(depends[x]) \subseteq done
    OBVIOUS
  <2>1. DOMAIN depends[x] = 1..Len(depends[x])
    BY <1>1 DEF CallTypes
  <2> QED
    BY <2>1 DEF ToSet
<1>8. ToSet(depends[s]) \subseteq done
  BY <1>3, <1>5, <1>7
<1>9. \A x \in done : ToSet(depends[x]) \subseteq done
  BY <1>2, <1>6, <1>7 DEF Ordered, Closed
<1> HIDE DEF s, done
<1>10. Upstream(s) \subseteq done
  BY <1>6, <1>8, <1>9 DEF Upstream
<1> QED
  BY <1>4, <1>10 DEF s, done

-----------------------------------------------------------------------------
(* What is running, what PM2's table says of it and what was captured.     *)
ClockInv ==
  /\ \A p \in Pids : startOf[p] <= clock
  /\ \A start \in foreign : start # 0 /\ start <= clock
  /\ \A p \in Pids : Foreign(p) => parent[p] = NoPid \/ Foreign(parent[p])

(* An entry's process runs and has no parent; no two share one. *)
RowInv ==
  /\ \A n \in Names : row[n].pid # NoPid => startOf[row[n].pid] # 0 /\ parent[row[n].pid] = NoPid
  /\ \A m, n \in Names : row[m].pid = row[n].pid /\ row[m].pid # NoPid => m = n

Replacing == {"delete", "cleanup", "launch", "verify"}

Entry(c) == RuntimeNameOf[Top(c).service]

(* A call that replaces an entry: what it captured is a stranger's only    *)
(* where the listed pid was, what still runs of it is not another entry's, *)
(* and before the launch it is gone.                                       *)
Replacement(c) ==
  /\ pc[c] \notin Replacing => captured[c] = {}
  /\ todo[c] \subseteq captured[c]
  /\ pc[c] \in {"capture", "delete"} /\ row[Entry(c)].status # "absent" =>
       \A n \in Names : row[n].pid = previous[c] /\ previous[c] # NoPid => n = Entry(c)
  /\ \A id \in captured[c] : id.start \in 1..clock /\ (id.start \in foreign => TakenOver(c))
  /\ pc[c] = "delete" => \A id \in captured[c] : \A n \in Names :
       IsCurrent(id) /\ row[n].pid = id.pid => id.pid = previous[c]
  /\ pc[c] \in {"cleanup", "launch", "verify"} => \A id \in captured[c] : \A n \in Names :
       IsCurrent(id) => row[n].pid # id.pid
  /\ pc[c] \in {"launch", "verify"} => \A id \in captured[c] : ~IsCurrent(id)

ReplaceInv == \A c \in Calls : Replacement(c)

(* A process of a tree is a root or the child of one that runs. *)
LEMMA TreeMembers ==
  ASSUME HostTypes, NEW roots, NEW p \in Tree(roots)
  PROVE  p \in Pids /\ startOf[p] # 0 /\ (p \in roots \/ parent[p] \in Pids)
<1> DEFINE up == {q \in Pids : Running(q)}
           set == {q \in up : q \in roots \/ parent[q] \in Pids}
<1>1. up \cap roots \subseteq set /\ set \in SUBSET up
  OBVIOUS
<1>2. \A q \in up : parent[q] \in set => q \in set
  OBVIOUS
<1>3. p \in up /\ \A s \in SUBSET up : (up \cap roots \subseteq s /\ \A q \in up : parent[q] \in s => q \in s) => p \in s
  BY DEF Tree
<1> HIDE DEF set
<1>4. p \in set
  BY <1>1, <1>2, <1>3
<1> QED
  BY <1>3, <1>4 DEF set, Running

(* The tree of an entry has no other entry's process. *)
LEMMA TreeOfEntry ==
  ASSUME HostTypes, RowInv, NEW n \in Names, NEW m \in Names, m # n, row[m].pid # NoPid
  PROVE  row[m].pid \notin Tree({row[n].pid})
<1> SUFFICES ASSUME row[m].pid \in Tree({row[n].pid}) PROVE FALSE
  OBVIOUS
<1>1. row[m].pid = row[n].pid \/ parent[row[m].pid] \in Pids
  BY TreeMembers
<1>2. parent[row[m].pid] = NoPid
  BY DEF RowInv
<1>3. row[m].pid = row[n].pid
  BY <1>1, <1>2, TreeAssumption
<1> QED
  BY <1>3 DEF RowInv

(* How a step changes the processes, and the table with them. *)
Quiet == UNCHANGED treeVars /\ \A n \in Names : row'[n].pid \in {row[n].pid, NoPid}

Starts(p, from) ==
  /\ Start(p, from)
  /\ \/ foreign' = foreign
     \/ foreign' = foreign \cup {clock'} /\ (from = NoPid \/ Foreign(from))
  /\ \/ row' = row
     \/ \E n \in Names : /\ row'[n].pid = p /\ from = NoPid
                         /\ \A m \in Names \ {n} : row'[m] = row[m]

Ends(pids) ==
  EndOf(pids) /\ \A n \in Names : row'[n].pid \in {row[n].pid, NoPid} /\ row'[n].pid \notin pids

LEMMA WorldSteps ==
  ASSUME ExecutorTypes, RowInv, ReplaceInv, [Next]_vars
  PROVE  \/ Quiet
         \/ \E p \in Pids, from \in Pids \cup {NoPid} : Starts(p, from)
         \/ \E pids \in SUBSET Pids : Ends(pids)
<1>0. CallTypes /\ LocalTypes /\ HostTypes
  BY DEF ExecutorTypes
<1>r. row \in [Names -> [status : Statuses, pid : Pids \cup {NoPid}]] /\ NoPid \notin Pids
  BY <1>0, TreeAssumption DEF HostTypes
<1> DEFINE Good == \/ Quiet
                   \/ \E p \in Pids, from \in Pids \cup {NoPid} : Starts(p, from)
                   \/ \E pids \in SUBSET Pids : Ends(pids)
<1> SUFFICES Good
  OBVIOUS
<1>q. Quiet => Good
  OBVIOUS
<1>s. ASSUME NEW p \in Pids, NEW from \in Pids \cup {NoPid}, Starts(p, from) PROVE Good
  BY <1>s
<1>e. ASSUME NEW pids \in SUBSET Pids, Ends(pids) PROVE Good
  BY <1>e
<1> HIDE DEF Good
<1>1. ASSUME UNCHANGED treeVars, row' = row PROVE Good
  BY <1>1, <1>q DEF Quiet
<1>2. ASSUME UNCHANGED treeVars, NEW n \in Names, NEW status, RowPut(n, status, NoPid) PROVE Good
  <2>1. Quiet
    BY <1>r, <1>2 DEF Quiet, RowPut
  <2> QED
    BY <1>q, <2>1
<1>3. ASSUME NEW n \in Names, NEW p \in Pids, Start(p, NoPid), RowPut(n, "online", p), foreign' = foreign PROVE Good
  <2>1. Starts(p, NoPid)
    BY <1>r, <1>3 DEF Starts, RowPut
  <2> QED
    BY <1>s, <2>1
<1>4. ASSUME NEW n \in Names, NEW pids \in SUBSET Tree({row[n].pid}), EndOf(pids), NEW status, RowPut(n, status, NoPid)
      PROVE  Good
  <2>1. pids \in SUBSET Pids
    BY TreeOfPids
  <2>2. \A m \in Names : row'[m].pid \in {row[m].pid, NoPid}
    BY <1>r, <1>4 DEF RowPut
  <2>3. \A m \in Names : row'[m].pid \notin pids
    <3>1. row'[n].pid = NoPid /\ \A m \in Names \ {n} : row'[m] = row[m]
      BY <1>r, <1>4 DEF RowPut
    <3>2. \A m \in Names \ {n} : row[m].pid = NoPid \/ row[m].pid \notin Tree({row[n].pid})
      BY <1>0, TreeOfEntry
    <3> QED
      BY <1>r, <2>1, <3>1, <3>2
  <2> QED
    BY <1>4, <1>e, <2>1, <2>2, <2>3 DEF Ends
<1>n. ASSUME NEW c \in Calls, pc[c] \in Acting PROVE Entry(c) \in Names
  <2>1. stack[c] # <<>>
    BY <1>0, <1>n DEF CallTypes
  <2> QED
    BY <1>0, <2>1, TopType, ExecutorAssumption DEF Entry
<1>5. ASSUME NEW c \in Calls, CallStep(c) PROVE Good
  <2>1. CASE Resolve(c) \/ Preflight(c) \/ RunCommand(c) \/ Lock(c) \/ Inspect(c) \/ List(c) \/ Capture(c) \/ CleanupDone(c)
             \/ Verify(c) \/ SaveLock(c) \/ Save(c) \/ ResurrectLock(c) \/ VerifyResurrected(c)
    BY <1>1, <2>1 DEF Resolve, Preflight, RunCommand, Lock, Inspect, List, Capture, CleanupDone, Verify, SaveLock, Save,
                      ResurrectLock, VerifyResurrected, TakeLock, pm2Vars
  <2>2. CASE Delete(c) \/ Stop(c)
    <3>1. Entry(c) \in Names
      BY <1>n, <2>2 DEF Delete, Stop, Acting, Guarded
    <3>2. \/ UNCHANGED <<treeVars, row>>
          \/ \E ended \in SUBSET Tree({row[Entry(c)].pid}) :
               EndOf(ended) /\ (RowPut(Entry(c), "absent", NoPid) \/ RowPut(Entry(c), "stopped", NoPid))
      BY <2>2 DEF Delete, Stop, RowPut, Absent, Entry
    <3> QED
      BY <1>1, <1>4, <3>1, <3>2
  <2>3. CASE Signal(c)
    <3>1. UNCHANGED row /\ (UNCHANGED treeVars \/ \E id \in todo[c] : IsCurrent(id) /\ EndOf({id.pid}))
      BY <2>3 DEF Signal, pm2Vars, Deepest
    <3>2. ASSUME NEW id \in todo[c], IsCurrent(id), EndOf({id.pid}) PROVE Good
      <4>1. id \in captured[c] /\ pc[c] = "cleanup"
        BY <2>3, <3>2 DEF ReplaceInv, Replacement, Signal
      <4>2. \A n \in Names : row[n].pid # id.pid
        BY <3>2, <4>1 DEF ReplaceInv, Replacement
      <4>3. id.pid \in Pids
        BY <1>0, <4>1 DEF LocalTypes, Identities
      <4> QED
        BY <1>e, <3>1, <3>2, <4>2, <4>3 DEF Ends
    <3> QED
      BY <1>1, <3>1, <3>2
  <2>4. CASE Launch(c)
    <3>1. Entry(c) \in Names /\ foreign' = foreign
      BY <1>n, <2>4 DEF Launch, Acting, Guarded
    <3>2. \/ \E p \in Pids : Start(p, NoPid) /\ RowPut(Entry(c), "online", p)
          \/ UNCHANGED <<startOf, parent, clock>> /\ (row' = row \/ RowPut(Entry(c), "errored", NoPid))
      BY <2>4 DEF Launch, RowPut, Entry
    <3> QED
      BY <1>1, <1>2, <1>3, <3>1, <3>2 DEF treeVars
  <2>5. CASE Resurrect(c)
    <3>1. saved \subseteq Names /\ foreign' = foreign
      BY <1>0, <2>5 DEF Resurrect, HostTypes
    <3>2. \/ \E n \in saved, p \in Pids : Start(p, NoPid) /\ RowPut(n, "online", p)
          \/ UNCHANGED <<startOf, parent, clock>> /\ (row' = row \/ \E n \in saved : RowPut(n, "errored", NoPid))
      BY <2>5 DEF Resurrect, RestoreEntries, RowPut
    <3> QED
      BY <1>1, <1>2, <1>3, <3>1, <3>2 DEF treeVars
  <2> QED
    BY <1>5, <2>1, <2>2, <2>3, <2>4, <2>5 DEF CallStep
<1>6. ASSUME NEW c \in Calls, Request(c) \/ RequestWorkspace(c) PROVE Good
  BY <1>1, <1>6 DEF Request, RequestWorkspace, pm2Vars
<1>7. CASE Fork
  <2>1. PICK p \in Pids, q \in Pids :
              Start(p, q) /\ foreign' = IF Foreign(q) THEN foreign \cup {clock'} ELSE foreign
    BY <1>7 DEF Fork
  <2>2. Starts(p, q)
    BY <1>7, <2>1 DEF Starts, Fork, pm2Vars
  <2> QED
    BY <1>s, <2>2
<1>8. CASE ForeignStarts
  <2>1. PICK p \in Watched : Start(p, NoPid) /\ foreign' = foreign \cup {clock'}
    BY <1>8 DEF ForeignStarts
  <2>2. p \in Pids
    BY <1>0, WatchedPids
  <2>3. Starts(p, NoPid)
    BY <1>r, <1>8, <2>1 DEF Starts, ForeignStarts, pm2Vars
  <2> QED
    BY <1>s, <2>2, <2>3
<1>9. CASE ProcessEnds
  <2>1. PICK p \in Pids : /\ EndOf({p})
                          /\ row' = [n \in Names |-> IF row[n].pid = p
                                  THEN [status |-> "errored", pid |-> NoPid] ELSE row[n]]
    BY <1>9 DEF ProcessEnds
  <2>2. \A n \in Names : row'[n].pid \in {row[n].pid, NoPid} /\ row'[n].pid # p
    BY <1>r, <2>1
  <2> QED
    BY <1>e, <2>1, <2>2 DEF Ends
<1>10. CASE DaemonEnds
  <2>1. PICK ended \in {{}, Tree({row[n].pid : n \in Names})} : EndOf(ended)
    BY <1>10 DEF DaemonEnds
  <2>2. \A n \in Names : row'[n].pid = NoPid
    BY <1>10 DEF DaemonEnds, Absent
  <2>3. ended \in SUBSET Pids
    BY <2>1, TreeOfPids
  <2> QED
    BY <1>r, <1>e, <2>1, <2>2, <2>3 DEF Ends
<1>11. CASE UNCHANGED vars
  BY <1>1, <1>11 DEF vars, pm2Vars
<1> QED
  BY <1>5, <1>6, <1>7, <1>8, <1>9, <1>10, <1>11 DEF Next

(* The tree of a process has a stranger only if that process is one. *)
LEMMA StrangersTree ==
  ASSUME HostTypes, ClockInv, NEW root, NEW p \in Tree({root}), startOf[p] \in foreign
  PROVE  root \in Tree({root}) /\ startOf[root] \in foreign
<1> DEFINE up == {q \in Pids : Running(q)}
           set == {q \in up : ~Foreign(q)}
<1>1. p \in up /\ \A s \in SUBSET up : (up \cap {root} \subseteq s /\ \A q \in up : parent[q] \in s => q \in s) => p \in s
  BY DEF Tree
<1>2. \A q \in up : parent[q] \in set => q \in set
  <2> SUFFICES ASSUME NEW q \in up, parent[q] \in set, Foreign(q) PROVE FALSE
    OBVIOUS
  <2> QED
    BY TreeAssumption DEF ClockInv
<1>3. p \notin set
  BY <1>1 DEF Foreign
<1>4. set \in SUBSET up
  OBVIOUS
<1>5. ~(up \cap {root} \subseteq set)
  BY <1>1, <1>2, <1>3, <1>4
<1>6. root \in up /\ startOf[root] \in foreign
  BY <1>5 DEF Foreign
<1> QED
  BY <1>6 DEF Tree

LEMMA ClockStep ==
  ASSUME ExecutorTypes, ClockInv, RowInv, ReplaceInv, [Next]_vars
  PROVE  ClockInv'
<1>0. HostTypes /\ NoPid \notin Pids
  BY TreeAssumption DEF ExecutorTypes, HostTypes
<1>1. CASE Quiet
  BY <1>1 DEF Quiet, treeVars, ClockInv, Foreign
<1>2. ASSUME NEW p \in Pids, NEW from \in Pids \cup {NoPid}, Starts(p, from) PROVE ClockInv'
  <2>1. /\ clock' = clock + 1 /\ startOf[p] = 0 /\ startOf'[p] = clock + 1 /\ parent'[p] = from
        /\ \A q \in Pids \ {p} : startOf'[q] = startOf[q] /\ parent'[q] = parent[q]
    BY <1>0, <1>2, StartTypes DEF Starts
  <2>2. clock \in Nat /\ foreign \subseteq Nat /\ \A q \in Pids : startOf[q] \in Nat
    BY <1>0 DEF HostTypes
  <2>3. \A q \in Pids : startOf'[q] <= clock'
    BY <2>1, <2>2 DEF ClockInv
  <2>4. foreign \subseteq foreign' /\ foreign' \subseteq foreign \cup {clock + 1}
    BY <1>2, <2>1 DEF Starts
  <2>5. \A start \in foreign' : start # 0 /\ start <= clock'
    BY <2>1, <2>2, <2>4 DEF ClockInv
  <2>6. ~Foreign(p) /\ \A start \in foreign : start # clock + 1
    BY <2>1, <2>2 DEF ClockInv, Foreign
  <2>7. \A q \in Pids \ {p} : Foreign(q)' <=> Foreign(q)
    <3>1. \A q \in Pids : startOf[q] # clock + 1
      BY <2>2 DEF ClockInv
    <3> QED
      BY <2>1, <2>4, <3>1 DEF Foreign
  <2>8. ASSUME NEW q \in Pids \ {p}, Foreign(q)' PROVE parent'[q] = NoPid \/ Foreign(parent[q])'
    <3>1. parent'[q] = NoPid \/ Foreign(parent'[q])
      BY <2>1, <2>7, <2>8 DEF ClockInv
    <3>2. Foreign(parent'[q]) => parent'[q] \in Pids \ {p}
      BY <2>6 DEF Foreign
    <3>3. Foreign(parent'[q]) => startOf'[parent'[q]] \in foreign'
      BY <2>1, <2>4, <3>2 DEF Foreign
    <3> QED
      BY <3>1, <3>2, <3>3 DEF Foreign
  <2>9. Foreign(p)' => parent'[p] = NoPid \/ Foreign(parent[p])'
    <3>1. ASSUME Foreign(p)' PROVE from = NoPid \/ Foreign(from)
      BY <1>2, <2>1, <2>6, <3>1 DEF Starts, Foreign
    <3>2. Foreign(from) => from \in Pids \ {p} /\ startOf'[from] \in foreign'
      BY <2>1, <2>4, <2>6 DEF Foreign
    <3> QED
      BY <2>1, <3>1, <3>2 DEF Foreign
  <2> QED
    BY <2>3, <2>5, <2>8, <2>9 DEF ClockInv
<1>3. ASSUME NEW pids \in SUBSET Pids, Ends(pids) PROVE ClockInv'
  <2>1. /\ foreign' = foreign /\ clock' = clock
        /\ \A p \in Pids : /\ startOf'[p] = IF p \in pids THEN 0 ELSE startOf[p]
                           /\ parent'[p] = IF p \in pids \/ parent[p] \in pids THEN NoPid ELSE parent[p]
    BY <1>0, <1>3, EndTypes DEF Ends
  <2>2. clock \in Nat /\ 0 \notin foreign
    BY <1>0 DEF HostTypes, ClockInv
  <2>3. ASSUME NEW p \in Pids, Foreign(p)' PROVE parent'[p] = NoPid \/ Foreign(parent[p])'
    <3>1. p \notin pids /\ Foreign(p)
      BY <2>1, <2>2, <2>3 DEF Foreign
    <3>2. CASE parent[p] \in pids \/ parent[p] = NoPid
      BY <2>1, <3>1, <3>2
    <3>3. CASE parent[p] \notin pids /\ Foreign(parent[p])
      BY <2>1, <3>1, <3>3 DEF Foreign
    <3> QED
      BY <3>1, <3>2, <3>3 DEF ClockInv
  <2> QED
    BY <1>0, <2>1, <2>2, <2>3 DEF ClockInv
<1> QED
  BY <1>1, <1>2, <1>3, WorldSteps

LEMMA RowStep ==
  ASSUME ExecutorTypes, ClockInv, RowInv, ReplaceInv, [Next]_vars
  PROVE  RowInv'
<1>0. HostTypes /\ NoPid \notin Pids /\ \A n \in Names : row[n].pid \in Pids \cup {NoPid}
  BY TreeAssumption DEF ExecutorTypes, HostTypes
<1>1. CASE Quiet
  BY <1>0, <1>1 DEF Quiet, treeVars, RowInv
<1>2. ASSUME NEW p \in Pids, NEW from \in Pids \cup {NoPid}, Starts(p, from) PROVE RowInv'
  <2>1. /\ clock' = clock + 1 /\ startOf[p] = 0 /\ startOf'[p] = clock + 1 /\ parent'[p] = from
        /\ \A q \in Pids \ {p} : startOf'[q] = startOf[q] /\ parent'[q] = parent[q]
    BY <1>0, <1>2, StartTypes DEF Starts
  <2>2. \A n \in Names : row[n].pid # p
    BY <1>0, <2>1 DEF RowInv
  <2>4. startOf'[p] # 0
    BY <1>0, <2>1 DEF HostTypes
  <2>5. \A n \in Names : row[n].pid # NoPid =>
          startOf'[row[n].pid] # 0 /\ parent'[row[n].pid] = NoPid
    BY <1>0, <2>1, <2>2 DEF RowInv
  <2>6. CASE row' = row
    BY <2>5, <2>6 DEF RowInv
  <2>7. ASSUME NEW n \in Names, row'[n].pid = p, from = NoPid,
               \A m \in Names \ {n} : row'[m] = row[m]
        PROVE  RowInv'
    <3>1. \A m \in Names \ {n} : row'[m].pid # p
      BY <2>2, <2>7
    <3> QED
      BY <2>1, <2>2, <2>4, <2>5, <2>7, <3>1 DEF RowInv
  <2> QED
    BY <1>2, <2>6, <2>7 DEF Starts
<1>3. ASSUME NEW pids \in SUBSET Pids, Ends(pids) PROVE RowInv'
  <2>1. \A p \in Pids : /\ startOf'[p] = IF p \in pids THEN 0 ELSE startOf[p]
                        /\ parent'[p] \in {parent[p], NoPid}
    BY <1>0, <1>3, EndTypes DEF Ends
  <2>2. \A n \in Names : row'[n].pid \in {row[n].pid, NoPid} /\ row'[n].pid \notin pids
    BY <1>3 DEF Ends
  <2> QED
    BY <1>0, <2>1, <2>2 DEF RowInv
<1> QED
  BY <1>1, <1>2, <1>3, WorldSteps

-----------------------------------------------------------------------------
(* A captured process that is still current was so before, and no entry    *)
(* has come to have it; a stranger's was a stranger's.                     *)
LEMMA IdentityKept ==
  ASSUME ExecutorTypes, ClockInv, RowInv, ReplaceInv, [Next]_vars,
         NEW c \in Calls, NEW id \in captured[c]
  PROVE  /\ id.start \in 1..clock'
         /\ (id.start \in foreign' <=> id.start \in foreign)
         /\ IsCurrent(id)' => /\ IsCurrent(id)
                              /\ \A n \in Names : row'[n].pid = id.pid => row[n].pid = id.pid
<1>0. HostTypes /\ NoPid \notin Pids /\ clock \in Nat
  BY TreeAssumption DEF ExecutorTypes, HostTypes
<1>1. id.pid \in Pids
  BY DEF ExecutorTypes, LocalTypes, Identities
<1>2. id.start \in 1..clock
  BY DEF ReplaceInv, Replacement
<1>i. id.start # 0 /\ id.start <= clock /\ id.start \in Nat
  BY <1>0, <1>2
<1>3. CASE Quiet
  BY <1>0, <1>1, <1>2, <1>3 DEF Quiet, treeVars, IsCurrent
<1>4. ASSUME NEW p \in Pids, NEW from \in Pids \cup {NoPid}, Starts(p, from)
      PROVE  /\ id.start \in 1..clock'
             /\ (id.start \in foreign' <=> id.start \in foreign)
             /\ IsCurrent(id)' => /\ IsCurrent(id)
                                  /\ \A n \in Names : row'[n].pid = id.pid => row[n].pid = id.pid
  <2>1. /\ clock' = clock + 1 /\ startOf'[p] = clock + 1
        /\ \A q \in Pids \ {p} : startOf'[q] = startOf[q]
    BY <1>0, <1>4, StartTypes DEF Starts
  <2>2. id.start \in 1..clock'
    BY <1>0, <1>i, <2>1
  <2>3. IsCurrent(id)' => id.pid # p
    BY <1>0, <1>i, <2>1 DEF IsCurrent
  <2>4. IsCurrent(id)' => IsCurrent(id)
    BY <1>1, <2>1, <2>3 DEF IsCurrent
  <2>5. id.start \in foreign' <=> id.start \in foreign
    BY <1>0, <1>4, <1>i, <2>1 DEF Starts
  <2>6. \A n \in Names : row'[n].pid = row[n].pid \/ row'[n].pid = p
    BY <1>4 DEF Starts
  <2> QED
    BY <1>2, <2>2, <2>3, <2>4, <2>5, <2>6
<1>5. ASSUME NEW pids \in SUBSET Pids, Ends(pids)
      PROVE  /\ id.start \in 1..clock'
             /\ (id.start \in foreign' <=> id.start \in foreign)
             /\ IsCurrent(id)' => /\ IsCurrent(id)
                                  /\ \A n \in Names : row'[n].pid = id.pid => row[n].pid = id.pid
  <2>1. /\ foreign' = foreign /\ clock' = clock
        /\ \A p \in Pids : startOf'[p] = IF p \in pids THEN 0 ELSE startOf[p]
    BY <1>0, <1>5, EndTypes DEF Ends
  <2>2. IsCurrent(id)' => IsCurrent(id)
    BY <1>1, <1>i, <2>1 DEF IsCurrent
  <2> QED
    BY <1>0, <1>1, <1>2, <1>5, <2>1, <2>2 DEF Ends
<1> QED
  BY <1>3, <1>4, <1>5, WorldSteps

(* Nothing captured, and no entry about to be replaced. *)
LEMMA NothingCaptured ==
  ASSUME NEW c \in Calls, captured'[c] = {}, todo'[c] = {}, pc'[c] \notin {"capture", "delete"}
  PROVE  Replacement(c)'
BY DEF Replacement

(* A call that stays where it is, inside the lock, while the world goes on. *)
LEMMA ReplacementKept ==
  ASSUME ExecutorTypes, ClockInv, RowInv, ReplaceInv, [Next]_vars, NEW c \in Calls,
         pc'[c] = pc[c], stack'[c] = stack[c], previous'[c] = previous[c], captured'[c] = captured[c],
         todo'[c] \subseteq todo[c],
         pc[c] \in {"capture", "delete"} =>
           \A n \in Names : /\ row'[n].pid \in {row[n].pid, NoPid}
                            /\ row'[n].status # "absent" => row[n].status # "absent"
  PROVE  Replacement(c)'
<1>1. Replacement(c)
  BY DEF ReplaceInv
<1>2. Entry(c)' = Entry(c)
  BY DEF Entry, Top, Last
<1>3. pc[c] \in {"capture", "delete"} => Entry(c) \in Names
  <2> SUFFICES ASSUME pc[c] \in {"capture", "delete"} PROVE Entry(c) \in Names
    OBVIOUS
  <2>1. stack[c] # <<>> /\ CallTypes
    BY DEF ExecutorTypes, CallTypes, Acting, Guarded
  <2> QED
    BY <2>1, TopType, ExecutorAssumption DEF Entry
<1>4. /\ pc'[c] \notin Replacing => captured'[c] = {}
      /\ todo'[c] \subseteq captured'[c]
  BY <1>1 DEF Replacement
<1>5. pc'[c] \in {"capture", "delete"} /\ row'[Entry(c)'].status # "absent" =>
        \A n \in Names : row'[n].pid = previous'[c] /\ previous'[c] # NoPid => n = Entry(c)'
  BY <1>1, <1>2, <1>3 DEF Replacement
<1>6. \A id \in captured'[c] : id.start \in 1..clock' /\ (id.start \in foreign' => TakenOver(c)')
  BY <1>1, IdentityKept DEF Replacement, TakenOver
<1>7. /\ pc'[c] = "delete" => \A id \in captured'[c] : \A n \in Names :
           IsCurrent(id)' /\ row'[n].pid = id.pid => id.pid = previous'[c]
      /\ pc'[c] \in {"cleanup", "launch", "verify"} => \A id \in captured'[c] : \A n \in Names :
           IsCurrent(id)' => row'[n].pid # id.pid
      /\ pc'[c] \in {"launch", "verify"} => \A id \in captured'[c] : ~IsCurrent(id)'
  BY <1>1, IdentityKept DEF Replacement
<1> QED
  BY <1>4, <1>5, <1>6, <1>7 DEF Replacement

(* Only two steps of a call write what it captured; the others keep it or  *)
(* forget it.                                                              *)
LEMMA CapturedSteps ==
  ASSUME ExecutorTypes, NEW c \in Calls, Request(c) \/ RequestWorkspace(c) \/ CallStep(c), ~Capture(c), ~Signal(c)
  PROVE  \/ Forgotten(c)
         \/ /\ captured'[c] = captured[c] /\ todo'[c] = todo[c]
            /\ pc[c] # "list" => previous'[c] = previous[c]
<1>0. CallTypes /\ LocalTypes
  BY DEF ExecutorTypes
<1> DEFINE Same == /\ captured'[c] = captured[c] /\ todo'[c] = todo[c]
                   /\ pc[c] # "list" => previous'[c] = previous[c]
           Good == Forgotten(c) \/ Same
<1> SUFFICES Good
  OBVIOUS
<1>f. Fail(c) => Good
  BY <1>0, SettleShape DEF Fail, Ended
<1>s. Settle(c, "ok") => Good
  BY <1>0, SettleShape DEF Ended
<1>a. Answer(c) => Good
  BY <1>0, AnswerShape DEF Ended, Returned
<1>t. ThenSave(c) => Good
  BY <1>0, ThenSaveShape DEF ToSave
<1>q. ASSUME NEW step, Quietly(c, step) PROVE Good
  BY <1>q DEF Quietly, replaceVars
<1>r. TryAgain(c) => Good
  BY <1>f DEF TryAgain
<1>l. ASSUME NEW from, NEW to, TakeLock(c, from, to) PROVE Good
  BY <1>f, <1>l DEF TakeLock, replaceVars
<1>k. UNCHANGED <<captured, todo>> /\ (pc[c] = "list" \/ UNCHANGED previous) => Good
  OBVIOUS
<1>v. UNCHANGED replaceVars => Good
  BY <1>k DEF replaceVars
<1> HIDE DEF Good
<1>1. CASE Request(c) \/ RequestWorkspace(c)
  BY <1>1, <1>v DEF Request, RequestWorkspace
<1>2. CASE Preflight(c) \/ Inspect(c) \/ Delete(c) \/ CleanupDone(c) \/ Launch(c) \/ Verify(c) \/ Stop(c)
  BY <1>2, <1>f, <1>t, <1>q, <1>r DEF Preflight, Inspect, Delete, CleanupDone, Launch, Verify, Stop
<1>3. CASE Lock(c) \/ SaveLock(c) \/ ResurrectLock(c)
  BY <1>3, <1>l DEF Lock, SaveLock, ResurrectLock
<1>4. CASE RunCommand(c) \/ List(c) \/ Save(c)
  BY <1>4, <1>f, <1>a, <1>t, <1>k DEF RunCommand, List, Save
<1>5. CASE Resurrect(c) \/ VerifyResurrected(c)
  BY <1>5, <1>f, <1>q, <1>r, <1>v, <1>s DEF Resurrect, RestoreEntries, VerifyResurrected
<1>6. CASE Resolve(c)
  BY <1>6, <1>f, <1>a, <1>q, <1>v DEF Resolve, Enter
<1> QED
  BY <1>1, <1>2, <1>3, <1>4, <1>5, <1>6 DEF CallStep

LEMMA ReplacementOwn ==
  ASSUME ExecutorTypes, LockInv, ClockInv, RowInv, ReplaceInv, [Next]_vars,
         NEW c \in Calls, Request(c) \/ RequestWorkspace(c) \/ CallStep(c)
  PROVE  Replacement(c)'
<1>0. CallTypes /\ LocalTypes /\ HostTypes
  BY DEF ExecutorTypes
<1>1. Replacement(c) /\ Control(c)
  BY Controlled DEF ReplaceInv
<1>r. Replacing = {"delete", "cleanup", "launch", "verify"}
  BY DEF Replacing
<1>2. CASE Forgotten(c) /\ pc'[c] \notin {"capture", "delete"}
  BY <1>2, NothingCaptured DEF Forgotten
<1>3. CASE Ended(c, "failed") \/ Ended(c, "ok") \/ Returned(c) \/ ToSave(c)
  BY <1>2, <1>3 DEF Ended, Returned, ToSave
<1>4. CASE /\ ~(Ended(c, "failed") \/ Ended(c, "ok") \/ Returned(c) \/ ToSave(c))
           /\ pc[c] \notin {"list", "capture", "delete", "cleanup", "launch", "verify"}
  <2>1. pc'[c] \notin {"capture", "delete"}
    BY <1>1, <1>4 DEF Control, Edges, IntoLock
  <2>2. ~Capture(c) /\ ~Signal(c)
    BY <1>4 DEF Capture, Signal
  <2>3. captured[c] = {} /\ todo[c] = {}
    BY <1>1, <1>4, <1>r DEF Replacement
  <2>4. captured'[c] = {} /\ todo'[c] = {}
    BY <2>2, <2>3, CapturedSteps DEF Forgotten
  <2> QED
    BY <2>1, <2>4, NothingCaptured
<1> DEFINE Over == Ended(c, "failed") \/ Ended(c, "ok") \/ Returned(c) \/ ToSave(c)
<1>f. Fail(c) => Over
  BY <1>0, SettleShape DEF Fail
<1>t. ThenSave(c) => Over
  BY <1>0, ThenSaveShape
<1>o. Over => Replacement(c)'
  BY <1>3
<1> HIDE DEF Over
<1>d. CallStep(c) => pc[c] # "idle"
  BY DEF CallStep, Resolve, Preflight, RunCommand, Lock, Inspect, List, Capture, Delete, Signal, CleanupDone, Launch,
         Verify, Stop, SaveLock, Save, ResurrectLock, Resurrect, VerifyResurrected, TakeLock
<1>5. CASE List(c)
  <2>0. pc[c] = "list" /\ captured[c] = {} /\ todo[c] = {} /\ stack[c] # <<>>
    BY <1>0, <1>1, <1>5, <1>r DEF List, Replacement, CallTypes, Acting, Guarded
  <2> DEFINE existing == SelectPm2Row(Top(c).service)
  <2>1. CASE /\ previous' = [previous EXCEPT ![c] = existing.pid]
             /\ Goto(c, IF existing.status = "absent" THEN "launch" ELSE "capture")
             /\ UNCHANGED <<kept, captured, todo, attempt>>
    <3>1. captured'[c] = {} /\ todo'[c] = {}
      BY <2>0, <2>1
    <3>2. CASE pc'[c] = "launch"
      BY <3>1, <3>2, NothingCaptured
    <3>3. CASE pc'[c] # "launch"
      <4>1. pc'[c] = "capture" /\ previous'[c] = existing.pid /\ stack'[c] = stack[c]
        BY <1>0, <2>1, <3>3 DEF Goto, kept, frameVars, CallTypes, LocalTypes
      <4>2. row' = row /\ UNCHANGED treeVars
        BY <1>5 DEF List, pm2Vars
      <4>3. Top(c).service \in Services
        BY <1>0, <2>0, TopType
      <4>4. RuntimeNameOf[Top(c).service] \in Names /\ NameOf[Top(c).service] \in Names
        BY <4>3, ExecutorAssumption
      <4>5. \E n \in Names : existing = row[n] /\ (row[Entry(c)].status # "absent" => n = Entry(c))
        BY <4>4 DEF SelectPm2Row, Entry
      <4> HIDE DEF existing
      <4>7. row[Entry(c)].status # "absent" =>
              \A n \in Names : row[n].pid = existing.pid /\ existing.pid # NoPid => n = Entry(c)
        BY <4>5 DEF RowInv
      <4>8. Entry(c)' = Entry(c)
        BY <4>1 DEF Entry, Top, Last
      <4> QED
        BY <3>1, <4>1, <4>2, <4>7, <4>8, <1>r DEF Replacement
    <3> QED
      BY <3>2, <3>3
  <2> QED
    BY <1>5, <1>f, <1>t, <1>o, <2>1 DEF List
<1>6. CASE Capture(c)
  <2>1. /\ pc[c] = "capture" /\ pc'[c] = "delete" /\ previous'[c] = previous[c] /\ stack'[c] = stack[c]
        /\ captured'[c] = IdentitiesOf(Tree({previous[c]})) /\ todo'[c] = captured'[c]
        /\ row' = row /\ UNCHANGED treeVars
    BY <1>0, <1>6 DEF Capture, Goto, kept, frameVars, pm2Vars, CallTypes, LocalTypes
  <2>2. Entry(c)' = Entry(c)
    BY <2>1 DEF Entry, Top, Last
  <2>3. ASSUME NEW id \in captured'[c]
        PROVE  /\ id.start \in 1..clock /\ (id.start \in foreign => TakenOver(c)')
               /\ \A n \in Names : row[n].pid = id.pid => id.pid = previous[c]
    <3>1. PICK p \in Tree({previous[c]}) : id = [pid |-> p, parent |-> parent[p], start |-> startOf[p]]
      BY <2>1, <2>3 DEF IdentitiesOf
    <3>2. p \in Pids /\ startOf[p] # 0 /\ (p = previous[c] \/ parent[p] \in Pids)
      BY <1>0, TreeMembers
    <3>3. startOf[p] \in Nat /\ clock \in Nat /\ startOf[p] <= clock
      BY <1>0, <3>2 DEF HostTypes, ClockInv
    <3>4. startOf[p] \in foreign => TakenOver(c)'
      <4>1. ASSUME startOf[p] \in foreign PROVE previous[c] \in Tree({previous[c]}) /\ startOf[previous[c]] \in foreign
        BY <1>0, <4>1, StrangersTree
      <4>2. foreign' = foreign
        BY <2>1 DEF treeVars
      <4>3. \A q \in Tree({previous[c]}) :
              [pid |-> q, parent |-> parent[q], start |-> startOf[q]] \in captured'[c]
        BY <2>1 DEF IdentitiesOf
      <4>4. ASSUME startOf[p] \in foreign
            PROVE  \E x \in captured'[c] : x.pid = previous'[c] /\ x.start \in foreign'
        <5>1. [pid |-> previous[c], parent |-> parent[previous[c]], start |-> startOf[previous[c]]] \in captured'[c]
          BY <4>1, <4>3, <4>4
        <5> QED
          BY <2>1, <4>1, <4>2, <4>4, <5>1
      <4> QED
        BY <4>4 DEF TakenOver
    <3>5. \A n \in Names : row[n].pid = p => p = previous[c]
      BY <3>2, TreeAssumption DEF RowInv
    <3> QED
      BY <3>1, <3>2, <3>3, <3>4, <3>5
  <2>4. foreign' = foreign /\ clock' = clock
    BY <2>1 DEF treeVars
  <2>5. \A id \in captured'[c] : id.start \in 1..clock' /\ (id.start \in foreign' => TakenOver(c)')
    BY <2>3, <2>4
  <2>6. row'[Entry(c)'].status # "absent" =>
          \A n \in Names : row'[n].pid = previous'[c] /\ previous'[c] # NoPid => n = Entry(c)'
    BY <1>1, <2>1, <2>2 DEF Replacement
  <2>7. \A id \in captured'[c] : \A n \in Names : row'[n].pid = id.pid => id.pid = previous'[c]
    BY <2>1, <2>3
  <2> QED
    BY <1>r, <2>1, <2>5, <2>6, <2>7 DEF Replacement
<1>k. ASSUME captured'[c] = captured[c], previous'[c] = previous[c], todo'[c] \subseteq todo[c], pc[c] \in Replacing,
             pc'[c] \in {"cleanup", "launch", "verify"},
             \A id \in captured[c] : \A n \in Names : IsCurrent(id)' => row'[n].pid # id.pid,
             pc'[c] \in {"launch", "verify"} => \A id \in captured[c] : ~IsCurrent(id)
      PROVE  Replacement(c)'
  <2>1. \A id \in captured'[c] : id.start \in 1..clock' /\ (id.start \in foreign' => TakenOver(c)')
    BY <1>1, <1>k, IdentityKept DEF Replacement, TakenOver
  <2>2. todo'[c] \subseteq captured'[c]
    BY <1>1, <1>k DEF Replacement
  <2>3. \A id \in captured'[c] : IsCurrent(id)' => IsCurrent(id)
    BY <1>k, IdentityKept
  <2> QED
    BY <1>k, <1>r, <2>1, <2>2, <2>3 DEF Replacement
<1>7. CASE Delete(c)
  <2>0. pc[c] = "delete" /\ stack[c] # <<>>
    BY <1>0, <1>7 DEF Delete, CallTypes, Acting, Guarded
  <2>1. CASE row[Entry(c)].status # "absent" /\ row' = [row EXCEPT ![Entry(c)] = Absent] /\ Quietly(c, "cleanup")
    <3>1. pc'[c] = "cleanup" /\ captured'[c] = captured[c] /\ todo'[c] = todo[c] /\ previous'[c] = previous[c]
      BY <1>0, <2>1, QuietShape DEF Moved
    <3>2. \A n \in Names : row'[n].pid = IF n = Entry(c) THEN NoPid ELSE row[n].pid
      BY <1>0, <2>1 DEF HostTypes, Absent
    <3>3. ASSUME NEW id \in captured[c], NEW n \in Names, IsCurrent(id)', row'[n].pid = id.pid PROVE FALSE
      <4>1. id.pid \in Pids
        BY <1>0 DEF LocalTypes, Identities
      <4>2. n # Entry(c) /\ row[n].pid = id.pid /\ id.pid # NoPid
        BY <3>2, <3>3, <4>1, TreeAssumption
      <4>3. IsCurrent(id)
        BY <3>3, IdentityKept
      <4>4. id.pid = previous[c]
        BY <1>1, <2>0, <4>2, <4>3 DEF Replacement
      <4> QED
        BY <1>1, <2>0, <2>1, <4>2, <4>4 DEF Replacement
    <3> QED
      BY <1>k, <1>r, <2>0, <3>1, <3>3
  <2> QED
    BY <1>7, <1>f, <1>o, <2>1 DEF Delete, Entry
<1>8. ASSUME pc[c] \in {"cleanup", "launch", "verify"}, captured'[c] = captured[c], todo'[c] \subseteq todo[c],
             previous'[c] = previous[c],
             pc'[c] \in {"cleanup", "launch", "verify"},
             pc'[c] \in {"launch", "verify"} /\ pc[c] = "cleanup" => Remaining(captured[c]) = {}
      PROVE  Replacement(c)'
  <2>1. \A id \in captured[c] : \A n \in Names : IsCurrent(id)' => row'[n].pid # id.pid
    BY <1>1, <1>8, IdentityKept DEF Replacement
  <2>2. pc'[c] \in {"launch", "verify"} => \A id \in captured[c] : ~IsCurrent(id)
    BY <1>1, <1>8 DEF Replacement, Remaining
  <2> QED
    BY <1>k, <1>r, <1>8, <2>1, <2>2
<1>9. CASE Signal(c)
  <2>1. pc[c] = "cleanup" /\ pc' = pc /\ captured' = captured /\ previous' = previous /\ \E id \in Deepest(todo[c]) : todo' = [todo EXCEPT ![c] = @ \ {id}]
    BY <1>9 DEF Signal
  <2>2. todo'[c] \subseteq todo[c]
    BY <1>0, <2>1 DEF LocalTypes
  <2> QED
    BY <1>8, <2>1, <2>2
<1>10. CASE CleanupDone(c)
  <2>1. CASE Remaining(captured[c]) = {} /\ Quietly(c, "launch")
    <3>1. /\ pc'[c] = "launch" /\ captured'[c] = captured[c] /\ todo'[c] = todo[c] /\ pc[c] = "cleanup"
          /\ previous'[c] = previous[c]
      BY <1>0, <1>10, <2>1, QuietShape DEF Moved, CleanupDone
    <3> QED
      BY <1>8, <2>1, <3>1
  <2> QED
    BY <1>10, <1>f, <1>o, <2>1 DEF CleanupDone
<1>11. CASE Launch(c)
  <2>1. CASE Quietly(c, "verify")
    <3>1. /\ pc'[c] = "verify" /\ captured'[c] = captured[c] /\ todo'[c] = todo[c] /\ pc[c] = "launch"
          /\ previous'[c] = previous[c]
      BY <1>0, <1>11, <2>1, QuietShape DEF Moved, Launch
    <3> QED
      BY <1>8, <3>1
  <2> QED
    BY <1>11, <1>f, <1>o, <2>1 DEF Launch
<1>12. CASE Verify(c)
  <2>0. pc[c] = "verify"
    BY <1>12 DEF Verify
  <2>1. CASE TryAgain(c)
    <3>1. Fail(c) \/ (pc' = pc /\ captured' = captured /\ todo' = todo /\ previous' = previous)
      BY <2>1 DEF TryAgain
    <3> QED
      BY <1>8, <1>f, <1>o, <2>0, <3>1
  <2> QED
    BY <1>12, <1>f, <1>t, <1>o, <2>1 DEF Verify
<1>13. CASE Request(c) \/ RequestWorkspace(c) \/ (CallStep(c) /\ pc[c] \notin {"list", "capture", "delete", "cleanup", "launch", "verify"})
  <2>1. pc[c] \notin {"list", "capture", "delete", "cleanup", "launch", "verify"}
    BY <1>13 DEF Request, RequestWorkspace
  <2> QED
    BY <1>3, <1>4, <2>1
<1>14. CASE CallStep(c) /\ pc[c] \in {"list", "capture", "delete", "cleanup", "launch", "verify"}
  BY <1>14, <1>5, <1>6, <1>7, <1>9, <1>10, <1>11, <1>12 DEF CallStep, Resolve, Preflight, RunCommand, Lock, Inspect,
     Stop, SaveLock, Save, ResurrectLock, Resurrect, VerifyResurrected, TakeLock
<1> QED
  BY <1>13, <1>14

LEMMA ReplaceStep ==
  ASSUME ExecutorTypes, LockInv, EntryInv, ClockInv, RowInv, ReplaceInv, [Next]_vars
  PROVE  ReplaceInv'
<1>0. CallTypes /\ LocalTypes /\ HostTypes
  BY DEF ExecutorTypes
<1>g. Replacing \cup {"capture"} \subseteq Guarded
  BY DEF Replacing, Guarded
<1>o. ASSUME NEW c \in Calls, pc[c] \notin Guarded PROVE captured[c] = {} /\ todo[c] = {}
  BY <1>g, <1>o DEF ReplaceInv, Replacement
<1>i. ASSUME NEW c \in Calls, pc[c] \notin Guarded, pc'[c] = pc[c], captured'[c] = captured[c], todo'[c] = todo[c]
      PROVE  Replacement(c)'
  <2>1. pc'[c] \notin {"capture", "delete"}
    BY <1>g, <1>i DEF Replacing
  <2> QED
    BY <1>i, <1>o, <2>1, NothingCaptured
<1>1. ASSUME NEW c \in Calls, Request(c) \/ RequestWorkspace(c) \/ CallStep(c), NEW d \in Calls, d # c
      PROVE  Replacement(d)'
  <2>0. Others(c)
    BY <1>1, Controlled
  <2>1. /\ pc'[d] = pc[d] /\ stack'[d] = stack[d] /\ previous'[d] = previous[d]
        /\ captured'[d] = captured[d] /\ todo'[d] = todo[d]
    BY <1>1, <2>0 DEF Others
  <2>2. CASE pc[d] \in Guarded
    <3>1. pc[c] \notin Guarded
      BY <1>1, <2>2 DEF LockInv, HoldsLock
    <3>2. UNCHANGED <<treeVars, row>>
      BY <1>1, <3>1 DEF Request, RequestWorkspace, CallStep, Resolve, Preflight, RunCommand, Lock, Inspect, List, Capture,
         Delete, Signal, CleanupDone, Launch, Verify, Stop, SaveLock, Save, ResurrectLock, Resurrect, VerifyResurrected,
         TakeLock, pm2Vars, Guarded
    <3>3. foreign' = foreign /\ row' = row
      BY <3>2 DEF treeVars
    <3>5. \A n \in Names : /\ row'[n].pid \in {row[n].pid, NoPid}
                           /\ row'[n].status # "absent" => row[n].status # "absent"
      BY <3>3
    <3> QED
      BY <2>1, <3>5, ReplacementKept
  <2> QED
    BY <1>i, <2>1, <2>2
<1>2. ASSUME UNCHANGED <<pc, stack, previous, captured, todo>>,
             \A n \in Names : /\ row'[n].pid \in {row[n].pid, NoPid}
                              /\ row'[n].status # "absent" => row[n].status # "absent",
             NEW c \in Calls
      PROVE  Replacement(c)'
  BY <1>2, ReplacementKept
<1>3. CASE Fork \/ ForeignStarts \/ UNCHANGED vars
  <2>1. UNCHANGED <<pc, stack, previous, captured, todo, row>>
    BY <1>3 DEF Fork, ForeignStarts, vars, outside, kept, frameVars, replaceVars, treeVars, pm2Vars
  <2> QED
    BY <1>2, <2>1 DEF ReplaceInv
<1>5. CASE ProcessEnds
  <2>1. UNCHANGED <<pc, stack, previous, captured, todo>>
    BY <1>5 DEF ProcessEnds, outside, kept, frameVars, replaceVars
  <2>2. PICK p \in Pids : /\ EndOf({p})
                          /\ row' = [n \in Names |-> IF row[n].pid = p
                                  THEN [status |-> "errored", pid |-> NoPid] ELSE row[n]]
    BY <1>5 DEF ProcessEnds
  <2>4. \A n \in Names : /\ row'[n].pid \in {row[n].pid, NoPid}
                         /\ row'[n].status # "absent" => row[n].status # "absent"
    BY <2>2, TreeAssumption DEF EntryInv
  <2> QED
    BY <1>2, <2>1, <2>4 DEF ReplaceInv
<1>6. CASE DaemonEnds
  <2>1. UNCHANGED <<pc, captured, todo>> /\ lock = Nobody
    BY <1>6 DEF DaemonEnds, outside, kept, replaceVars
  <2>2. \A c \in Calls : pc[c] \notin Guarded
    BY <2>1, ExecutorAssumption DEF LockInv, HoldsLock
  <2> QED
    BY <1>i, <2>1, <2>2 DEF ReplaceInv
<1>7. ASSUME NEW c \in Calls, Request(c) \/ RequestWorkspace(c) \/ CallStep(c) PROVE ReplaceInv'
  BY <1>1, <1>7, ReplacementOwn DEF ReplaceInv
<1> QED
  BY <1>3, <1>5, <1>6, <1>7 DEF Next

-----------------------------------------------------------------------------
ExecutorInv ==
  ExecutorTypes /\ LockInv /\ EntryInv /\ SavedInv /\ OrderInv /\ ClockInv /\ RowInv /\ ReplaceInv

LEMMA InitTables ==
  ASSUME Init
  PROVE  /\ saved \subseteq Names
         /\ row \in [Names -> [status : Statuses, pid : Pids \cup {NoPid}]]
         /\ startOf \in [Pids -> Nat]
         /\ \A n \in Names : row[n] = Absent \/ (daemon /\ n \in saved /\ row[n] = [status |-> "online", pid |-> FirstPid[n]])
         /\ \A n \in saved : daemon => row[n] = [status |-> "online", pid |-> FirstPid[n]] /\ startOf[FirstPid[n]] = 1
         /\ \A p \in Pids : startOf[p] <= 1
<1> DEFINE up == IF daemon THEN saved ELSE {}
<1>1. /\ saved \in SUBSET {RuntimeNameOf[s] : s \in Pm2Services} /\ daemon \in BOOLEAN
      /\ row = [n \in Names |-> IF n \in up THEN [status |-> "online", pid |-> FirstPid[n]] ELSE Absent]
      /\ startOf = [p \in Pids |-> IF \E n \in up : FirstPid[n] = p THEN 1 ELSE 0]
  BY DEF Init
<1>2. saved \subseteq Names
  BY <1>1, ExecutorAssumption
<1>3. up \subseteq saved /\ (daemon => up = saved) /\ \A n \in up : daemon
  OBVIOUS
<1> HIDE DEF up
<1>4. \A n \in Names : FirstPid[n] \in Pids
  BY ExecutorAssumption
<1>5. row \in [Names -> [status : Statuses, pid : Pids \cup {NoPid}]]
  BY <1>1, <1>4 DEF Statuses, Absent
<1>6. startOf \in [Pids -> Nat] /\ \A p \in Pids : startOf[p] <= 1
  BY <1>1
<1>7. \A n \in up : startOf[FirstPid[n]] = 1
  BY <1>1, <1>2, <1>3, <1>4
<1> QED
  BY <1>1, <1>2, <1>3, <1>5, <1>6, <1>7

LEMMA ExecutorInit == Init => ExecutorInv
<1> SUFFICES ASSUME Init PROVE ExecutorInv
  OBVIOUS
<1>1. /\ depends \in Graphs /\ daemon \in BOOLEAN
      /\ parent = [p \in Pids |-> NoPid] /\ foreign = {} /\ clock = 1 /\ lock = Nobody
      /\ pc = [c \in Calls |-> "idle"] /\ stack = [c \in Calls |-> <<>>] /\ completed = [c \in Calls |-> {}]
      /\ previous = [c \in Calls |-> NoPid] /\ captured = [c \in Calls |-> {}] /\ todo = [c \in Calls |-> {}]
      /\ attempt = [c \in Calls |-> 0] /\ result = [c \in Calls |-> "none"]
  BY DEF Init
<1>2. "idle" \in Steps /\ "idle" \notin Acting /\ "idle" \notin Guarded
  BY DEF Steps, Acting, Guarded
<1>3. depends \in [Services -> Seq(Services)]
  BY <1>1, ExecutorAssumption
<1>4. CallTypes
  BY <1>1, <1>2, <1>3 DEF CallTypes
<1>5. LocalTypes
  BY <1>1 DEF LocalTypes
<1>6. HostTypes
  BY <1>1, InitTables DEF HostTypes
<1>7. LockInv
  <2>1. ~daemon => \A n \in Names : row[n] = Absent
    BY InitTables
  <2> QED
    BY <1>1, <1>2, <2>1 DEF LockInv, HoldsLock, NeedsDaemon
<1>8. EntryInv
  BY InitTables DEF EntryInv, Absent
<1>9. SavedInv
  <2>1. Registered \subseteq saved
    BY InitTables DEF Registered, Absent
  <2>2. Registered # {} => saved \subseteq Registered
    <3>1. Registered # {} => daemon
      BY InitTables DEF Registered, Absent
    <3>2. ASSUME NEW n \in saved, daemon PROVE n \in Names /\ row[n].status # "absent"
      <4>1. n \in Names /\ row[n] = [status |-> "online", pid |-> FirstPid[n]]
        BY <3>2, InitTables
      <4> QED
        BY <4>1
    <3> QED
      BY <3>1, <3>2 DEF Registered
  <2> QED
    BY <2>1, <2>2 DEF SavedInv
<1>10. OrderInv
  <2> SUFFICES ASSUME NEW c \in Calls PROVE Ordered(c)
    BY DEF OrderInv
  <2>1. stack[c] = <<>> /\ completed[c] = {} /\ pc[c] = "idle"
    BY <1>1
  <2>2. Path(<<>>, {}) /\ Closed({})
    BY DEF Path, Closed
  <2> QED
    BY <1>2, <2>1, <2>2 DEF Ordered
<1>11. ClockInv
  BY <1>1, InitTables DEF ClockInv
<1>12. RowInv
  <2>1. \A n \in Names : row[n].pid # NoPid =>
          row[n].pid = FirstPid[n] /\ startOf[FirstPid[n]] = 1 /\ FirstPid[n] \in Pids
    BY InitTables, ExecutorAssumption DEF Absent
  <2>2. \A n \in Names : row[n].pid # NoPid => startOf[row[n].pid] # 0 /\ parent[row[n].pid] = NoPid
    BY <1>1, <2>1
  <2>3. \A m, n \in Names : row[m].pid = row[n].pid /\ row[m].pid # NoPid => m = n
    BY <2>1, ExecutorAssumption
  <2> QED
    BY <1>1, <2>2, <2>3 DEF RowInv
<1>13. ReplaceInv
  BY <1>1 DEF ReplaceInv, Replacement, Replacing
<1> QED
  BY <1>4, <1>5, <1>6, <1>7, <1>8, <1>9, <1>10, <1>11, <1>12, <1>13 DEF ExecutorInv, ExecutorTypes

LEMMA ExecutorStep == ExecutorInv /\ [Next]_vars => ExecutorInv'
BY ExecutorTypesStep, LockStep, EntryStep, SavedStep, OrderStep, ClockStep, RowStep, ReplaceStep DEF ExecutorInv

(* Whatever the requests and the dependencies declared, a service that is  *)
(* to start acts only when all it needs was started by the same request    *)
(* (executeResolved).                                                      *)
THEOREM DependenciesComeFirst == Spec => []DependenciesFirst
<1>1. ExecutorInv => DependenciesFirst
  BY OrderedDependencies DEF ExecutorInv
<1> QED
  BY <1>1, ExecutorInit, ExecutorStep, PTL DEF Spec

(* However processes fork, end and reuse pids, a replacement is launched   *)
(* only when what was captured of the old entry is gone.                   *)
THEOREM ReplacedTreeIsGone == Spec => []ObsoleteTreeGone
<1>1. ExecutorInv => ObsoleteTreeGone
  BY DEF ExecutorInv, ReplaceInv, Replacement, ObsoleteTreeGone, Remaining
<1> QED
  BY <1>1, ExecutorInit, ExecutorStep, PTL DEF Spec

(* However the requests interleave, once all have answered ok the dump     *)
(* file lists what PM2 has registered.                                     *)
THEOREM ListIsSaved == Spec => []SavedListCurrent
<1>1. ExecutorInv => SavedListCurrent
  <2> SUFFICES ASSUME ExecutorInv, \A c \in Calls : pc[c] = "idle" \/ result[c] = "ok", Registered # {}
               PROVE  saved = Registered
    BY DEF SavedListCurrent
  <2>1. \A c \in Calls : pc[c] \in {"idle", "done"} /\ result[c] # "failed"
    BY DEF ExecutorInv, LockInv
  <2>2. \A c \in Calls : ~Unsaved(c) /\ pc[c] # "resurrect"
    BY <2>1 DEF Unsaved
  <2> QED
    BY <2>2 DEF ExecutorInv, SavedInv
<1> QED
  BY <1>1, ExecutorInit, ExecutorStep, PTL DEF Spec

LEMMA SignalsSpare ==
  ASSUME ExecutorInv, Next, NEW c \in Calls, todo'[c] # todo[c], ~TakenOver(c),
         NEW p \in Pids, Foreign(p)
  PROVE  startOf'[p] = startOf[p]
<1>0. CallTypes /\ LocalTypes /\ HostTypes /\ startOf[p] # 0 /\ Replacement(c)
  BY DEF ExecutorInv, ExecutorTypes, HostTypes, ClockInv, ReplaceInv, Foreign
<1>1. Request(c) \/ RequestWorkspace(c) \/ CallStep(c)
  <2>1. ~Fork /\ ~ForeignStarts /\ ~ProcessEnds /\ ~DaemonEnds
    BY DEF Fork, ForeignStarts, ProcessEnds, DaemonEnds, outside, replaceVars
  <2>2. PICK e \in Calls : Request(e) \/ RequestWorkspace(e) \/ CallStep(e)
    BY <2>1 DEF Next
  <2>3. Others(e)
    BY <2>2, Controlled DEF ExecutorInv
  <2> QED
    BY <2>2, <2>3 DEF Others
<1>2. ASSUME NEW q \in Pids, Start(q, NoPid) PROVE startOf'[p] = startOf[p]
  BY <1>0, <1>2 DEF Start, HostTypes
<1>3. CASE Signal(c)
  <2>1. CASE UNCHANGED treeVars
    BY <2>1 DEF treeVars
  <2>2. ASSUME NEW id \in todo[c], IsCurrent(id), EndOf({id.pid}) PROVE startOf'[p] = startOf[p]
    <3>1. id.pid # p
      BY <1>0, <2>2 DEF Replacement, IsCurrent, Foreign
    <3> QED
      BY <1>0, <2>2, <3>1 DEF EndOf
  <2> QED
    BY <1>3, <2>1, <2>2 DEF Signal, Deepest
<1>4. CASE Delete(c)
  <2>1. ~Quietly(c, "cleanup")
    BY DEF Quietly, replaceVars
  <2> QED
    BY <1>4, <2>1 DEF Delete, treeVars
<1>5. CASE Stop(c)
  <2>1. todo[c] = {}
    BY <1>0, <1>5 DEF Stop, Replacement, Replacing
  <2>2. ~ThenSave(c)
    BY <1>0, <2>1, ThenSaveShape DEF ToSave, Forgotten
  <2> QED
    BY <1>5, <2>2 DEF Stop, treeVars
<1>6. CASE Launch(c) \/ Resurrect(c)
  BY <1>2, <1>6 DEF Launch, Resurrect, RestoreEntries
<1>7. CASE ~Signal(c) /\ ~Delete(c) /\ ~Stop(c) /\ ~Launch(c) /\ ~Resurrect(c)
  BY <1>1, <1>7 DEF Request, RequestWorkspace, CallStep, Resolve, Preflight, RunCommand, Lock, Inspect, List, Capture,
     CleanupDone, Verify, SaveLock, Save, ResurrectLock, VerifyResurrected, TakeLock, treeVars
<1> QED
  BY <1>3, <1>4, <1>5, <1>6, <1>7

(* Whatever pids are reused and whoever forks, stopping an obsolete tree   *)
(* ends nobody else's process (stopObsoletePm2ProcessTree), but where the  *)
(* pid that PM2 listed was somebody else's by the time of the capture.     *)
THEOREM OthersAreSpared == Spec => ForeignSpared
<1> DEFINE Spared == \A c \in Calls : todo'[c] # todo[c] /\ ~TakenOver(c) =>
                       \A p \in Pids : Foreign(p) => startOf'[p] = startOf[p]
<1>1. ExecutorInv /\ [Next]_vars => [Spared]_vars
  BY SignalsSpare
<1> QED
  BY <1>1, ExecutorInit, ExecutorStep, PTL DEF Spec, ForeignSpared

-----------------------------------------------------------------------------
(* Only a step that inspects the workspace or resurrects its list launches *)
(* the daemon; it keeps the lock.                                          *)
LEMMA Launching ==
  ASSUME ExecutorInv, NEW c \in Calls, Request(c) \/ RequestWorkspace(c) \/ CallStep(c), daemon' # daemon
  PROVE  ~daemon /\ daemon' = TRUE /\ lock = c /\ lock' = lock
<1>1. Inspect(c) \/ Resurrect(c)
  BY DEF CallStep, Request, RequestWorkspace, Resolve, Preflight, RunCommand, Lock, List, Capture, Delete, Signal,
         CleanupDone, Launch, Verify, Stop, SaveLock, Save, ResurrectLock, VerifyResurrected, TakeLock, pm2Vars
<1>2. daemon \in BOOLEAN /\ lock = c
  BY <1>1 DEF ExecutorInv, ExecutorTypes, HostTypes, LockInv, HoldsLock, Guarded, Inspect, Resurrect
<1>3. daemon' = TRUE /\ lock' = lock
  BY <1>1 DEF Inspect, Resurrect, Quietly, kept
<1> QED
  BY <1>2, <1>3

(* A call takes a free lock, gives back the one it holds, or leaves it.    *)
LEMMA LockChanges ==
  ASSUME ExecutorInv, NEW c \in Calls, Request(c) \/ RequestWorkspace(c) \/ CallStep(c)
  PROVE  lock' = lock \/ (lock = Nobody /\ lock' = c) \/ (lock = c /\ lock' = Nobody)
<1>1. Control(c)
  BY Controlled DEF ExecutorInv
<1>2. ToSave(c) /\ pc[c] \in {"inspect", "list", "verify", "stop"} => lock = c /\ lock' = Nobody
  BY DEF ToSave, ExecutorInv, LockInv, HoldsLock, Guarded
<1> QED
  BY <1>1, <1>2 DEF Control, Ended, Returned

(* The executor's calls keep what withPm2WorkspaceLock promises: one is    *)
(* inside at a time, and the daemon is launched by the call inside, only   *)
(* when none runs (executePm2, executePm2WorkspaceAction).                 *)
THEOREM TasksKeepTheGuard == Spec => TasksKeepGuard
<1> USE DEF TaskGuard!GuardNext, TaskGuard!Enter, TaskGuard!Leave, TaskGuard!Launch,
            TaskGuard!DaemonExit, TaskGuard!guardVars
<1>1. Init => TaskGuard!GuardInit
  BY DEF Init, TaskGuard!GuardInit
<1>2. ASSUME ExecutorInv, [Next]_vars
      PROVE  [TaskGuard!GuardNext]_(TaskGuard!guardVars)
  <2>1. ASSUME NEW c \in Calls, Request(c) \/ RequestWorkspace(c) \/ CallStep(c)
        PROVE  [TaskGuard!GuardNext]_(TaskGuard!guardVars)
    <3>1. CASE daemon' = daemon
      BY <1>2, <2>1, <3>1, LockChanges
    <3>2. CASE daemon' # daemon
      BY <1>2, <2>1, <3>2, Launching
    <3> QED
      BY <3>1, <3>2
  <2>2. CASE DaemonEnds
    BY <2>2 DEF DaemonEnds, outside, kept
  <2>3. CASE Fork \/ ForeignStarts \/ ProcessEnds \/ UNCHANGED vars
    <3>1. UNCHANGED <<daemon, lock>>
      BY <2>3 DEF Fork, ForeignStarts, ProcessEnds, vars, outside, kept, pm2Vars
    <3> QED
      BY <3>1
  <2> QED
    BY <1>2, <2>1, <2>2, <2>3 DEF Next
<1> QED
  BY <1>1, <1>2, ExecutorInit, ExecutorStep, PTL DEF Spec, TasksKeepGuard, TaskGuard!GuardSpec
=============================================================================
