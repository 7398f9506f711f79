----------------------------- MODULE MCRequests -----------------------------
(***************************************************************************)
(* Requests that act on the host, checked side by side: tasks, stopping a  *)
(* process, writing configuration files, applying access profiles.  The    *)
(* initial state picks the part that runs; they share no state.            *)
(***************************************************************************)
EXTENDS TaskExecutor, SafeStop, ConfigFiles, AccessProfiles

CONSTANTS s1, s2, s3, n1, n2, p1, p2, p3, c1, c2

(* s1 is displayed under the name that s2's entry has; s3 is not PM2's. *)
DisplayName == (s1 :> n2) @@ (s2 :> n2) @@ (s3 :> n1)
EntryName == (s1 :> n1) @@ (s2 :> n2) @@ (s3 :> n1)
FirstPidOf == (n1 :> p1) @@ (n2 :> p2)

(* s3 is needed twice; s1 and s2 need each other. *)
Shared == (s1 :> <<s2, s3>>) @@ (s2 :> <<s3>>) @@ (s3 :> <<>>)
Cyclic == (s1 :> <<s2>>) @@ (s2 :> <<s1>>) @@ (s3 :> <<s2>>)
Declarations == {Shared, Cyclic}

On(actions, services) == [action : actions, service : services]
TasksOf ==
  (c1 :> On({"start", "restart"}, {s1})) @@ (c2 :> On({"restart", "stop"}, {s2}))
ListsOf == (c1 :> {"resurrect"}) @@ (c2 :> {"save"})

VARIABLE part

PartNames == {"tasks", "stop", "config", "access"}

partVars == <<part, vars, stopVars, configVars, accessVars>>

(* Keys and the values that survive quoting are interchangeable. *)
OneExported ==
  [NoEnv EXCEPT ![CHOOSE k \in EnvKeys : TRUE] = CHOOSE v \in Values \ Escaped : TRUE]

(* A part that does not run has one initial state. *)
MCInit ==
  /\ part \in PartNames
  /\ Init
  /\ part # "tasks" => depends = Shared /\ saved = {} /\ ~daemon
  /\ StopInit
  /\ part # "stop" => \A p \in ProcessIds : process[p].program = CHOOSE x \in Programs : TRUE
  /\ ConfigInit /\ exported \in {NoEnv, OneExported}
  /\ part # "config" => exported = NoEnv /\ overrides
  /\ AccessInit
  /\ part # "access" => ~caddyUp

MCNext ==
  /\ UNCHANGED part
  /\ \/ part = "tasks" /\ Next /\ UNCHANGED <<stopVars, configVars, accessVars>>
     \/ part = "stop" /\ StopNext /\ UNCHANGED <<vars, configVars, accessVars>>
     \/ part = "config" /\ ConfigNext /\ UNCHANGED <<vars, stopVars, accessVars>>
     \/ part = "access" /\ AccessNext /\ UNCHANGED <<vars, stopVars, configVars>>

MCSpec == MCInit /\ [][MCNext]_partVars
=============================================================================
