--------------------------- MODULE MCControlPlane ---------------------------
(***************************************************************************)
(* The parts of the control plane that share no state, checked side by     *)
(* side: the initial state picks the part that runs, so their state spaces *)
(* add up instead of multiplying.                                          *)
(***************************************************************************)
EXTENDS WorkspaceState, PortReservations, RuntimeDescriptor, LiveLogs, ObservabilityInstall,
        IdentityInstall, TLC

VARIABLE part

PartNames == {"state", "ports", "descriptor", "logs", "observability", "identity"}

serverVars == <<stateVars, portVars, descriptorVars, logVars>>
installVars == <<obsVars, identityVars>>
allVars == <<part, serverVars, installVars>>

(* A part that does not run has one initial state. *)
Init ==
  /\ part \in PartNames
  /\ StateInit /\ PortInit /\ DescriptorInit /\ LogInit
  /\ part # "state" => \A u, v \in Updates : of[u] = of[v]
  /\ ObservabilityInit
  /\ part # "observability" =>
       collector.by = "none" /\ ~backend.declared /\ ~capability.selected /\ ~capability.live
  /\ IdentityInit
  /\ part # "identity" => pocket = Absent /\ envKey = 0 /\ appUrl = "none" /\ edgeUrl = "none"

ServerNext ==
  \/ part = "state" /\ StateNext /\ UNCHANGED <<portVars, descriptorVars, logVars>>
  \/ part = "ports" /\ PortNext /\ UNCHANGED <<stateVars, descriptorVars, logVars>>
  \/ part = "descriptor" /\ DescriptorNext /\ UNCHANGED <<stateVars, portVars, logVars>>
  \/ part = "logs" /\ LogNext /\ UNCHANGED <<stateVars, portVars, descriptorVars>>

InstallNext ==
  \/ part = "observability" /\ ObservabilityNext /\ UNCHANGED identityVars
  \/ part = "identity" /\ IdentityNext /\ UNCHANGED obsVars

Next ==
  /\ UNCHANGED part
  /\ \/ ServerNext /\ UNCHANGED installVars
     \/ InstallNext /\ UNCHANGED serverVars

Spec == Init /\ [][Next]_allVars
=============================================================================
