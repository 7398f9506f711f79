--------------------------- MODULE MCPm2Workspace ---------------------------
EXTENDS Pm2Workspace, TLC

CONSTANTS c1, c2, c3, p1, p2

(* A dashboard with two calls in flight that may launch the daemon, and a  *)
(* CLI command that may not (status, logs).                                *)
ProcOfCall == (c1 :> p1) @@ (c2 :> p2) @@ (c3 :> p1)

InterchangeableCalls == Permutations({c1, c3})
=============================================================================
