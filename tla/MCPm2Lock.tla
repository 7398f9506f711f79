------------------------------ MODULE MCPm2Lock ------------------------------
(* Three calls, each in a process of its own. *)
EXTENDS Pm2WorkspaceLock, TLC

CONSTANTS c1, c2, c3, p1, p2, p3

ProcOfCall == (c1 :> p1) @@ (c2 :> p2) @@ (c3 :> p3)
=====
