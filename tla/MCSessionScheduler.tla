-------------------------- MODULE MCSessionScheduler --------------------------
(* An SSH job and a graphical one; one retry; a policy that stops at the    *)
(* second attempt if more than half of the attempts failed.                 *)
EXTENDS SessionScheduler

CONSTANTS ssh, rdp

MCPlan == <<ssh, rdp>>
=============================================================================
