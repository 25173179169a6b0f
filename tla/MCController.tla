----------------------------- MODULE MCController -----------------------------
(* Three agents, of which the second gets no job; another controller may    *)
(* occupy an agent under a second run identifier.                           *)
EXTENDS Controller, TLC

CONSTANTS a1, a2, a3, r1, r2

Job(id, asset, protocol, mode) ==
    [id |-> id, asset |-> asset, account |-> asset, protocol |-> protocol,
     mode |-> mode, bound |-> TRUE]

MCAgentSeq == <<a1, a2, a3>>

MCAssignment == (a1 :> <<Job(1, "x", "ssh", "direct")>>) @@ (a2 :> <<>>)
                    @@ (a3 :> <<Job(2, "y", "rdp", "browser")>>)

MCCapabilities ==
    [a \in Agents |-> [capacity |-> 1, direct |-> 1, browser |-> 1,
                       protocols |-> DirectModes]]

MCForeignRequests ==
    {[runID |-> r2, policyOK |-> TRUE, jobs |-> <<Job(3, "z", "ssh", "direct")>>]}

MCRequests == {Request(a) : a \in Agents} \cup MCForeignRequests
=============================================================================
