--------------------------- MODULE MCAgentRegistry ---------------------------
(* Two run identifiers on one agent (a second agent shares nothing with it) *)
(* and requests on both sides of every refusal.                             *)
EXTENDS AgentRegistry

CONSTANTS a1, r1, r2

Job(id, asset, protocol, mode) ==
    [id |-> id, asset |-> asset, account |-> asset, protocol |-> protocol,
     mode |-> mode, bound |-> TRUE]

Ssh == Job(1, "x", "ssh", "direct")
Rdp == Job(2, "y", "rdp", "browser")
Vnc == Job(3, "y", "vnc", "browser")
Web == Job(4, "z", "web", "browser")

MCCapabilities ==
    [a \in Agents |-> [capacity |-> 2, direct |-> 1, browser |-> 1,
                       protocols |-> {"ssh", "rdp"}]]

Bodies == {<<Ssh>>, <<Ssh, Rdp>>, <<Rdp, Vnc>>, <<Rdp, Web>>, <<Ssh, Rdp, Web>>,
           <<[Rdp EXCEPT !.mode = "direct"]>>, <<[Web EXCEPT !.mode = "direct"]>>,
           <<>>, <<[Ssh EXCEPT !.bound = FALSE]>>}

MCRequests ==
    [runID: RunIDs, policyOK: {TRUE}, jobs: Bodies]
        \cup [runID: {NoRun}, policyOK: {TRUE}, jobs: {<<Ssh>>}]
        \cup [runID: RunIDs, policyOK: {FALSE}, jobs: {<<Ssh>>}]
=============================================================================
