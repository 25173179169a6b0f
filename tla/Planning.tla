------------------------------ MODULE Planning ------------------------------
(***************************************************************************)
(* What a distributed run does before it calls an agent: the configuration *)
(* is expanded to jobs (config.Expand), every job gets an asset and an     *)
(* account of its own from the manifest (allocation.Bind), and the jobs    *)
(* are dealt to the agents (distributed.Partition).                        *)
(***************************************************************************)
EXTENDS Naturals, Integers, FiniteSets, SequencesExt

CONSTANT PlanInputs     \* configuration, manifest, agents, and the shuffle of the manifest

VARIABLE plan

protocolOrder == <<"ssh", "rdp", "vnc", "web", "mysql">>

Protocols == ToSet(protocolOrder)

Modes == {"direct", "browser"}

(* Counts are whole numbers, of protocols known or not; the shuffle has    *)
(* every place of the manifest once.                                       *)
ASSUME InputAssumption ==
    \A input \in PlanInputs :
        /\ input.config.total \in Int
        /\ \A p \in DOMAIN input.config.protocols : input.config.protocols[p] \in Int
        /\ \A p \in DOMAIN input.config.modes : input.config.modes[p] \in [Modes -> Int]
        /\ Len(input.agents) \in Nat /\ DOMAIN input.agents = 1..Len(input.agents)
        /\ \A k \in DOMAIN input.agents : input.agents[k] \in
              [Capacity: Nat, DirectCapacity: Nat, BrowserCapacity: Nat, DirectProtocols: SUBSET Protocols]
        /\ Len(input.manifest) \in Nat /\ DOMAIN input.manifest = 1..Len(input.manifest)
        /\ input.order \in [DOMAIN input.manifest -> DOMAIN input.manifest]
        /\ \A i, j \in DOMAIN input.order : input.order[i] = input.order[j] => i = j

Asked(c, p) == IF p \in DOMAIN c.protocols THEN c.protocols[p] ELSE 0

-----------------------------------------------------------------------------
(* config.Expand *)

(* The modes that are given, or the mode a protocol is used in.            *)
ModesOf(c, p) ==
    IF p \in DOMAIN c.modes THEN c.modes[p]
       ELSE IF p \in {"ssh", "mysql"}
               THEN [direct |-> Asked(c, p), browser |-> 0]
               ELSE [direct |-> 0, browser |-> Asked(c, p)]

(* upTo[k]: the jobs of the first k protocols.                             *)
UpTo(c) ==
    LET upTo[k \in 0..Len(protocolOrder)] ==
            IF k = 0 THEN 0 ELSE upTo[k - 1] + Asked(c, protocolOrder[k])
    IN upTo

ConfigIsValid(c) ==
    /\ c.total > 0
    /\ DOMAIN c.protocols \subseteq Protocols
    /\ \A p \in DOMAIN c.protocols : c.protocols[p] >= 0
    /\ UpTo(c)[Len(protocolOrder)] = c.total
    /\ \A p \in DOMAIN c.modes : Asked(c, p) > 0 =>
          /\ c.modes[p].direct >= 0 /\ c.modes[p].browser >= 0
          /\ c.modes[p].direct + c.modes[p].browser = Asked(c, p)

(* The job IDs are the places in the sequence. Protocols in their order,   *)
(* those in the browser first.                                             *)
Expanded(c) ==
    [n \in 1..c.total |->
        LET k == CHOOSE k \in DOMAIN protocolOrder : UpTo(c)[k - 1] < n /\ n <= UpTo(c)[k]
            p == protocolOrder[k]
        IN [protocol |-> p, asset |-> 0,
            mode |-> IF n <= UpTo(c)[k - 1] + ModesOf(c, p).browser THEN "browser" ELSE "direct"]]

-----------------------------------------------------------------------------
(* allocation.Bind *)

Unique(seq, field) == \A i, j \in DOMAIN seq : seq[i][field] = seq[j][field] => i = j

Normal(asset) == IF asset.protocol = "database" THEN [asset EXCEPT !.protocol = "mysql"] ELSE asset

(* An empty name, address or ID is 0.                                      *)
ValidateManifest(m) ==
    /\ m # <<>>
    /\ \A a \in ToSet(m) : Normal(a).protocol \in Protocols /\ 0 \notin {a.name, a.ip, a.id, a.account}
    /\ Unique(m, "name") /\ Unique(m, "ip")
    /\ Unique(m, "id") /\ Unique(m, "account")

(* The places of a protocol in the shuffled manifest.                      *)
Pool(m, order, protocol) == {i \in DOMAIN order : Normal(m[order[i]]).protocol = protocol}

OfProtocol(jobs, protocol) == {n \in DOMAIN jobs : jobs[n].protocol = protocol}

PoolsSuffice(jobs, m, order) ==
    \A p \in Protocols : Cardinality(OfProtocol(jobs, p)) <= Cardinality(Pool(m, order, p))

(* How many numbers of a set come up to this one.                          *)
Place(set, n) == Cardinality({i \in set : i <= n})

(* A job takes the next asset of its protocol.                             *)
Bound(jobs, m, order) ==
    [n \in DOMAIN jobs |->
        LET p == jobs[n].protocol
            place == CHOOSE i \in Pool(m, order, p) :
                        Place(Pool(m, order, p), i) = Place(OfProtocol(jobs, p), n)
        IN [jobs[n] EXCEPT !.asset = order[place]]]

-----------------------------------------------------------------------------
(* distributed.Partition *)

(* No direct capacity means the whole capacity.                            *)
Normalized(agents) ==
    [k \in DOMAIN agents |->
        IF agents[k].DirectCapacity = 0
           THEN [agents[k] EXCEPT !.DirectCapacity = agents[k].Capacity] ELSE agents[k]]

Sum(agents, field) == MapThenSumSet(LAMBDA k : agents[k][field], DOMAIN agents)

(* The jobs of a part, by their numbers, in a mode.                        *)
OfMode(jobs, part, mode) == {n \in part : jobs[n].mode = mode}

CapacitySuffices(jobs, agents) ==
    /\ Len(jobs) <= Sum(agents, "Capacity")
    /\ Cardinality(OfMode(jobs, DOMAIN jobs, "direct")) <= Sum(agents, "DirectCapacity")
    /\ Cardinality(OfMode(jobs, DOMAIN jobs, "browser")) <= Sum(agents, "BrowserCapacity")

supportingAgentCount(agents, protocol) ==
    Cardinality({k \in DOMAIN agents :
        agents[k].DirectCapacity > 0 /\ protocol \in agents[k].DirectProtocols})

(* The direct jobs come first, of them those with the fewest agents.       *)
Rank(jobs, agents, n) ==
    IF jobs[n].mode = "direct" THEN supportingAgentCount(agents, jobs[n].protocol)
                               ELSE Len(agents) + 1

NextJob(jobs, agents, left) ==
    CHOOSE n \in left : \A m \in left :
        \/ Rank(jobs, agents, n) < Rank(jobs, agents, m)
        \/ Rank(jobs, agents, n) = Rank(jobs, agents, m) /\ n <= m

(* Mutation: the total capacity is not looked at.                          *)
MayTakeInMode(agent, jobs, part, n) ==
    /\ Cardinality(OfMode(jobs, part, jobs[n].mode)) <
          (IF jobs[n].mode = "browser" THEN agent.BrowserCapacity ELSE agent.DirectCapacity)
    /\ jobs[n].mode = "direct" => jobs[n].protocol \in agent.DirectProtocols

(* May an agent that has a part of the jobs take one more?                 *)
MayTake(agent, jobs, part, n) ==
    /\ Cardinality(part) < agent.Capacity
    /\ Cardinality(OfMode(jobs, part, jobs[n].mode)) <
          (IF jobs[n].mode = "browser" THEN agent.BrowserCapacity ELSE agent.DirectCapacity)
    /\ jobs[n].mode = "direct" => jobs[n].protocol \in agent.DirectProtocols

(* Round robin: the first agent from the cursor on that may take the job;  *)
(* for those in the browser it starts again. No agent: the job stays left. *)
Assign(jobs, agents, deal) ==
    LET cursor == IF deal.left = OfMode(jobs, DOMAIN jobs, "browser") THEN 0 ELSE deal.cursor
        n == NextJob(jobs, agents, deal.left)
        At(checked) == 1 + ((cursor + checked) % Len(agents))
        takers == {c \in 0..(Len(agents) - 1) : MayTake(agents[At(c)], jobs, deal.parts[At(c)], n)}
        taker == At(CHOOSE c \in takers : \A d \in takers : c <= d)
    IN IF takers = {} THEN deal
       ELSE [left |-> deal.left \ {n}, cursor |-> taker % Len(agents),
             parts |-> [deal.parts EXCEPT ![taker] = @ \cup {n}]]

(* What is dealt after as many turns as there are jobs.                    *)
Partition(jobs, agents) ==
    LET deal[turn \in 0..Len(jobs)] ==
            IF turn = 0
               THEN [left |-> DOMAIN jobs, cursor |-> 0, parts |-> [k \in DOMAIN agents |-> {}]]
               ELSE Assign(jobs, agents, deal[turn - 1])
    IN deal[Len(jobs)]

-----------------------------------------------------------------------------
PlanInit ==
    \E input \in PlanInputs :
        plan = [at |-> "config", input |-> input, jobs |-> <<>>, parts |-> <<>>]

Expand ==
    /\ plan.at = "config"
    /\ plan' = IF ConfigIsValid(plan.input.config)
                  THEN [plan EXCEPT !.at = "expanded", !.jobs = Expanded(plan.input.config)]
                  ELSE [plan EXCEPT !.at = "invalid"]

prepareManifestJobs ==
    LET m == plan.input.manifest order == plan.input.order IN
    /\ plan.at = "expanded"
    /\ plan' = IF ValidateManifest(m) /\ PoolsSuffice(plan.jobs, m, order)
                  THEN [plan EXCEPT !.at = "bound", !.jobs = Bound(@, m, order)]
                  ELSE [plan EXCEPT !.at = "invalid"]

(* What an agent answers to Health must be complete.                       *)
Complete(agent) ==
    agent.Capacity >= 1 /\ agent.DirectCapacity >= 1 /\ agent.DirectProtocols # {}

PartitionJobs ==
    LET agents == Normalized(plan.input.agents)
        deal == Partition(plan.jobs, agents)
    IN /\ plan.at = "bound"
       /\ plan' = IF \/ \E a \in ToSet(plan.input.agents) : ~Complete(a)
                     \/ ~CapacitySuffices(plan.jobs, agents)
                     THEN [plan EXCEPT !.at = "invalid"]
                  ELSE IF deal.left # {}
                     THEN [plan EXCEPT !.at = "refused"]
                     ELSE [plan EXCEPT !.at = "partitioned", !.parts = deal.parts]

PlanNext == Expand \/ prepareManifestJobs \/ PartitionJobs

PlanSpec == PlanInit /\ [][PlanNext]_plan

-----------------------------------------------------------------------------
(* A dealing of the jobs to the agents that keeps every limit.             *)
WithinLimits(jobs, part, agent) ==
    /\ Cardinality(part) <= agent.Capacity
    /\ Cardinality(OfMode(jobs, part, "browser")) <= agent.BrowserCapacity
    /\ Cardinality(OfMode(jobs, part, "direct")) <= agent.DirectCapacity
    /\ \A n \in OfMode(jobs, part, "direct") : jobs[n].protocol \in agent.DirectProtocols

(* The jobs are those of the configuration, as many of a protocol and a    *)
(* mode as it asks for, and each has an asset of its own of its protocol.  *)
JobsAreAskedFor ==
    plan.at \in {"bound", "refused", "partitioned"} =>
        LET c == plan.input.config
            jobs == plan.jobs
        IN /\ DOMAIN jobs = 1..c.total /\ Unique(jobs, "asset")
           /\ \A n \in DOMAIN jobs :
                 Normal(plan.input.manifest[jobs[n].asset]).protocol = jobs[n].protocol
           /\ \A p \in Protocols, mode \in Modes : Asked(c, p) > 0 =>
                 Cardinality(OfMode(jobs, OfProtocol(jobs, p), mode)) = ModesOf(c, p)[mode]

(* Every job is dealt to one agent, and no agent gets more than it can     *)
(* take, in any of its limits.                                             *)
PartitionIsExact ==
    plan.at = "partitioned" =>
        LET agents == Normalized(plan.input.agents)
        IN /\ \A n \in DOMAIN plan.jobs :
                 \E k \in DOMAIN agents : \A l \in DOMAIN agents : n \in plan.parts[l] <=> l = k
           /\ \A k \in DOMAIN agents :
                 /\ plan.parts[k] \subseteq DOMAIN plan.jobs
                 /\ WithinLimits(plan.jobs, plan.parts[k], agents[k])

(* The greedy dealing may fail though another would do, but only if agents *)
(* differ in their direct protocols or if there are jobs in the browser.   *)
RefusalIsJustified ==
    plan.at = "refused" =>
        LET agents == Normalized(plan.input.agents)
            jobs == plan.jobs
            Possible(f) == \A k \in DOMAIN agents :
                WithinLimits(jobs, {n \in DOMAIN jobs : f[n] = k}, agents[k])
        IN \/ OfMode(jobs, DOMAIN jobs, "browser") # {}
           \/ \E k, l \in DOMAIN agents : agents[k].DirectProtocols # agents[l].DirectProtocols
           \/ ~\E f \in [DOMAIN jobs -> DOMAIN agents] : Possible(f)

(* What a distributed run begins with is right: the jobs are those of the  *)
(* configuration, each agent gets what it can take, and only for cause the *)
(* jobs are refused.                                                       *)
PlanIsSound == JobsAreAskedFor /\ PartitionIsExact /\ RefusalIsJustified
=============================================================================
