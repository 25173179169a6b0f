-------------------------- MODULE MCStandaloneTools --------------------------
(***************************************************************************)
(* The stand-alone tools, and the two parts of pam-loadtest that come      *)
(* before a run: its inventory and its planning. One of them runs, the     *)
(* others have ended, so that their state spaces add up.                   *)
(***************************************************************************)
EXTENDS Naturals, TLC, LoadTools, LDAPStress, ArmsGenerator, InventoryApply, Planning,
        MCSPAServer

pamVars == <<command, pam, late, unanswered, plan>>

(* Every tool with two clients; those with a queue also with one client    *)
(* and more attempts, so that the queue is full.                           *)
ToolRun(names, clients, tasks) == [name: names, clients: {clients}, tasks: {tasks}]

ToolRuns ==
    ToolRun({"TLS-Test", "quic-client", "sgp-xcad"}, 2, 3)
        \cup ToolRun({"EMMProxy", "EMMProxy-2"}, 2, 2) \cup ToolRun({"EMMProxy", "EMMProxy-2"}, 1, 4)

(* Two workers that share their statistics, and every scenario and mode.   *)
Config(mode, readers, writers, scenario, latencies, users) ==
    [mode: {mode}, readers: {readers}, writers: {writers}, interval: {2}, scenario: scenario,
     verify: {scenario = {"bind_search_modify"}}, latencies: {latencies}, users: {users}]

StressConfigs ==
    Config("single", 2, 0, {"bind"}, 0..2, 2)
        \cup Config("single", 1, 0, {"search", "modify", "bind_search"}, {1}, 2)
        \cup Config("single", 1, 0, {"bind_search_modify"}, 0..2, 3)
        \cup Config("ratio", 1, 1, {"bind"}, {1}, 3) \cup Config("rate", 1, 1, {"bind"}, {1}, 2)

(* Full speed; a ramp whose permits overflow the channel; two threads that *)
(* compete for permits.                                                    *)
Load(threads, target, ramp, ticks, attempts, writes) ==
    [threads |-> threads, TargetTPS |-> target, RampUp |-> ramp,
     ticks |-> ticks, attempts |-> attempts, writes |-> writes]

GeneratorLoads == {Load(2, 0, 0, 0, 3, 2), Load(1, 5, 2, 3, 1, 1), Load(2, 4, 0, 1, 0, 2)}

(* Two nodes with two usable addresses each, one of them addressed inside. *)
TwoNodes ==
    [prefix |-> "small", nodes |-> <<[cidr |-> 5, bits |-> 30], [cidr |-> 8, bits |-> 30]>>,
     protocols |-> <<[name |-> "ssh", byNode |-> <<1, 0>>], [name |-> "web", byNode |-> <<1, 1>>]>>]

(* Configurations that are right, with the modes left out or given, for    *)
(* two agents of every size; and what is wrong with configurations and     *)
(* manifests, for one agent and every shuffle.                             *)
JobConfig(total, protocols, modes) == [total |-> total, protocols |-> protocols, modes |-> modes]

Mixed == JobConfig(4, "ssh" :> 2 @@ "mysql" :> 1 @@ "rdp" :> 1, <<>>)
Direct == JobConfig(3, "ssh" :> 2 @@ "mysql" :> 1, <<>>)
Given == JobConfig(2, "ssh" :> 2, "ssh" :> [direct |-> 1, browser |-> 1])
Wrong == {[Given EXCEPT !.total = 3], [Given EXCEPT !.modes["ssh"].direct = 2],
          [Mixed EXCEPT !.protocols = "ftp" :> 4], [Mixed EXCEPT !.protocols["ssh"] = 0 - 2]}

Asset(n, protocol) == [name |-> n, ip |-> n, protocol |-> protocol, id |-> n, account |-> n]

Manifest == <<Asset(1, "ssh"), Asset(2, "ssh"), Asset(3, "database"), Asset(4, "rdp")>>

Agents == [Capacity: 2..3, DirectCapacity: 0..2, BrowserCapacity: 0..1,
           DirectProtocols: {{"ssh"}, {"ssh", "mysql"}}]

OneAgent == [Capacity |-> 4, DirectCapacity |-> 4, BrowserCapacity |-> 1,
             DirectProtocols |-> {"ssh", "mysql"}]

Input(configs, manifests, agents, orders) ==
    [config: configs, manifest: manifests, agents: agents, order: orders]

MCPlanInputs ==
    Input({Mixed, Direct, Given}, {Manifest}, {<<a, b>> : a, b \in Agents}, {<<1, 2, 3, 4>>})
        \cup Input({Mixed} \cup Wrong,
                   {Manifest, [Manifest EXCEPT ![2].protocol = "vnc"],
                    [Manifest EXCEPT ![2].id = 1], [Manifest EXCEPT ![4].account = 0]},
                   {<<OneAgent>>}, {[i \in 1..4 |-> f[i]] : f \in Permutations(1..4)})

ASSUME StressAssumption /\ GeneratorAssumption /\ ToolsAssumption

ToolEnded ==
    /\ tool = CHOOSE t \in Tools : TRUE
    /\ toolMain = "ended" /\ expired = TRUE /\ queue = <<>> /\ tokens = <<>>
    /\ attempt = [i \in Tasks |-> NoAttempt]
    /\ counts = [success |-> 0, fail |-> 0]
    /\ WriterInit(Tasks, {"off"})

LDAPEnded ==
    /\ config = CHOOSE c \in Configs : c.mode = "single"
    /\ over = TRUE /\ feeder = "ended" /\ printed = TRUE
    /\ sent = [k \in Kinds |-> 0] /\ channel = sent
    /\ ticker = [fired |-> 0, pending |-> FALSE]
    /\ worker = [i \in 1..MaxWorkers |-> [Idle EXCEPT !.at = "left"]]
    /\ stats = [k \in Kinds |-> NoStats]

ARMSEnded ==
    /\ load = CHOOSE l \in Loads : l.TargetTPS = 0
    /\ main = "ended" /\ ctx = [parent |-> TRUE, run |-> TRUE]
    /\ thread = [t \in 1..MaxThreads |-> [at |-> "left", first |-> FALSE, had |-> FALSE]]
    /\ startup = [unread |-> 0, heard |-> 0, connected |-> 0]
    /\ scheduler = [at |-> "off", ticks |-> 0, elapsed |-> 0, due |-> 0, carry |-> 0, count |-> 0]
    /\ permits = [waiting |-> 0, backlog |-> 0, taken |-> 0, discarded |-> 0]
    /\ counters = [attempts |-> 0, connectErrors |-> 0, reconnects |-> 0, active |-> 0,
                    success |-> 0, failed |-> 0]
    /\ reporter = [at |-> "done", row |-> 0]

PAMEnded ==
    /\ command = [NoCommand EXCEPT !.at = "planned"]
    /\ pam = [i \in Planned |-> [copies |-> 0, foreign |-> "none"]]
    /\ late = {} /\ unanswered = {}

PlanEnded == plan = [at |-> "invalid"]

SPAEnded ==
    /\ serverConfig = CHOOSE c \in ServerConfigs : TRUE
    /\ server = [at |-> "exited", open |-> FALSE, code |-> 0]
    /\ request = [r \in Requests |-> NoRequest]
    /\ places = [p \in Paths |-> 0]
    /\ sink = [newAsyncLogSink EXCEPT !.closed = TRUE, !.done = TRUE]

Init ==
    \/ ToolInit /\ LDAPEnded /\ ARMSEnded /\ PAMEnded /\ PlanEnded /\ SPAEnded
    \/ ToolEnded /\ StressInit /\ ARMSEnded /\ PAMEnded /\ PlanEnded /\ SPAEnded
    \/ ToolEnded /\ LDAPEnded /\ GeneratorInit /\ PAMEnded /\ PlanEnded /\ SPAEnded
    \/ ToolEnded /\ LDAPEnded /\ ARMSEnded /\ InventoryInit /\ PlanEnded /\ SPAEnded
    \/ ToolEnded /\ LDAPEnded /\ ARMSEnded /\ PAMEnded /\ PlanInit /\ SPAEnded
    \/ ToolEnded /\ LDAPEnded /\ ARMSEnded /\ PAMEnded /\ PlanEnded /\ ServerInit

Next ==
    \/ ToolNext /\ UNCHANGED <<stressVars, generatorVars, pamVars, serverVars>>
    \/ StressNext /\ UNCHANGED <<toolVars, generatorVars, pamVars, serverVars>>
    \/ GeneratorNext /\ UNCHANGED <<toolVars, stressVars, pamVars, serverVars>>
    \/ InventoryNext /\ UNCHANGED <<toolVars, stressVars, generatorVars, plan, serverVars>>
    \/ PlanNext /\ UNCHANGED <<toolVars, stressVars, generatorVars, inventoryVars, serverVars>>
    \/ ServerNext /\ UNCHANGED <<toolVars, stressVars, generatorVars, pamVars>>

Spec ==
    /\ Init /\ [][Next]_<<toolVars, stressVars, generatorVars, pamVars, serverVars>>
    /\ ToolFairness /\ StressFairness /\ GeneratorFairness /\ ServerFairness

-----------------------------------------------------------------------------
(* The variables of every tool have their types, and the plan of the       *)
(* inventory can be made, by its three specifications (PlansAreMade).      *)
TypeOK == ToolTypeOK /\ StressTypeOK /\ GeneratorTypeOK /\ PlansAreMade

(* No attempt of any tool is left out of what it reports, or counted twice *)
(* (EveryAttemptIsReported, EveryRequestIsCounted, ConnectionsAddUp).      *)
EveryAttemptIsCounted ==
    EveryAttemptIsReported /\ EveryRequestIsCounted /\ ConnectionsAddUp

(* Every tool ends for good, unless it waits for ever in a stage without a *)
(* deadline, which only EMMProxy and EMMProxy-2 have.                      *)
ToolsEnd == <>[](toolMain = "ended" /\ printed /\ GeneratorOver) \/ <>[]AnyStuck
=============================================================================
