--------------------------- MODULE InventoryApply ---------------------------
(***************************************************************************)
(* The inventory of pam-loadtest: a plan of the virtual assets (Plan and   *)
(* the profiles of it), and the command that brings the PAM to it (Apply), *)
(* in batches that are listed again after each import. An import may be    *)
(* carried out in part, or although its answer is lost, or only later; the *)
(* client sends it again, and the operator may run the command again.      *)
(* Nobody else changes these assets meanwhile.                             *)
(***************************************************************************)
EXTENDS Naturals, FiniteSets, SequencesExt

CONSTANTS
    SmallSpec,      \* the specification that is applied
    ImportSize,     \* assets of one import (50 in the code)
    ImportRetries,  \* times an import is sent again (2 in the command)
    MaxRuns         \* bound: runs of the command

VARIABLES
    command,    \* the command that runs: where it is, its options and its report
    pam,        \* pam[i]: the records of the planned asset i in the PAM
    late,       \* imports without an answer that the PAM may still carry out
    unanswered  \* the assets of imports without an answer, for the properties

-----------------------------------------------------------------------------
(* Plan. An address is its distance from 10.200.0.0; the codes of the      *)
(* nodes are their numbers.                                                *)

Protocol(name, perNode) == [name |-> name, byNode |-> [node \in 1..4 |-> perNode]]

Nodes(first, step, bits) == [k \in 1..4 |-> [cidr |-> first + step * (k - 1), bits |-> bits]]

DefaultSpec ==
    [prefix |-> "base", nodes |-> Nodes(0, 512, 23),
     protocols |-> <<Protocol("ssh", 250), Protocol("rdp", 100), Protocol("vnc", 50),
                     Protocol("web", 50), Protocol("mysql", 50)>>]

ExtensionSpec ==
    [prefix |-> "ext1", nodes |-> Nodes(2048, 64, 26),
     protocols |-> <<Protocol("rdp", 25), [name |-> "web", byNode |-> <<13, 13, 12, 12>>]>>]

SSHScaleSpec ==
    [prefix |-> "sshscale1", nodes |-> Nodes(65536, 512, 23), protocols |-> <<Protocol("ssh", 500)>>]

(* Addresses of a node before those of protocol p.                         *)
Before(spec, node, p) ==
    FoldSet(LAMBDA q, sum : sum + spec.protocols[q].byNode[node], 0, 1..(p - 1))

usable(node) == (2 ^ (32 - node.bits)) - 2

Fits(spec) ==
    \A n \in DOMAIN spec.nodes :
        Before(spec, n, Len(spec.protocols) + 1) <= usable(spec.nodes[n])

(* Masked, and the one after it first.                                     *)
Network(node) == node.cidr - (node.cidr % (2 ^ (32 - node.bits)))

PlanNode(spec, n) ==
    FlattenSeq([p \in DOMAIN spec.protocols |->
        [i \in 1..spec.protocols[p].byNode[n] |->
            [name |-> <<spec.prefix, spec.protocols[p].name, n, i>>,
             ip |-> Network(spec.nodes[n]) + Before(spec, n, p) + i]]])

Plan(spec) == FlattenSeq([n \in DOMAIN spec.nodes |-> PlanNode(spec, n)])

(* The combined and the capacity profile.                                  *)
HasDuplicate(plan) ==
    \/ Cardinality({a.name : a \in ToSet(plan)}) < Len(plan)
    \/ Cardinality({a.ip : a \in ToSet(plan)}) < Len(plan)

ASSUME InventoryAssumption ==
    /\ Fits(SmallSpec) /\ ~HasDuplicate(Plan(SmallSpec))
    /\ Len(Plan(SmallSpec)) \in Nat
    /\ ImportSize \in Nat \ {0} /\ ImportRetries \in Nat /\ MaxRuns \in Nat \ {0}

(* The planned assets, by their places in the plan.                        *)
Planned == 1..Len(Plan(SmallSpec))

-----------------------------------------------------------------------------
NoReport == [desired |-> 0, existing |-> 0, pending |-> 0, created |-> 0]

(* What the first listing misses, and what of it is left to import.        *)
NoCommand ==
    [at |-> "idle", runs |-> 0, execute |-> FALSE, failed |-> FALSE, attempt |-> 0,
     missing |-> {}, left |-> {}, report |-> NoReport]

(* Another record may have a planned name, also one of ours without its    *)
(* account, or a planned address.                                          *)
InventoryInit ==
    /\ command = NoCommand /\ late = {} /\ unanswered = {}
    /\ pam \in [Planned -> [copies: 0..1, foreign: {"none", "name", "address"}]]
    /\ Cardinality({i \in Planned : pam[i].foreign # "none"}) <= 1

(* inventory plan with the profiles of several specifications: refused if  *)
(* a network is too small, or a name or an address is planned twice.       *)
MakePlan ==
    /\ command.at = "idle" /\ command.runs = 0
    /\ \E profile \in {<<DefaultSpec, ExtensionSpec>>, <<DefaultSpec, ExtensionSpec, SSHScaleSpec>>} :
          LET made == /\ \A k \in DOMAIN profile : Fits(profile[k])
                      /\ ~HasDuplicate(FlattenSeq([k \in DOMAIN profile |-> Plan(profile[k])]))
          IN command' = [command EXCEPT !.at = IF made THEN "planned" ELSE "refused"]
    /\ UNCHANGED <<pam, late, unanswered>>

-----------------------------------------------------------------------------
(* reconcile of the wanted assets with a listing of the PAM, in the order  *)
(* of the plan: it ends with an error at the first conflict, else it has   *)
(* those that are missing.                                                 *)

Conflicts(i) ==
    \/ pam[i].copies > 1
    \/ pam[i].foreign = "name"
    \/ pam[i].copies = 0 /\ pam[i].foreign = "address"

(* Mutation: an asset that is there is imported like the others.           *)
reconcileAll(wanted) ==
    [error |-> \E i \in wanted : Conflicts(i), exact |-> 0, missing |-> wanted]

reconcile(wanted) ==
    LET bad == {i \in wanted : Conflicts(i)}
        checked == {i \in wanted : \A j \in bad : i < j}
    IN [error |-> bad # {},
        exact |-> Cardinality({i \in checked : pam[i].copies = 1}),
        missing |-> IF bad = {} THEN {i \in wanted : pam[i].copies = 0} ELSE {}]

Ended(failed) == [command EXCEPT !.at = "idle", !.failed = failed]

(* Apply: the limit keeps a first part of the plan.                        *)
Apply ==
    /\ command.at = "idle" /\ command.runs < MaxRuns
    /\ \E execute \in BOOLEAN, limit \in Planned :
          command' = [NoCommand EXCEPT !.at = "listing", !.runs = command.runs + 1, !.execute = execute,
                                       !.report = [NoReport EXCEPT !.desired = limit]]
    /\ UNCHANGED <<pam, late, unanswered>>

Listed(report, found) ==
    [report EXCEPT !.existing = found.exact, !.pending = Cardinality(found.missing)]

FirstListing ==
    LET found == reconcile(1..command.report.desired)
        reported == [command EXCEPT !.report = Listed(@, found),
                                    !.missing = found.missing, !.left = found.missing]
    IN /\ command.at = "listing"
       /\ command' = IF found.error \/ ~command.execute \/ found.missing = {}
                        THEN [reported EXCEPT !.at = "idle", !.failed = found.error]
                        ELSE [reported EXCEPT !.at = "importing"]
       /\ UNCHANGED <<pam, late, unanswered>>

(* A listing that fails, after its own attempts.                           *)
ListingFails ==
    /\ command.at \in {"listing", "checking"}
    /\ command' = Ended(TRUE)
    /\ UNCHANGED <<pam, late, unanswered>>

(* The first of those that are left.                                       *)
Batch ==
    {i \in command.left : Cardinality({j \in command.left : j <= i}) <= ImportSize}

(* The PAM carries out an import for some of its assets; a third record of *)
(* an asset makes no difference.                                           *)
CarriedOut(assets) ==
    pam' = [i \in Planned |->
              IF i \in assets /\ pam[i].copies < 2 THEN [pam[i] EXCEPT !.copies = @ + 1] ELSE pam[i]]

(* An answer of success does not say that every asset was taken.           *)
ImportAnswered ==
    /\ command.at = "importing"
    /\ \E assets \in SUBSET Batch : CarriedOut(assets)
    /\ command' = [command EXCEPT !.at = "checking", !.attempt = 0]
    /\ UNCHANGED <<late, unanswered>>

ImportRejected ==
    /\ command.at = "importing"
    /\ \E assets \in SUBSET Batch : CarriedOut(assets)
    /\ command' = Ended(TRUE)
    /\ UNCHANGED <<late, unanswered>>

(* No answer, or one of the server that asks to come again.                *)
ImportUnanswered ==
    /\ command.at = "importing"
    /\ \E assets \in SUBSET Batch :
          \/ CarriedOut(assets) /\ UNCHANGED late
          \/ late' = late \cup {assets} /\ UNCHANGED pam
    /\ unanswered' = unanswered \cup Batch
    /\ command' = IF command.attempt = ImportRetries THEN Ended(TRUE)
                     ELSE [command EXCEPT !.attempt = @ + 1]

CarriedOutLate ==
    \E assets \in late :
        /\ CarriedOut(assets)
        /\ late' = late \ {assets}
        /\ UNCHANGED <<command, unanswered>>

(* The listing after a batch.                                              *)
CountBatch(report, n) == [report EXCEPT !.created = @ + n, !.pending = @ - n]

Check ==
    LET found == reconcile(Batch)
        counted == [command EXCEPT !.report = CountBatch(@, Cardinality(Batch)), !.left = @ \ Batch]
    IN /\ command.at = "checking"
       /\ command' = IF found.error \/ found.missing # {} THEN Ended(TRUE)
                        ELSE IF counted.left = {}
                                THEN [counted EXCEPT !.at = "idle"]
                                ELSE [counted EXCEPT !.at = "importing"]
       /\ UNCHANGED <<pam, late, unanswered>>

InventoryNext ==
    \/ MakePlan \/ Apply \/ FirstListing \/ ListingFails
    \/ ImportAnswered \/ ImportRejected \/ ImportUnanswered \/ CarriedOutLate \/ Check

inventoryVars == <<command, pam, late, unanswered>>

InventorySpec == InventoryInit /\ [][InventoryNext]_inventoryVars

-----------------------------------------------------------------------------
(* Properties *)

(* The plans of the command are made: every network has the addresses, and *)
(* no two specifications share a name or an address (CombinedPlan,         *)
(* CapacityPlan).                                                          *)
PlansAreMade == command.at # "refused"

(* What Apply reports is so: every asset it says it created is in the PAM; *)
(* after an import without an error all it was asked for are; and an asset *)
(* is there twice only if the answer to an import of it was lost, so that  *)
(* running the command again repeats nothing.                              *)
ReportIsTrue ==
    /\ command.report.created = Cardinality(command.missing \ command.left)
    /\ \A i \in command.missing \ command.left : pam[i].copies > 0
    /\ command.at = "idle" /\ command.execute /\ ~command.failed =>
          /\ command.report.pending = 0
          /\ command.report.existing + command.report.created = command.report.desired
          /\ \A i \in 1..command.report.desired : pam[i].copies > 0
    /\ \A i \in Planned : pam[i].copies > 1 => i \in unanswered
=============================================================================
