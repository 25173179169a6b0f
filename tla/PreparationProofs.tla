-------------------------- MODULE PreparationProofs --------------------------
(***************************************************************************)
(* What comes before a run, in two parts that share nothing.               *)
(*                                                                         *)
(* The inventory command against a PAM that carries out imports in part,   *)
(* late or without an answer, for every plan, size of an import, number of *)
(* retries and of runs of the command.  The invariant says what the PAM is *)
(* known to have at each point of Apply, and that what it may have without *)
(* the command knowing was sent in an import without an answer.            *)
(*                                                                         *)
(* The planning of a distributed run, for every configuration, manifest,   *)
(* shuffle and list of agents.  What the dealing returns is shown turn by  *)
(* turn: the smallest number of turns for which a claim is false leads to  *)
(* a smaller one.                                                          *)
(***************************************************************************)
EXTENDS InventoryApply, Planning, FiniteSetTheorems, WellFoundedInduction, TLAPS

Positions == {"idle", "planned", "refused", "listing", "importing", "checking"}

Flags == BOOLEAN

Reports == [desired: Nat, existing: Nat, pending: Nat, created: Nat]

Commands ==
    [at: Positions, runs: Nat, execute: Flags, failed: Flags, attempt: Nat,
     missing: SUBSET Planned, left: SUBSET Planned, report: Reports]

Records == [copies: 0..2, foreign: {"none", "name", "address"}]

Wanted == 1..command.report.desired

Typed ==
    /\ command \in Commands
    /\ Wanted \subseteq Planned /\ command.left \subseteq command.missing
    /\ command.missing \subseteq Wanted
    /\ pam \in [Planned -> Records]
    /\ late \subseteq SUBSET unanswered /\ unanswered \subseteq Planned

(* A record that is there twice, or that the PAM may yet make, was sent in *)
(* an import without an answer.                                            *)
DoublesWereUnanswered == \A i \in Planned : pam[i].copies > 1 => i \in unanswered

(* The command has listed the PAM once and met no error since.             *)
Underway ==
    \/ command.at \in {"importing", "checking"}
    \/ command.at = "idle" /\ command.execute /\ ~command.failed

(* The report: what is not left is there, and what is left is pending.     *)
ReportAgrees ==
    /\ command.report.created = Cardinality(command.missing \ command.left)
    /\ command.at = "listing" => command.missing = {}
    /\ \A i \in command.missing \ command.left : pam[i].copies > 0
    /\ Underway =>
          /\ command.report.pending = Cardinality(command.left)
          /\ command.report.existing + Cardinality(command.missing) = command.report.desired
          /\ \A i \in Wanted \ command.left : pam[i].copies > 0
    /\ Underway /\ command.at = "idle" => command.left = {}

(* The assets whose import was not sent, or got no answer.                 *)
Unsent == IF command.at = "checking" THEN command.left \ Batch ELSE command.left

(* Those that are there all the same were sent without an answer.          *)
UnsentAreMissing ==
    command.at \in {"importing", "checking"} =>
        \A i \in Unsent : pam[i].copies > 0 => i \in unanswered

InventoryInv == Typed /\ DoublesWereUnanswered /\ ReportAgrees /\ UnsentAreMissing

-----------------------------------------------------------------------------
(* The plan and the sets of its assets are finite.                         *)
LEMMA PlannedIsFinite ==
    /\ IsFiniteSet(Planned)
    /\ \A A \in SUBSET Planned : IsFiniteSet(A) /\ Cardinality(A) \in Nat
<1>1. PICK n : n = Len(Plan(SmallSpec)) OBVIOUS
<1>2. n \in Nat BY <1>1, InventoryAssumption
<1>3. Planned = 1..n BY <1>1 DEF Planned
<1>4. 1 \in Int /\ n \in Int BY <1>2
<1>5. IsFiniteSet(Planned) BY <1>3, <1>4, FS_Interval
<1> QED BY <1>5, FS_Subset, FS_CardinalityType

(* The assets of a run with this limit.                                    *)
LEMMA WantedIsFinite ==
    ASSUME NEW n \in Nat
    PROVE  IsFiniteSet(1..n) /\ Cardinality(1..n) = n
<1>1. 1 \in Int /\ n \in Int OBVIOUS
<1>2. IsFiniteSet(1..n) /\ Cardinality(1..n) = IF 1 > n THEN 0 ELSE n - 1 + 1
  BY <1>1, FS_Interval
<1> QED BY <1>2

(* The limit keeps a first part of the plan.                               *)
LEMMA LimitIsPlanned ==
    ASSUME NEW limit \in Planned
    PROVE  limit \in Nat /\ 1..limit \subseteq Planned
<1>1. PICK n : n = Len(Plan(SmallSpec)) OBVIOUS
<1>2. n \in Nat BY <1>1, InventoryAssumption
<1>3. Planned = 1..n BY <1>1 DEF Planned
<1> QED BY <1>2, <1>3

-----------------------------------------------------------------------------
(* The PAM                                                                 *)

(* An import that is carried out for some assets makes no record of the    *)
(* others, and takes none away.                                            *)
LEMMA CarriedOutFacts ==
    ASSUME pam \in [Planned -> Records], NEW assets, CarriedOut(assets)
    PROVE  /\ pam' \in [Planned -> Records]
           /\ \A i \in Planned :
                 /\ pam[i].copies > 0 => pam'[i].copies > 0
                 /\ pam'[i].copies > 0 => pam[i].copies > 0 \/ i \in assets
                 /\ pam'[i].copies > 1 => pam[i].copies > 1 \/ (pam[i].copies > 0 /\ i \in assets)
<1> DEFINE more(i) == [pam[i] EXCEPT !.copies = @ + 1]
<1>1. pam' = [i \in Planned |-> IF i \in assets /\ pam[i].copies < 2 THEN more(i) ELSE pam[i]]
  BY DEF CarriedOut
<1>2. ASSUME NEW i \in Planned, pam[i].copies < 2
      PROVE  more(i) \in Records /\ more(i).copies = pam[i].copies + 1
  <2>1. pam[i] \in Records /\ pam[i].copies \in 0..2 BY DEF Records
  <2>2. pam[i].copies + 1 \in 0..2 BY <1>2, <2>1
  <2> QED BY <2>1, <2>2 DEF Records
<1>3. \A i \in Planned : pam[i] \in Records /\ pam[i].copies \in 0..2
  BY DEF Records
<1> HIDE DEF more
<1>4. \A i \in Planned : pam'[i] \in Records
  BY <1>1, <1>2, <1>3
<1>5. pam' \in [Planned -> Records]
  BY <1>1, <1>4
<1>6. ASSUME NEW i \in Planned
      PROVE  \/ pam'[i].copies = pam[i].copies
             \/ i \in assets /\ pam'[i].copies = pam[i].copies + 1
  BY <1>1, <1>2
<1> QED BY <1>3, <1>5, <1>6

(* reconcile: without an error the wanted assets are there once or are     *)
(* missing; with one nothing is missing.                                   *)
LEMMA ReconcileFacts ==
    ASSUME pam \in [Planned -> Records], NEW wanted \in SUBSET Planned
    PROVE  LET found == reconcile(wanted)
           IN  /\ found.error \in BOOLEAN /\ found.exact \in Nat
               /\ found.missing \subseteq wanted
               /\ \A i \in found.missing : pam[i].copies = 0
               /\ ~found.error =>
                     /\ found.exact + Cardinality(found.missing) = Cardinality(wanted)
                     /\ \A i \in wanted \ found.missing : pam[i].copies = 1
<1> DEFINE bad == {i \in wanted : Conflicts(i)}
           checked == {i \in wanted : \A j \in bad : i < j}
           there == {i \in checked : pam[i].copies = 1}
           missing == IF bad = {} THEN {i \in wanted : pam[i].copies = 0} ELSE {}
           found == reconcile(wanted)
<1>1. found.error = (bad # {}) /\ found.exact = Cardinality(there) /\ found.missing = missing
  BY DEF reconcile
<1>2. Cardinality(there) \in Nat
  BY PlannedIsFinite
<1>3. missing \subseteq wanted /\ \A i \in missing : pam[i].copies = 0
  OBVIOUS
<1>4. ASSUME bad = {}
      PROVE  /\ Cardinality(there) + Cardinality(missing) = Cardinality(wanted)
             /\ \A i \in wanted \ missing : pam[i].copies = 1
  <2>1. \A i \in wanted : pam[i].copies \in 0..2 BY DEF Records
  <2>2. \A i \in wanted : ~(pam[i].copies > 1) BY <1>4 DEF Conflicts
  <2>3. checked = wanted BY <1>4
  <2>4. missing = {i \in wanted : pam[i].copies = 0} BY <1>4
  <2>5. there \cup missing = wanted /\ there \cap missing = {}
    BY <2>1, <2>2, <2>3, <2>4
  <2>6. IsFiniteSet(there) /\ IsFiniteSet(missing) BY PlannedIsFinite
  <2>7. \A i \in wanted \ missing : pam[i].copies = 1 BY <2>1, <2>2, <2>4
  <2> HIDE DEF there, missing
  <2>8. Cardinality(there \cup missing)
          = Cardinality(there) + Cardinality(missing) - Cardinality(there \cap missing)
    BY <2>6, FS_Union
  <2>9. Cardinality(there \cap missing) = 0 BY <2>5, FS_EmptySet
  <2>10. Cardinality(there) \in Nat /\ Cardinality(missing) \in Nat BY <2>6, FS_CardinalityType
  <2>11. PICK a \in Nat, b \in Nat : a = Cardinality(there) /\ b = Cardinality(missing)
    BY <2>10
  <2>12. Cardinality(there \cup missing) = a + b - 0 BY <2>8, <2>9, <2>11
  <2>13. Cardinality(wanted) = Cardinality(there \cup missing) BY <2>5
  <2>14. Cardinality(wanted) = a + b BY <2>12, <2>13
  <2> QED BY <2>7, <2>11, <2>14
<1> HIDE DEF bad, there, missing
<1> QED BY <1>1, <1>2, <1>3, <1>4

-----------------------------------------------------------------------------
(* Moves of the command                                                    *)

(* What a step of the command does to its fields.                          *)
MovesTo(at, failed, attempt, missing, left, report) ==
    /\ command' \in Commands
    /\ command'.at = at /\ command'.failed = failed /\ command'.attempt = attempt
    /\ command'.missing = missing /\ command'.left = left /\ command'.report = report
    /\ command'.execute = command.execute /\ command'.runs = command.runs

(* The end of the command keeps all but where it is and how it ended.      *)
LEMMA EndedFacts ==
    ASSUME command \in Commands, NEW failed \in Flags, command' = Ended(failed)
    PROVE  MovesTo("idle", failed, command.attempt, command.missing, command.left, command.report)
<1> DEFINE c == [command EXCEPT !.at = "idle", !.failed = failed]
<1>1. command' = c BY DEF Ended
<1>2. "idle" \in Positions BY DEF Positions
<1>3. c \in Commands BY <1>2 DEF Commands
<1>4. /\ c.at = "idle" /\ c.failed = failed /\ c.attempt = command.attempt
      /\ c.missing = command.missing /\ c.left = command.left /\ c.report = command.report
      /\ c.execute = command.execute /\ c.runs = command.runs
  BY DEF Commands
<1> HIDE DEF c
<1> QED BY <1>1, <1>3, <1>4 DEF MovesTo

(* A command that ends with an error claims nothing more.                  *)
LEMMA FailureKeeps ==
    ASSUME InventoryInv, command' = Ended(TRUE),
           pam' \in [Planned -> Records],
           \A i \in Planned : pam[i].copies > 0 => pam'[i].copies > 0,
           late' \subseteq SUBSET unanswered', unanswered' \subseteq Planned,
           \A i \in Planned : pam'[i].copies > 1 => i \in unanswered'
    PROVE  InventoryInv'
<1>1. PICK yes : yes = TRUE OBVIOUS
<1>2. yes \in Flags BY <1>1 DEF Flags
<1>3. command \in Commands BY DEF InventoryInv, Typed
<1>4. command' = Ended(yes) BY <1>1
<1>5. MovesTo("idle", yes, command.attempt, command.missing, command.left, command.report)
  BY <1>2, <1>3, <1>4, EndedFacts
<1>6. Wanted' = Wanted BY <1>5 DEF Wanted, MovesTo
<1>7. Typed' BY <1>5, <1>6 DEF Typed, MovesTo, InventoryInv
<1>8. ReportAgrees'
  <2>1. ~Underway' BY <1>1, <1>5 DEF Underway, MovesTo
  <2>2. command.missing \subseteq Planned BY <1>3 DEF Commands
  <2> QED BY <1>5, <2>1, <2>2 DEF ReportAgrees, MovesTo, InventoryInv
<1>9. UnsentAreMissing' BY <1>5 DEF UnsentAreMissing, MovesTo
<1> QED BY <1>7, <1>8, <1>9 DEF InventoryInv, DoublesWereUnanswered

(* The fields of a typed state.                                            *)
LEMMA TypedFacts ==
    ASSUME InventoryInv
    PROVE  /\ command \in Commands /\ command.at \in Positions
           /\ command.runs \in Nat /\ command.attempt \in Nat
           /\ command.execute \in Flags /\ command.failed \in Flags
           /\ command.missing \subseteq Planned /\ command.left \subseteq Planned
           /\ command.report \in Reports
           /\ command.report.desired \in Nat /\ command.report.existing \in Nat
           /\ command.report.pending \in Nat /\ command.report.created \in Nat
           /\ Batch \subseteq command.left
           /\ pam \in [Planned -> Records]
           /\ late \subseteq SUBSET unanswered /\ unanswered \subseteq Planned
           /\ \A i \in Planned : pam[i].copies > 1 => i \in unanswered
BY DEF InventoryInv, Typed, Commands, Reports, Batch, DoublesWereUnanswered

(* The listing fails, or the PAM refuses an import that it has carried out *)
(* in part.                                                                *)
LEMMA ListingFailsKeeps ==
    ASSUME InventoryInv, ListingFails
    PROVE  InventoryInv'
BY TypedFacts, FailureKeeps DEF ListingFails

(* An import that is refused ends the command.                             *)
LEMMA ImportRejectedKeeps ==
    ASSUME InventoryInv, ImportRejected
    PROVE  InventoryInv'
<1>1. PICK assets \in SUBSET Batch : CarriedOut(assets) BY DEF ImportRejected
<1>2. command.at = "importing" /\ command' = Ended(TRUE) /\ late' = late /\ unanswered' = unanswered
  BY DEF ImportRejected
<1>3. \A i \in command.left : pam[i].copies > 0 => i \in unanswered
  BY <1>2 DEF InventoryInv, UnsentAreMissing, Unsent
<1>4. /\ pam' \in [Planned -> Records]
      /\ \A i \in Planned :
            /\ pam[i].copies > 0 => pam'[i].copies > 0
            /\ pam'[i].copies > 1 => pam[i].copies > 1 \/ (pam[i].copies > 0 /\ i \in assets)
  BY <1>1, CarriedOutFacts, TypedFacts
<1>5. \A i \in Planned : pam'[i].copies > 1 => i \in unanswered'
  BY <1>1, <1>2, <1>3, <1>4, TypedFacts
<1> QED BY <1>2, <1>4, <1>5, TypedFacts, FailureKeeps

-----------------------------------------------------------------------------
(* Imports                                                                 *)

(* A step that leaves the report of the command, and what there is of its  *)
(* assets, keeps the invariant if it does so for those not sent.           *)
LEMMA ImportKeeps ==
    ASSUME InventoryInv, command.at \in {"importing", "checking"},
           NEW at \in {"importing", "checking"}, NEW attempt,
           MovesTo(at, command.failed, attempt, command.missing, command.left, command.report),
           pam' \in [Planned -> Records],
           \A i \in Planned : pam[i].copies > 0 => pam'[i].copies > 0,
           late' \subseteq SUBSET unanswered', unanswered' \subseteq Planned,
           \A i \in Planned : pam'[i].copies > 1 => i \in unanswered',
           UnsentAreMissing'
    PROVE  InventoryInv'
<1>1. Wanted' = Wanted BY DEF Wanted, MovesTo
<1>2. Typed' BY <1>1 DEF Typed, MovesTo, InventoryInv
<1>3. Underway /\ Underway' /\ at # "idle" BY DEF Underway, MovesTo
<1>4. Wanted \subseteq Planned /\ command.missing \subseteq Planned
  BY TypedFacts DEF InventoryInv, Typed
<1>5. ReportAgrees'
  BY <1>1, <1>3, <1>4 DEF ReportAgrees, MovesTo, InventoryInv
<1> QED BY <1>2, <1>5 DEF InventoryInv, DoublesWereUnanswered

(* An answered import is checked next; what was carried out of it is of    *)
(* this batch.                                                             *)
LEMMA ImportAnsweredKeeps ==
    ASSUME InventoryInv, ImportAnswered
    PROVE  InventoryInv'
<1> DEFINE c == [command EXCEPT !.at = "checking", !.attempt = 0]
<1>1. PICK assets \in SUBSET Batch : CarriedOut(assets) BY DEF ImportAnswered
<1>2. command.at = "importing" /\ command' = c /\ late' = late /\ unanswered' = unanswered
  BY DEF ImportAnswered
<1>3. MovesTo("checking", command.failed, 0, command.missing, command.left, command.report)
  <2>1. command \in Commands BY TypedFacts
  <2>2. "checking" \in Positions BY DEF Positions
  <2>3. c \in Commands BY <2>1, <2>2 DEF Commands
  <2>4. /\ c.at = "checking" /\ c.failed = command.failed /\ c.attempt = 0
        /\ c.missing = command.missing /\ c.left = command.left /\ c.report = command.report
        /\ c.execute = command.execute /\ c.runs = command.runs
    BY <2>1 DEF Commands
  <2> HIDE DEF c
  <2> QED BY <1>2, <2>3, <2>4 DEF MovesTo
<1>4. \A i \in command.left : pam[i].copies > 0 => i \in unanswered
  BY <1>2 DEF InventoryInv, UnsentAreMissing, Unsent
<1>5. /\ pam' \in [Planned -> Records]
      /\ \A i \in Planned :
            /\ pam[i].copies > 0 => pam'[i].copies > 0
            /\ pam'[i].copies > 0 => pam[i].copies > 0 \/ i \in assets
            /\ pam'[i].copies > 1 => pam[i].copies > 1 \/ (pam[i].copies > 0 /\ i \in assets)
  BY <1>1, CarriedOutFacts, TypedFacts
<1> HIDE DEF c
<1>6. \A i \in Planned : pam'[i].copies > 1 => i \in unanswered'
  BY <1>1, <1>2, <1>4, <1>5, TypedFacts
<1>7. UnsentAreMissing'
  <2>1. command'.left = command.left /\ command'.at = "checking" BY <1>3 DEF MovesTo
  <2>2. Batch' = Batch BY <2>1 DEF Batch
  <2>3. Unsent' = command.left \ Batch BY <2>1, <2>2 DEF Unsent
  <2> QED BY <1>1, <1>2, <1>4, <1>5, <2>3, TypedFacts DEF UnsentAreMissing
<1> QED BY <1>2, <1>3, <1>5, <1>6, <1>7, TypedFacts, ImportKeeps

(* An import without an answer is sent again, or the command ends; what it *)
(* does, now or later, it does for assets that are counted as unanswered.  *)
LEMMA ImportUnansweredKeeps ==
    ASSUME InventoryInv, ImportUnanswered
    PROVE  InventoryInv'
<1>1. PICK assets \in SUBSET Batch :
         \/ CarriedOut(assets) /\ UNCHANGED late
         \/ late' = late \cup {assets} /\ UNCHANGED pam
  BY DEF ImportUnanswered
<1>2. command.at = "importing" /\ unanswered' = unanswered \cup Batch
  BY DEF ImportUnanswered
<1>3. \A i \in command.left : pam[i].copies > 0 => i \in unanswered
  BY <1>2 DEF InventoryInv, UnsentAreMissing, Unsent
<1>4. /\ pam' \in [Planned -> Records]
      /\ \A i \in Planned :
            /\ pam[i].copies > 0 => pam'[i].copies > 0
            /\ pam'[i].copies > 0 => pam[i].copies > 0 \/ i \in assets
            /\ pam'[i].copies > 1 => pam[i].copies > 1 \/ (pam[i].copies > 0 /\ i \in assets)
  <2>1. CASE CarriedOut(assets) BY <2>1, CarriedOutFacts, TypedFacts
  <2>2. CASE UNCHANGED pam BY <2>2, TypedFacts
  <2> QED BY <1>1, <2>1, <2>2
<1>5. late' \subseteq SUBSET unanswered' /\ unanswered' \subseteq Planned
  BY <1>1, <1>2, TypedFacts
<1>6. \A i \in Planned : pam'[i].copies > 1 => i \in unanswered'
  BY <1>1, <1>2, <1>4, TypedFacts
<1>7. CASE command.attempt = ImportRetries
  <2>1. command' = Ended(TRUE) BY <1>7 DEF ImportUnanswered
  <2> QED BY <1>4, <1>5, <1>6, <2>1, FailureKeeps
<1>8. CASE command.attempt # ImportRetries
  <2> DEFINE c == [command EXCEPT !.attempt = @ + 1]
  <2>1. command' = c BY <1>8 DEF ImportUnanswered
  <2>2. MovesTo("importing", command.failed, command.attempt + 1, command.missing,
                command.left, command.report)
    <3>1. command \in Commands /\ command.attempt + 1 \in Nat BY TypedFacts
    <3>2. c \in Commands BY <3>1 DEF Commands
    <3>3. /\ c.at = "importing" /\ c.failed = command.failed /\ c.attempt = command.attempt + 1
          /\ c.missing = command.missing /\ c.left = command.left /\ c.report = command.report
          /\ c.execute = command.execute /\ c.runs = command.runs
      BY <1>2, <3>1 DEF Commands
    <3> HIDE DEF c
    <3> QED BY <2>1, <3>2, <3>3 DEF MovesTo
  <2>3. Unsent' = command.left BY <2>2 DEF MovesTo, Unsent
  <2>4. UnsentAreMissing'
    BY <1>1, <1>2, <1>3, <1>4, <2>3, TypedFacts DEF UnsentAreMissing
  <2> QED BY <1>2, <1>4, <1>5, <1>6, <2>2, <2>4, ImportKeeps
<1> QED BY <1>7, <1>8

(* The PAM carries out an import after the command has gone on.            *)
LEMMA CarriedOutLateKeeps ==
    ASSUME InventoryInv, CarriedOutLate
    PROVE  InventoryInv'
<1>1. PICK assets \in late : /\ CarriedOut(assets) /\ late' = late \ {assets}
                             /\ UNCHANGED <<command, unanswered>>
  BY DEF CarriedOutLate
<1>2. assets \subseteq unanswered BY <1>1, TypedFacts
<1>3. /\ pam' \in [Planned -> Records]
      /\ \A i \in Planned :
            /\ pam[i].copies > 0 => pam'[i].copies > 0
            /\ pam'[i].copies > 0 => pam[i].copies > 0 \/ i \in assets
            /\ pam'[i].copies > 1 => pam[i].copies > 1 \/ (pam[i].copies > 0 /\ i \in assets)
  BY <1>1, CarriedOutFacts, TypedFacts
<1>4. Typed' BY <1>1, <1>3 DEF Typed, InventoryInv, Wanted
<1>5. DoublesWereUnanswered' BY <1>1, <1>2, <1>3, TypedFacts DEF DoublesWereUnanswered
<1>6. ReportAgrees'
  <2>1. Wanted \subseteq Planned /\ command.missing \subseteq Planned
    BY TypedFacts DEF InventoryInv, Typed
  <2> QED BY <1>1, <1>3, <2>1 DEF ReportAgrees, Underway, Wanted, InventoryInv
<1>7. UnsentAreMissing'
  <2>1. Unsent' = Unsent BY <1>1 DEF Unsent, Batch
  <2>2. Unsent \subseteq Planned BY TypedFacts DEF Unsent
  <2> QED BY <1>1, <1>2, <1>3, <2>1, <2>2 DEF UnsentAreMissing, InventoryInv
<1> QED BY <1>4, <1>5, <1>6, <1>7 DEF InventoryInv

-----------------------------------------------------------------------------
(* Listings                                                                *)

(* A batch that is there is taken from what is left.                       *)
LEMMA BatchIsCounted ==
    ASSUME NEW missing \in SUBSET Planned, NEW left \in SUBSET missing, NEW batch \in SUBSET left
    PROVE  /\ Cardinality(left) \in Nat /\ Cardinality(batch) \in Nat
           /\ Cardinality(left \ batch) = Cardinality(left) - Cardinality(batch)
           /\ Cardinality(missing \ (left \ batch))
                = Cardinality(missing \ left) + Cardinality(batch)
<1>1. IsFiniteSet(left) /\ IsFiniteSet(batch) /\ IsFiniteSet(missing \ left)
  BY PlannedIsFinite
<1>2. Cardinality(left) \in Nat /\ Cardinality(batch) \in Nat /\ Cardinality(missing \ left) \in Nat
  BY <1>1, FS_CardinalityType
<1>3. Cardinality(left \ batch) = Cardinality(left) - Cardinality(left \cap batch)
  BY <1>1, FS_Difference
<1>4. left \cap batch = batch OBVIOUS
<1>5. missing \ (left \ batch) = (missing \ left) \cup batch OBVIOUS
<1>6. (missing \ left) \cap batch = {} OBVIOUS
<1>7. Cardinality((missing \ left) \cup batch)
        = Cardinality(missing \ left) + Cardinality(batch) - Cardinality((missing \ left) \cap batch)
  BY <1>1, FS_Union
<1>8. Cardinality({}) = 0 BY FS_EmptySet
<1>9. PICK a \in Nat, b \in Nat : a = Cardinality(missing \ left) /\ b = Cardinality(batch)
  BY <1>2
<1>10. Cardinality((missing \ left) \cup batch) = a + b - 0 BY <1>6, <1>7, <1>8, <1>9
<1>11. Cardinality((missing \ left) \cup batch) = a + b BY <1>9, <1>10
<1>12. Cardinality(left \ batch) = Cardinality(left) - Cardinality(batch) BY <1>3, <1>4
<1> QED BY <1>2, <1>5, <1>9, <1>11, <1>12

(* The report when a batch was found.                                      *)
LEMMA CountedFacts ==
    ASSUME NEW report \in Reports, NEW n \in Nat, n <= report.pending
    PROVE  /\ CountBatch(report, n) \in Reports
           /\ CountBatch(report, n).created = report.created + n
           /\ CountBatch(report, n).pending = report.pending - n
           /\ CountBatch(report, n).desired = report.desired
           /\ CountBatch(report, n).existing = report.existing
<1>1. report.created + n \in Nat /\ report.pending - n \in Nat BY DEF Reports
<1> QED BY <1>1 DEF Reports, CountBatch

(* The listing after a batch: an asset of it that is not there once ends   *)
(* the command with an error, else the batch is counted.                   *)
LEMMA CheckKeeps ==
    ASSUME InventoryInv, Check
    PROVE  InventoryInv'
<1> DEFINE found == reconcile(Batch)
           n == Cardinality(Batch)
           report == CountBatch(command.report, n)
           c == [command EXCEPT !.report = report, !.left = @ \ Batch]
           at == IF c.left = {} THEN "idle" ELSE "importing"
           end == [c EXCEPT !.at = at]
<1>1. command.at = "checking" /\ UNCHANGED <<pam, late, unanswered>>
  BY DEF Check
<1>2. command.missing \in SUBSET Planned /\ command.left \in SUBSET command.missing
      /\ Batch \in SUBSET command.left /\ Batch \in SUBSET Planned
  BY TypedFacts DEF InventoryInv, Typed
<1>3. /\ n \in Nat /\ Cardinality(command.left) \in Nat
      /\ Cardinality(command.left \ Batch) = Cardinality(command.left) - n
      /\ Cardinality(command.missing \ (command.left \ Batch))
           = Cardinality(command.missing \ command.left) + n
  BY <1>2, BatchIsCounted
<1>4. CASE found.error \/ found.missing # {}
  <2>1. command' = Ended(TRUE) BY <1>4 DEF Check
  <2> QED BY <1>1, <2>1, TypedFacts, FailureKeeps
<1>5. CASE ~(found.error \/ found.missing # {})
  <2>1. \A i \in Batch : pam[i].copies = 1
    <3>1. \A i \in Batch \ found.missing : pam[i].copies = 1
      BY <1>2, <1>5, TypedFacts, ReconcileFacts
    <3> QED BY <1>5, <3>1
  <2>2. command' = end BY <1>5 DEF Check
  <2>4. /\ command.report.created = Cardinality(command.missing \ command.left)
        /\ command.report.pending = Cardinality(command.left)
        /\ command.report.existing + Cardinality(command.missing) = command.report.desired
        /\ \A i \in command.missing \ command.left : pam[i].copies > 0
        /\ \A i \in Wanted \ command.left : pam[i].copies > 0
    BY <1>1 DEF InventoryInv, ReportAgrees, Underway
  <2>5. n <= command.report.pending
    <3>1. Cardinality(command.left \ Batch) \in Nat BY <1>2, PlannedIsFinite
    <3> QED BY <1>3, <2>4, <3>1
  <2>6. /\ report \in Reports
        /\ report.created = command.report.created + n
        /\ report.pending = command.report.pending - n
        /\ report.desired = command.report.desired /\ report.existing = command.report.existing
    BY <1>3, <2>5, TypedFacts, CountedFacts
  <2> HIDE DEF report, found
  <2>7. MovesTo(at, command.failed, command.attempt, command.missing, command.left \ Batch, report)
    <3>1. command \in Commands BY TypedFacts
    <3>2. at \in Positions BY DEF Positions
    <3>3. command.left \ Batch \in SUBSET Planned BY <1>2
    <3>4. c \in Commands BY <2>6, <3>1, <3>3 DEF Commands
    <3>5. /\ c.failed = command.failed /\ c.attempt = command.attempt
          /\ c.missing = command.missing /\ c.left = command.left \ Batch /\ c.report = report
          /\ c.execute = command.execute /\ c.runs = command.runs
      BY <3>1 DEF Commands
    <3> HIDE DEF c, at
    <3>6. end \in Commands BY <3>2, <3>4 DEF Commands
    <3>7. /\ end.at = at /\ end.failed = c.failed /\ end.attempt = c.attempt
          /\ end.missing = c.missing /\ end.left = c.left /\ end.report = c.report
          /\ end.execute = c.execute /\ end.runs = c.runs
      BY <3>4 DEF Commands
    <3> HIDE DEF end
    <3> QED BY <2>2, <3>5, <3>6, <3>7 DEF MovesTo
  <2>8. c.left = command.left \ Batch
    <3>1. command \in Commands BY TypedFacts
    <3> QED BY <3>1 DEF Commands
  <2>9. at \in {"idle", "importing"} /\ (at = "idle" => command.left \ Batch = {}) BY <2>8
  <2> HIDE DEF c, at, end, n
  <2>10. Wanted' = Wanted BY <2>6, <2>7 DEF MovesTo, Wanted
  <2>11. Typed' BY <1>1, <1>2, <2>7, <2>10 DEF Typed, MovesTo, InventoryInv
  <2>12. ReportAgrees'
    <3>1. command'.left = command.left \ Batch /\ command'.missing = command.missing
          /\ command'.report = report /\ command'.at = at /\ pam' = pam
      BY <1>1, <2>7 DEF MovesTo
    <3>2. command'.report.created = Cardinality(command'.missing \ command'.left)
      BY <1>3, <2>4, <2>6, <3>1
    <3>3. command'.report.pending = Cardinality(command'.left)
      BY <1>3, <2>4, <2>6, <3>1
    <3>4. command'.report.existing + Cardinality(command'.missing) = command'.report.desired
      BY <2>4, <2>6, <3>1
    <3>5. \A i \in command'.missing \ command'.left : pam'[i].copies > 0
      BY <2>1, <2>4, <3>1
    <3>6. \A i \in Wanted' \ command'.left : pam'[i].copies > 0
      BY <2>1, <2>4, <2>10, <3>1
    <3>7. command'.at # "listing" /\ (command'.at = "idle" => command'.left = {})
      BY <2>9, <3>1
    <3> QED BY <3>2, <3>3, <3>4, <3>5, <3>6, <3>7 DEF ReportAgrees
  <2>13. UnsentAreMissing'
    <3>1. Unsent' = command.left \ Batch BY <2>7, <2>9 DEF Unsent, MovesTo
    <3>2. Unsent = command.left \ Batch BY <1>1 DEF Unsent
    <3> QED BY <1>1, <3>1, <3>2 DEF UnsentAreMissing, InventoryInv
  <2> QED BY <1>1, <2>11, <2>12, <2>13 DEF InventoryInv, DoublesWereUnanswered
<1> QED BY <1>4, <1>5

(* The report of the first listing.                                        *)
LEMMA ListedFacts ==
    ASSUME NEW report \in Reports, NEW found, found.exact \in Nat, Cardinality(found.missing) \in Nat
    PROVE  /\ Listed(report, found) \in Reports
           /\ Listed(report, found).existing = found.exact
           /\ Listed(report, found).pending = Cardinality(found.missing)
           /\ Listed(report, found).desired = report.desired
           /\ Listed(report, found).created = report.created
BY DEF Reports, Listed

(* The first listing: everything that it misses is left to import, and the *)
(* others of the wanted assets are there.                                  *)
LEMMA FirstListingKeeps ==
    ASSUME InventoryInv, FirstListing
    PROVE  InventoryInv'
<1> DEFINE found == reconcile(Wanted)
           report == Listed(command.report, found)
           c == [command EXCEPT !.report = report, !.missing = found.missing, !.left = found.missing]
           stops == found.error \/ ~command.execute \/ found.missing = {}
           at == IF stops THEN "idle" ELSE "importing"
           failed == IF stops THEN found.error ELSE command.failed
           end == IF stops THEN [c EXCEPT !.at = "idle", !.failed = found.error]
                           ELSE [c EXCEPT !.at = "importing"]
<1>1. command.at = "listing" /\ UNCHANGED <<pam, late, unanswered>> /\ command' = end
  BY DEF FirstListing, Wanted
<1>2. command \in Commands /\ Wanted \in SUBSET Planned
  BY TypedFacts DEF InventoryInv, Typed
<1>3. /\ found.error \in BOOLEAN /\ found.exact \in Nat
      /\ found.missing \subseteq Wanted
      /\ \A i \in found.missing : pam[i].copies = 0
      /\ ~found.error =>
            /\ found.exact + Cardinality(found.missing) = Cardinality(Wanted)
            /\ \A i \in Wanted \ found.missing : pam[i].copies = 1
  BY <1>2, TypedFacts, ReconcileFacts
<1>4. Cardinality(Wanted) = command.report.desired
  BY TypedFacts, WantedIsFinite DEF Wanted
<1>5. found.missing \in SUBSET Planned /\ Cardinality(found.missing) \in Nat
  BY <1>2, <1>3, PlannedIsFinite
<1> HIDE DEF found
<1>6. /\ report \in Reports
      /\ report.existing = found.exact /\ report.pending = Cardinality(found.missing)
      /\ report.desired = command.report.desired /\ report.created = command.report.created
  BY <1>3, <1>5, TypedFacts, ListedFacts
<1>7. command.report.created = 0
  <2>1. command.missing = {} /\ command.report.created = Cardinality(command.missing \ command.left)
    BY <1>1 DEF InventoryInv, ReportAgrees
  <2>2. command.missing \ command.left = {} BY <2>1
  <2> QED BY <2>1, <2>2, FS_EmptySet
<1> HIDE DEF report
<1>8. /\ command' \in Commands
      /\ command'.at = at /\ command'.failed = failed
      /\ command'.missing = found.missing /\ command'.left = found.missing
      /\ command'.report = report /\ command'.execute = command.execute
  <2>1. c \in Commands BY <1>2, <1>5, <1>6 DEF Commands
  <2>2. c.missing = found.missing /\ c.left = found.missing /\ c.report = report
        /\ c.execute = command.execute /\ c.failed = command.failed
    BY <1>2 DEF Commands
  <2> HIDE DEF c
  <2>3. "idle" \in Positions /\ "importing" \in Positions BY DEF Positions
  <2>4. found.error \in Flags BY <1>3 DEF Flags
  <2>5. CASE stops
    <3>1. command' = [c EXCEPT !.at = "idle", !.failed = found.error] BY <1>1, <2>5
    <3> QED BY <2>1, <2>2, <2>3, <2>4, <2>5, <3>1 DEF Commands
  <2>6. CASE ~stops
    <3>1. command' = [c EXCEPT !.at = "importing"] BY <1>1, <2>6
    <3> QED BY <2>1, <2>2, <2>3, <2>6, <3>1 DEF Commands
  <2> QED BY <2>5, <2>6
<1>9. /\ at \in {"idle", "importing"}
      /\ at = "importing" => ~found.error
      /\ at = "idle" /\ command.execute /\ ~failed => ~found.error /\ found.missing = {}
  OBVIOUS
<1> HIDE DEF end, c, at, failed, stops
<1>10. Wanted' = Wanted BY <1>6, <1>8 DEF Wanted
<1>11. Typed' BY <1>1, <1>3, <1>8, <1>10, TypedFacts DEF Typed, InventoryInv
<1>12. ReportAgrees'
  <2>1. command'.missing \ command'.left = {} BY <1>8
  <2>2. command'.report.created = Cardinality(command'.missing \ command'.left)
    BY <1>6, <1>7, <1>8, <2>1, FS_EmptySet
  <2>3. command'.at # "listing" BY <1>8, <1>9
  <2>4. Underway' => ~found.error /\ (command'.at = "idle" => found.missing = {})
    BY <1>8, <1>9 DEF Underway
  <2>5. Underway' => /\ command'.report.pending = Cardinality(command'.left)
                     /\ command'.report.existing + Cardinality(command'.missing) = command'.report.desired
    BY <1>3, <1>4, <1>6, <1>8, <2>4
  <2>6. Underway' => \A i \in Wanted' \ command'.left : pam'[i].copies > 0
    BY <1>1, <1>3, <1>8, <1>10, <2>4
  <2> QED BY <1>8, <2>1, <2>2, <2>3, <2>4, <2>5, <2>6 DEF ReportAgrees
<1>13. UnsentAreMissing'
  <2>1. command'.at = "importing" => Unsent' = found.missing BY <1>8 DEF Unsent
  <2>2. command'.at \in {"idle", "importing"} BY <1>8, <1>9
  <2> QED BY <1>1, <1>3, <2>1, <2>2 DEF UnsentAreMissing
<1> QED BY <1>1, <1>11, <1>12, <1>13 DEF InventoryInv, DoublesWereUnanswered

-----------------------------------------------------------------------------
(* The command                                                             *)

(* NoCommand with one that runs.                                           *)
LEMMA NoCommandFacts ==
    /\ NoCommand \in Commands /\ NoReport \in Reports
    /\ NoCommand.at = "idle" /\ NoCommand.missing = {} /\ NoCommand.left = {}
    /\ NoCommand.report = NoReport
    /\ NoReport.desired = 0 /\ NoReport.created = 0
<1>1. PICK no : no = FALSE BY Zenon
<1>2. no \in Flags BY <1>1 DEF Flags
<1>3. NoReport \in Reports /\ NoReport.desired = 0 /\ NoReport.created = 0
  BY DEF NoReport, Reports
<1>4. NoCommand = [at |-> "idle", runs |-> 0, execute |-> no, failed |-> no, attempt |-> 0,
                   missing |-> {}, left |-> {}, report |-> NoReport]
  BY <1>1 DEF NoCommand
<1>5. "idle" \in Positions BY DEF Positions
<1>6. NoCommand \in Commands BY <1>2, <1>3, <1>4, <1>5 DEF Commands
<1> QED BY <1>3, <1>4, <1>6

(* Apply starts with a report of nothing but what is desired.              *)
LEMMA ApplyKeeps ==
    ASSUME InventoryInv, Apply
    PROVE  InventoryInv'
<1>1. PICK execute \in Flags, limit \in Planned :
         command' = [NoCommand EXCEPT !.at = "listing", !.runs = command.runs + 1,
                        !.execute = execute, !.report = [NoReport EXCEPT !.desired = limit]]
  BY Zenon DEF Apply, Flags
<1>2. UNCHANGED <<pam, late, unanswered>> BY DEF Apply
<1>3. limit \in Nat /\ 1..limit \subseteq Planned BY LimitIsPlanned
<1> DEFINE report == [NoReport EXCEPT !.desired = limit]
<1>4. report \in Reports /\ report.desired = limit /\ report.created = 0
  BY <1>3, NoCommandFacts DEF Reports
<1>5. command.runs + 1 \in Nat /\ "listing" \in Positions BY TypedFacts DEF Positions
<1>6. command' = [NoCommand EXCEPT !.at = "listing", !.runs = command.runs + 1,
                     !.execute = execute, !.report = report]
  BY <1>1
<1> HIDE DEF report
<1>7. /\ command' \in Commands /\ command'.at = "listing"
      /\ command'.missing = {} /\ command'.left = {} /\ command'.report = report
  BY <1>4, <1>5, <1>6, NoCommandFacts DEF Commands
<1>8. Wanted' = 1..limit BY <1>4, <1>7 DEF Wanted
<1>9. Typed' BY <1>2, <1>3, <1>7, <1>8, TypedFacts DEF Typed
<1>10. ReportAgrees'
  <2>1. command'.missing \ command'.left = {} BY <1>7
  <2> QED BY <1>4, <1>7, <2>1, FS_EmptySet DEF ReportAgrees, Underway
<1>11. UnsentAreMissing' BY <1>7 DEF UnsentAreMissing
<1> QED BY <1>2, <1>9, <1>10, <1>11 DEF InventoryInv, DoublesWereUnanswered

(* Making a plan touches no asset.                                         *)
LEMMA MakePlanKeeps ==
    ASSUME InventoryInv, MakePlan
    PROVE  InventoryInv'
<1>1. PICK at \in {"planned", "refused"} : command' = [command EXCEPT !.at = at]
  BY DEF MakePlan
<1>2. UNCHANGED <<pam, late, unanswered>> BY DEF MakePlan
<1>3. MovesTo(at, command.failed, command.attempt, command.missing, command.left, command.report)
  <2>1. command \in Commands /\ at \in Positions BY TypedFacts DEF Positions
  <2> QED BY <1>1, <2>1 DEF Commands, MovesTo
<1>4. Wanted' = Wanted BY <1>3 DEF Wanted, MovesTo
<1>5. Typed' BY <1>2, <1>3, <1>4 DEF Typed, MovesTo, InventoryInv
<1>6. ~Underway' /\ at # "listing" BY <1>3 DEF Underway, MovesTo
<1>7. ReportAgrees' BY <1>2, <1>3, <1>6 DEF ReportAgrees, MovesTo, InventoryInv
<1>8. UnsentAreMissing' BY <1>3 DEF UnsentAreMissing, MovesTo
<1> QED BY <1>2, <1>5, <1>7, <1>8 DEF InventoryInv, DoublesWereUnanswered

(* What the PAM has at first was not sent by this command.                 *)
LEMMA InventoryStarts ==
    ASSUME InventoryInit
    PROVE  InventoryInv
<1>1. command = NoCommand /\ late = {} /\ unanswered = {} BY DEF InventoryInit
<1>2. pam \in [Planned -> [copies: 0..1, foreign: {"none", "name", "address"}]]
  BY DEF InventoryInit
<1>3. pam \in [Planned -> Records] /\ \A i \in Planned : ~(pam[i].copies > 1)
  <2>1. \A i \in Planned : pam[i] \in Records /\ pam[i].copies \in 0..1 BY <1>2 DEF Records
  <2> QED BY <1>2, <2>1
<1>4. Wanted = 1..0 BY <1>1, NoCommandFacts DEF Wanted
<1>5. Wanted = {} BY <1>4
<1>6. Typed BY <1>1, <1>3, <1>5, NoCommandFacts DEF Typed
<1>7. ReportAgrees
  <2>1. command.missing \ command.left = {} BY <1>1, NoCommandFacts
  <2>2. ~Underway BY <1>1, NoCommandFacts DEF Underway, NoCommand
  <2> QED BY <1>1, <2>1, <2>2, NoCommandFacts, FS_EmptySet DEF ReportAgrees
<1>8. UnsentAreMissing BY <1>1, NoCommandFacts DEF UnsentAreMissing
<1> QED BY <1>3, <1>6, <1>7, <1>8 DEF InventoryInv, DoublesWereUnanswered

(* Each step of the command or of the PAM keeps the invariant.             *)
LEMMA InventoryStep ==
    ASSUME InventoryInv, [InventoryNext]_inventoryVars
    PROVE  InventoryInv'
<1>1. CASE InventoryNext
  BY <1>1, MakePlanKeeps, ApplyKeeps, FirstListingKeeps, ListingFailsKeeps, ImportAnsweredKeeps,
     ImportRejectedKeeps, ImportUnansweredKeeps, CarriedOutLateKeeps, CheckKeeps
  DEF InventoryNext
<1>2. CASE UNCHANGED inventoryVars
  BY <1>2 DEF inventoryVars, InventoryInv, Typed, Wanted, DoublesWereUnanswered, ReportAgrees,
     Underway, UnsentAreMissing, Unsent, Batch
<1> QED BY <1>1, <1>2

(* The inductive invariant: at every point of Apply what is not left to    *)
(* import is in the PAM, and what may be there without the command knowing *)
(* was sent in an import without an answer.                                *)
THEOREM InventoryIsInductive == InventorySpec => []InventoryInv
<1>1. InventoryInit => InventoryInv BY InventoryStarts
<1>2. InventoryInv /\ [InventoryNext]_inventoryVars => InventoryInv' BY InventoryStep
<1> QED BY <1>1, <1>2, PTL DEF InventorySpec

(* The report of inventory apply is so: what it created is in the PAM, a   *)
(* run that ends without an error leaves every asset it was asked for in   *)
(* the PAM, and no import that was answered makes an asset twice.          *)
THEOREM ReportsAreTrue == InventorySpec => []ReportIsTrue
<1>1. InventoryInv => ReportIsTrue
  <2> SUFFICES ASSUME InventoryInv PROVE ReportIsTrue OBVIOUS
  <2>1. ASSUME command.at = "idle", command.execute, ~command.failed
        PROVE  /\ command.report.pending = 0
               /\ command.report.existing + command.report.created = command.report.desired
               /\ \A i \in Wanted : pam[i].copies > 0
    <3>1. /\ command.report.created = Cardinality(command.missing \ command.left)
          /\ command.report.pending = Cardinality(command.left)
          /\ command.report.existing + Cardinality(command.missing) = command.report.desired
          /\ \A i \in Wanted \ command.left : pam[i].copies > 0
          /\ command.left = {}
      BY <2>1 DEF InventoryInv, ReportAgrees, Underway
    <3>2. command.missing \ command.left = command.missing BY <3>1
    <3> QED BY <3>1, <3>2, FS_EmptySet
  <2>2. /\ command.report.created = Cardinality(command.missing \ command.left)
        /\ \A i \in command.missing \ command.left : pam[i].copies > 0
    BY DEF InventoryInv, ReportAgrees
  <2> QED BY <2>1, <2>2 DEF ReportIsTrue, Wanted, InventoryInv, DoublesWereUnanswered
<1> QED BY <1>1, InventoryIsInductive, PTL

-----------------------------------------------------------------------------
(* Numbers                                                                 *)

(* Some numbers have a smallest one.                                       *)
LEMMA Smallest ==
    ASSUME NEW T, T \subseteq Nat, T # {}
    PROVE  \E x \in T : \A y \in T : x <= y
<1> DEFINE R == OpToRel(<, Nat)
<1>1. IsWellFoundedOn(R, Nat) BY NatLessThanWellFounded, Zenon
<1>2. \A x, y \in Nat : x < y => <<x, y>> \in R BY DEF OpToRel
<1> HIDE DEF R
<1>3. PICK x \in T : \A y \in T : ~ (<<y, x>> \in R) BY <1>1, WFMin
<1>4. x \in Nat BY <1>3
<1>5. ASSUME NEW y \in T PROVE x <= y
  <2>1. y \in Nat /\ ~(<<y, x>> \in R) BY <1>3, <1>5
  <2>2. ~(y < x) BY <1>2, <1>4, <2>1
  <2> QED BY <1>4, <2>1, <2>2
<1> QED BY <1>3, <1>5

(* What holds of 0, and of a number when it holds of the one before.       *)
LEMMA OneAfterTheOther ==
    ASSUME NEW N \in Nat, NEW A, 0 \in A, \A n \in 1..N : n - 1 \in A => n \in A
    PROVE  0..N \subseteq A
<1> DEFINE T == {n \in 0..N : n \notin A}
<1> SUFFICES ASSUME T # {} PROVE FALSE OBVIOUS
<1>1. T \subseteq Nat OBVIOUS
<1>2. PICK x \in T : \A y \in T : x <= y BY <1>1, Smallest
<1>3. x \in 1..N BY <1>2
<1>4. x - 1 \in 0..N BY <1>3
<1>5. x - 1 \notin T BY <1>2, <1>3
<1>6. x - 1 \in A BY <1>4, <1>5
<1> QED BY <1>2, <1>3, <1>6

(* Taking the step g n times from s.                                       *)
AreSteps(f, n, S, s, g) ==
    f \in [0..n -> S] /\ f[0] = s /\ \A t \in 1..n : f[t] = g[f[t - 1]]

(* They can be taken, however many they are.                               *)
LEMMA StepsExist ==
    ASSUME NEW S, NEW s \in S, NEW g \in [S -> S], NEW N \in Nat
    PROVE  \E f : AreSteps(f, N, S, s, g)
<1> DEFINE Turns(n, f) == AreSteps(f, n, S, s, g)
           A == {n \in 0..N : \E f : Turns(n, f)}
<1>1. 0 \in A
  <2> DEFINE f == [t \in 0..0 |-> s]
  <2>1. Turns(0, f) BY DEF AreSteps
  <2> HIDE DEF f, Turns
  <2> QED BY <2>1
<1>2. ASSUME NEW n \in 1..N, n - 1 \in A PROVE n \in A
  <2>1. PICK f : Turns(n - 1, f) BY <1>2
  <2> DEFINE h == [t \in 0..n |-> IF t = n THEN g[f[n - 1]] ELSE f[t]]
  <2>2. n - 1 \in 0..(n - 1) /\ f[n - 1] \in S BY <2>1 DEF AreSteps
  <2>3. g[f[n - 1]] \in S BY <2>2
  <2>4. h \in [0..n -> S] BY <2>1, <2>3 DEF AreSteps
  <2>5. h[0] = s BY <2>1 DEF AreSteps
  <2>6. ASSUME NEW t \in 1..n PROVE h[t] = g[h[t - 1]]
    <3>1. t - 1 \in 0..n /\ t - 1 # n BY <2>6
    <3>2. h[t - 1] = f[t - 1] BY <3>1
    <3>3. CASE t = n BY <3>2, <3>3
    <3>4. CASE t # n
      <4>1. t \in 1..(n - 1) BY <3>4
      <4> QED BY <2>1, <3>2, <4>1 DEF AreSteps
    <3> QED BY <3>3, <3>4
  <2>7. Turns(n, h) BY <2>4, <2>5, <2>6 DEF AreSteps
  <2> HIDE DEF h, Turns
  <2> QED BY <2>7
<1> HIDE DEF A
<1>3. 0..N \subseteq A BY <1>1, <1>2, OneAfterTheOther
<1>4. N \in A BY <1>3
<1> QED BY <1>4 DEF A

(* Round the table of the agents.                                          *)
LEMMA Remainders ==
    ASSUME NEW n \in Nat \ {0}, NEW x \in Nat
    PROVE  /\ x % n \in 0..(n - 1)
           /\ x < n => x % n = x /\ (x + n) % n = x
<1>1. x % n \in 0..(n - 1) OBVIOUS
<1>2. ASSUME x < n PROVE x % n = x BY <1>2
<1>3. ASSUME x < n PROVE (x + n) % n = x BY <1>3
<1> QED BY <1>1, <1>2, <1>3

-----------------------------------------------------------------------------
(* Dealing                                                                 *)

AgentRecords ==
    [Capacity: Nat, DirectCapacity: Nat, BrowserCapacity: Nat, DirectProtocols: SUBSET Protocols]

AList(seq) == Len(seq) \in Nat /\ DOMAIN seq = 1..Len(seq)

AreAgents(agents) == AList(agents) /\ \A k \in DOMAIN agents : agents[k] \in AgentRecords

Deals(jobs, agents) ==
    [left: SUBSET DOMAIN jobs, cursor: Nat, parts: [DOMAIN agents -> SUBSET DOMAIN jobs]]

(* A job that is not left has one agent, and each agent its limits.        *)
IsDealt(jobs, agents, deal) ==
    /\ deal \in Deals(jobs, agents)
    /\ \A n \in DOMAIN jobs : n \notin deal.left =>
          \E k \in DOMAIN agents : \A l \in DOMAIN agents : n \in deal.parts[l] <=> l = k
    /\ \A n \in deal.left, k \in DOMAIN agents : n \notin deal.parts[k]
    /\ \A k \in DOMAIN agents : WithinLimits(jobs, deal.parts[k], agents[k])

(* Nobody may take the next job.                                           *)
Stuck(jobs, agents, deal) ==
    /\ deal.left # {}
    /\ \A k \in DOMAIN agents :
          ~MayTake(agents[k], jobs, deal.parts[k], NextJob(jobs, agents, deal.left))

(* The sets of jobs that are dealt are finite.                             *)
LEMMA PartsAreFinite ==
    ASSUME NEW jobs, AList(jobs)
    PROVE  \A part \in SUBSET DOMAIN jobs :
              /\ IsFiniteSet(part) /\ Cardinality(part) \in Nat
              /\ \A mode : /\ IsFiniteSet(OfMode(jobs, part, mode))
                           /\ Cardinality(OfMode(jobs, part, mode)) \in Nat
<1>1. IsFiniteSet(DOMAIN jobs)
  <2>1. PICK N : N = Len(jobs) OBVIOUS
  <2>2. 1 \in Int /\ N \in Int /\ DOMAIN jobs = 1..N BY <2>1 DEF AList
  <2> QED BY <2>2, FS_Interval
<1>2. \A part \in SUBSET DOMAIN jobs : IsFiniteSet(part) /\ Cardinality(part) \in Nat
  BY <1>1, FS_Subset, FS_CardinalityType
<1>3. \A part \in SUBSET DOMAIN jobs : \A mode : OfMode(jobs, part, mode) \in SUBSET DOMAIN jobs
  BY DEF OfMode
<1> QED BY <1>2, <1>3

(* What the jobs are sorted by is a number.                                *)
LEMMA RankIsNat ==
    ASSUME NEW jobs, NEW agents, AList(agents), NEW n
    PROVE  Rank(jobs, agents, n) \in Nat
<1>1. IsFiniteSet(DOMAIN agents)
  <2>1. PICK N : N = Len(agents) OBVIOUS
  <2>2. 1 \in Int /\ N \in Int /\ DOMAIN agents = 1..N BY <2>1 DEF AList
  <2> QED BY <2>2, FS_Interval
<1>2. \A p : supportingAgentCount(agents, p) \in Nat
  BY <1>1, FS_Subset, FS_CardinalityType DEF supportingAgentCount
<1> QED BY <1>2 DEF Rank, AList

(* There is a next job while any is left.                                  *)
LEMMA NextJobIsLeft ==
    ASSUME NEW jobs, AList(jobs), NEW agents, AList(agents),
           NEW left \in SUBSET DOMAIN jobs, left # {}
    PROVE  NextJob(jobs, agents, left) \in left
<1> DEFINE rank(n) == Rank(jobs, agents, n)
<1>1. \A n : rank(n) \in Nat BY RankIsNat
<1>2. left \subseteq Nat BY DEF AList
<1> HIDE DEF rank
<1> DEFINE ranks == {rank(n) : n \in left}
<1>3. ranks \subseteq Nat /\ ranks # {} BY <1>1
<1>4. PICK r \in ranks : \A s \in ranks : r <= s
  <2> HIDE DEF ranks
  <2> QED BY <1>3, Smallest
<1> DEFINE best == {n \in left : rank(n) = r}
<1>5. best \subseteq Nat /\ best # {} BY <1>2
<1>6. PICK n \in best : \A m \in best : n <= m
  <2> HIDE DEF best
  <2> QED BY <1>5, Smallest
<1>7. \A m \in left : rank(n) < rank(m) \/ (rank(n) = rank(m) /\ n <= m)
  <2> TAKE m \in left
  <2>1. rank(n) = r /\ r <= rank(m) /\ rank(n) \in Nat /\ rank(m) \in Nat BY <1>1, <1>4, <1>6
  <2>2. CASE rank(m) = r BY <1>6, <2>1, <2>2
  <2>3. CASE rank(m) # r
    <3>1. PICK a \in Nat, b \in Nat : a = rank(n) /\ b = rank(m) BY <2>1
    <3>2. a <= b /\ a # b BY <2>1, <2>3, <3>1
    <3>3. a < b BY <3>2
    <3> QED BY <3>1, <3>3
  <2> QED BY <2>2, <2>3
<1>8. n \in left BY <1>6
<1>9. \E m \in left : \A l \in left :
         \/ Rank(jobs, agents, m) < Rank(jobs, agents, l)
         \/ Rank(jobs, agents, m) = Rank(jobs, agents, l) /\ m <= l
  BY <1>7, <1>8 DEF rank
<1> QED BY <1>9, Zenon DEF NextJob

(* An agent that may take a job stays within its limits when it does.      *)
LEMMA TakingKeepsLimits ==
    ASSUME NEW jobs, AList(jobs), NEW agent \in AgentRecords,
           NEW part \in SUBSET DOMAIN jobs, WithinLimits(jobs, part, agent),
           NEW n \in DOMAIN jobs, n \notin part, MayTake(agent, jobs, part, n)
    PROVE  WithinLimits(jobs, part \cup {n}, agent)
<1> DEFINE Many(mode) == Cardinality(OfMode(jobs, part, mode))
           Now(mode) == Cardinality(OfMode(jobs, part \cup {n}, mode))
<1>1. IsFiniteSet(part) /\ Cardinality(part) \in Nat
      /\ \A mode : IsFiniteSet(OfMode(jobs, part, mode)) /\ Many(mode) \in Nat
  BY PartsAreFinite
<1>2. agent.Capacity \in Nat /\ agent.DirectCapacity \in Nat /\ agent.BrowserCapacity \in Nat
  BY DEF AgentRecords
<1>3. Cardinality(part \cup {n}) <= agent.Capacity
  <2>1. Cardinality(part \cup {n}) = Cardinality(part) + 1 BY <1>1, FS_AddElement
  <2>2. Cardinality(part) < agent.Capacity BY DEF MayTake
  <2> QED BY <1>1, <1>2, <2>1, <2>2
<1>4. ASSUME NEW mode
      PROVE  Now(mode) = IF jobs[n].mode = mode THEN Many(mode) + 1 ELSE Many(mode)
  <2>1. CASE jobs[n].mode = mode
    <3>1. OfMode(jobs, part \cup {n}, mode) = OfMode(jobs, part, mode) \cup {n}
      BY <2>1 DEF OfMode
    <3>2. n \notin OfMode(jobs, part, mode) BY DEF OfMode
    <3>3. Cardinality(OfMode(jobs, part, mode) \cup {n}) = Many(mode) + 1
      BY <1>1, <3>2, FS_AddElement
    <3> QED BY <2>1, <3>1, <3>3
  <2>2. CASE jobs[n].mode # mode
    <3>1. OfMode(jobs, part \cup {n}, mode) = OfMode(jobs, part, mode) BY <2>2 DEF OfMode
    <3> QED BY <2>2, <3>1
  <2> QED BY <2>1, <2>2
<1>5. Many("browser") <= agent.BrowserCapacity /\ Many("direct") <= agent.DirectCapacity
  BY DEF WithinLimits
<1>6. /\ jobs[n].mode = "browser" => Many("browser") < agent.BrowserCapacity
      /\ jobs[n].mode = "direct" => Many("direct") < agent.DirectCapacity
  BY DEF MayTake
<1>7. \A i \in OfMode(jobs, part \cup {n}, "direct") : jobs[i].protocol \in agent.DirectProtocols
  BY DEF WithinLimits, MayTake, OfMode
<1>8. Many("browser") \in Nat /\ Many("direct") \in Nat
      /\ Now("browser") = (IF jobs[n].mode = "browser" THEN Many("browser") + 1 ELSE Many("browser"))
      /\ Now("direct") = (IF jobs[n].mode = "direct" THEN Many("direct") + 1 ELSE Many("direct"))
  BY <1>1, <1>4
<1>9. Now("browser") <= agent.BrowserCapacity /\ Now("direct") <= agent.DirectCapacity
  <2> HIDE DEF Many, Now
  <2> QED BY <1>2, <1>5, <1>6, <1>8
<1> QED BY <1>3, <1>7, <1>9 DEF WithinLimits

(* The agents are all asked, from the cursor on.                           *)
LEMMA EveryAgentIsAsked ==
    ASSUME NEW n \in Nat \ {0}, NEW cursor \in 0..(n - 1), NEW k \in 1..n
    PROVE  \E c \in 0..(n - 1) : 1 + ((cursor + c) % n) = k
<1>1. CASE cursor <= k - 1
  <2>1. (k - 1) - cursor \in 0..(n - 1) /\ cursor + ((k - 1) - cursor) = k - 1 BY <1>1
  <2>2. (k - 1) \in Nat /\ k - 1 < n OBVIOUS
  <2>3. (k - 1) % n = k - 1 BY <2>2, Remainders
  <2>4. PICK c \in 0..(n - 1) : cursor + c = k - 1 BY <2>1
  <2>5. 1 + ((cursor + c) % n) = k BY <2>3, <2>4
  <2> QED BY <2>5
<1>2. CASE k - 1 < cursor
  <2>1. ((k - 1) + n) - cursor \in 0..(n - 1)
        /\ cursor + (((k - 1) + n) - cursor) = (k - 1) + n
    BY <1>2
  <2>2. (k - 1) \in Nat /\ k - 1 < n OBVIOUS
  <2>3. ((k - 1) + n) % n = k - 1 BY <2>2, Remainders
  <2>4. PICK c \in 0..(n - 1) : cursor + c = (k - 1) + n BY <2>1
  <2>5. 1 + ((cursor + c) % n) = k BY <2>3, <2>4
  <2> QED BY <2>5
<1> QED BY <1>1, <1>2

(* The cursor is at an agent, if there is one.                             *)
CursorInRange(agents, deal) == Len(agents) > 0 => deal.cursor < Len(agents)

(* One turn: the next job goes to an agent that may take it, or nobody may *)
(* and nothing changes.                                                    *)
LEMMA AssignFacts ==
    ASSUME NEW jobs, AList(jobs), NEW agents, AreAgents(agents), NEW deal,
           IsDealt(jobs, agents, deal), CursorInRange(agents, deal), deal.left # {}
    PROVE  LET next == Assign(jobs, agents, deal)
           IN  /\ IsDealt(jobs, agents, next) /\ CursorInRange(agents, next)
               /\ \/ next = deal /\ Stuck(jobs, agents, deal)
                  \/ \E n \in deal.left : next.left = deal.left \ {n}
<1> DEFINE cursor == IF deal.left = OfMode(jobs, DOMAIN jobs, "browser") THEN 0 ELSE deal.cursor
           n == NextJob(jobs, agents, deal.left)
           At(checked) == 1 + ((cursor + checked) % Len(agents))
           takers == {c \in 0..(Len(agents) - 1) : MayTake(agents[At(c)], jobs, deal.parts[At(c)], n)}
           first == CHOOSE c \in takers : \A d \in takers : c <= d
           taker == At(first)
           next == [left |-> deal.left \ {n}, cursor |-> taker % Len(agents),
                    parts |-> [deal.parts EXCEPT ![taker] = @ \cup {n}]]
<1>1. Assign(jobs, agents, deal) = IF takers = {} THEN deal ELSE next
  BY DEF Assign
<1>2. Len(agents) \in Nat /\ DOMAIN agents = 1..Len(agents) BY DEF AreAgents, AList
<1>3. /\ deal.left \in SUBSET DOMAIN jobs /\ deal.cursor \in Nat
      /\ deal.parts \in [DOMAIN agents -> SUBSET DOMAIN jobs]
  BY DEF IsDealt, Deals
<1>4. n \in deal.left BY <1>3, NextJobIsLeft DEF AreAgents
<1>5. cursor \in Nat /\ (Len(agents) > 0 => cursor \in 0..(Len(agents) - 1))
  BY <1>2, <1>3 DEF CursorInRange
<1> HIDE DEF n, cursor
<1>6. CASE takers = {}
  <2>1. Stuck(jobs, agents, deal)
    <3>1. ASSUME NEW k \in DOMAIN agents
          PROVE  ~MayTake(agents[k], jobs, deal.parts[k], n)
      <4>1. Len(agents) \in Nat \ {0} /\ k \in 1..Len(agents) BY <1>2
      <4>2. cursor \in 0..(Len(agents) - 1) BY <1>5, <4>1
      <4>3. PICK c \in 0..(Len(agents) - 1) : 1 + ((cursor + c) % Len(agents)) = k
        BY <4>1, <4>2, EveryAgentIsAsked
      <4>4. c \notin takers BY <1>6
      <4>5. At(c) = k BY <4>3
      <4> HIDE DEF At
      <4> QED BY <4>3, <4>4, <4>5
    <3> QED BY <3>1 DEF Stuck, n
  <2> QED BY <1>1, <1>6, <2>1
<1>7. CASE takers # {}
  <2>1. takers \subseteq Nat BY <1>2
  <2>2. first \in takers
    <3> HIDE DEF takers
    <3>1. \E c \in takers : \A d \in takers : c <= d BY <1>7, <2>1, Smallest
    <3> QED BY <3>1
  <2>3. first \in 0..(Len(agents) - 1)
        /\ MayTake(agents[taker], jobs, deal.parts[taker], n)
    <3>1. \A c \in takers : c \in 0..(Len(agents) - 1)
                             /\ MayTake(agents[At(c)], jobs, deal.parts[At(c)], n)
      OBVIOUS
    <3> HIDE DEF first, takers, At
    <3> QED BY <2>2, <3>1
  <2> HIDE DEF first, takers
  <2>4. Len(agents) \in Nat \ {0} BY <1>2, <2>3
  <2>5. taker \in 1..Len(agents)
    <3>1. cursor + first \in Nat BY <1>5, <2>3
    <3>2. (cursor + first) % Len(agents) \in 0..(Len(agents) - 1) BY <2>4, <3>1, Remainders
    <3> QED BY <2>4, <3>2
  <2> HIDE DEF taker
  <2>6. taker % Len(agents) \in 0..(Len(agents) - 1)
    <3>1. taker \in Nat BY <2>4, <2>5
    <3> QED BY <2>4, <3>1, Remainders
  <2>7. taker \in DOMAIN agents /\ n \in DOMAIN jobs BY <1>2, <1>3, <1>4, <2>5
  <2>8. /\ next.left = deal.left \ {n} /\ next.cursor = taker % Len(agents)
        /\ next.parts = [deal.parts EXCEPT ![taker] = @ \cup {n}]
    OBVIOUS
  <2>9. next.parts \in [DOMAIN agents -> SUBSET DOMAIN jobs]
        /\ \A k \in DOMAIN agents :
              next.parts[k] = IF k = taker THEN deal.parts[k] \cup {n} ELSE deal.parts[k]
    BY <1>3, <2>7, <2>8
  <2>10. next \in Deals(jobs, agents)
    <3>1. next.cursor \in Nat /\ next.left \in SUBSET DOMAIN jobs BY <1>3, <2>6, <2>8
    <3> QED BY <2>9, <3>1 DEF Deals
  <2> HIDE DEF next
  <2>11. \A i \in deal.left, k \in DOMAIN agents : i \notin deal.parts[k]
    BY DEF IsDealt
  <2>12. ASSUME NEW i \in DOMAIN jobs, i \notin next.left
         PROVE  \E k \in DOMAIN agents : \A l \in DOMAIN agents : i \in next.parts[l] <=> l = k
    <3>1. CASE i = n
      <4>1. \A l \in DOMAIN agents : i \in next.parts[l] <=> l = taker
        BY <1>4, <2>9, <2>11, <3>1
      <4> QED BY <2>7, <4>1
    <3>2. CASE i # n
      <4>1. i \notin deal.left BY <2>8, <2>12, <3>2
      <4>2. PICK k \in DOMAIN agents : \A l \in DOMAIN agents : i \in deal.parts[l] <=> l = k
        BY <4>1 DEF IsDealt
      <4>3. \A l \in DOMAIN agents : i \in next.parts[l] <=> i \in deal.parts[l]
        BY <2>9, <3>2
      <4> QED BY <4>2, <4>3
    <3> QED BY <3>1, <3>2
  <2>13. \A i \in next.left, k \in DOMAIN agents : i \notin next.parts[k]
    BY <2>8, <2>9, <2>11
  <2>14. ASSUME NEW k \in DOMAIN agents
         PROVE  WithinLimits(jobs, next.parts[k], agents[k])
    <3>1. WithinLimits(jobs, deal.parts[k], agents[k]) BY DEF IsDealt
    <3>2. CASE k # taker BY <2>9, <3>1, <3>2
    <3>3. CASE k = taker
      <4>1. agents[k] \in AgentRecords /\ deal.parts[k] \in SUBSET DOMAIN jobs
        BY <1>3 DEF AreAgents
      <4>2. n \in DOMAIN jobs /\ n \notin deal.parts[k] BY <1>4, <2>7, <2>11
      <4>3. MayTake(agents[k], jobs, deal.parts[k], n) BY <2>3, <3>3
      <4>4. WithinLimits(jobs, deal.parts[k] \cup {n}, agents[k])
        BY <3>1, <4>1, <4>2, <4>3, TakingKeepsLimits
      <4> QED BY <2>9, <3>3, <4>4
    <3> QED BY <3>2, <3>3
  <2>15. IsDealt(jobs, agents, next) BY <2>10, <2>12, <2>13, <2>14 DEF IsDealt
  <2>16. CursorInRange(agents, next) BY <2>4, <2>6, <2>8 DEF CursorInRange
  <2>17. Assign(jobs, agents, deal) = next BY <1>1, <1>7
  <2> QED BY <1>4, <2>8, <2>15, <2>16, <2>17
<1> HIDE DEF takers
<1> QED BY <1>6, <1>7

(* Once nobody may take the next job, it is asked again and again.         *)
LEMMA StuckStays ==
    ASSUME NEW jobs, AList(jobs), NEW agents, AreAgents(agents), NEW deal,
           IsDealt(jobs, agents, deal), CursorInRange(agents, deal), Stuck(jobs, agents, deal)
    PROVE  Assign(jobs, agents, deal) = deal
<1> DEFINE cursor == IF deal.left = OfMode(jobs, DOMAIN jobs, "browser") THEN 0 ELSE deal.cursor
           n == NextJob(jobs, agents, deal.left)
           At(checked) == 1 + ((cursor + checked) % Len(agents))
           takers == {c \in 0..(Len(agents) - 1) : MayTake(agents[At(c)], jobs, deal.parts[At(c)], n)}
<1>1. takers = {} => Assign(jobs, agents, deal) = deal BY DEF Assign
<1>2. Len(agents) \in Nat /\ DOMAIN agents = 1..Len(agents) BY DEF AreAgents, AList
<1>3. cursor \in Nat BY DEF IsDealt, Deals
<1> HIDE DEF cursor, n
<1>4. ASSUME NEW c \in 0..(Len(agents) - 1)
      PROVE  ~MayTake(agents[At(c)], jobs, deal.parts[At(c)], n)
  <2>1. Len(agents) \in Nat \ {0} /\ cursor + c \in Nat BY <1>2, <1>3
  <2>2. (cursor + c) % Len(agents) \in 0..(Len(agents) - 1) BY <2>1, Remainders
  <2>3. At(c) \in DOMAIN agents
    <3>1. PICK v : v = (cursor + c) % Len(agents) OBVIOUS
    <3>2. PICK L \in Nat \ {0} : L = Len(agents) BY <2>1
    <3>3. v \in 0..(L - 1) BY <2>2, <3>1, <3>2
    <3>4. 1 + v \in 1..L BY <3>2, <3>3
    <3> QED BY <1>2, <3>1, <3>2, <3>4
  <2> HIDE DEF At
  <2> QED BY <2>3 DEF Stuck, n
<1>5. takers = {} BY <1>4
<1> QED BY <1>1, <1>5

(* The turns of Partition, as a function of the turns before.              *)
Start(jobs, agents) ==
    [left |-> DOMAIN jobs, cursor |-> 0, parts |-> [k \in DOMAIN agents |-> {}]]

Turns(deal, jobs, agents) ==
    [turn \in 0..Len(jobs) |->
        IF turn = 0 THEN Start(jobs, agents) ELSE Assign(jobs, agents, deal[turn - 1])]

(* Nothing is dealt at first.                                              *)
LEMMA StartIsDealt ==
    ASSUME NEW jobs, AList(jobs), NEW agents, AreAgents(agents)
    PROVE  /\ IsDealt(jobs, agents, Start(jobs, agents))
           /\ CursorInRange(agents, Start(jobs, agents))
           /\ Start(jobs, agents).left = DOMAIN jobs
<1> DEFINE deal == Start(jobs, agents)
           none == [k \in DOMAIN agents |-> {}]
<1>1. deal.left = DOMAIN jobs /\ deal.cursor = 0 /\ deal.parts = none
  BY DEF Start
<1>2. none \in [DOMAIN agents -> SUBSET DOMAIN jobs] /\ \A k \in DOMAIN agents : none[k] = {}
  OBVIOUS
<1>3. deal \in Deals(jobs, agents) BY <1>2 DEF Deals, Start
<1> HIDE DEF deal, none
<1>4. ASSUME NEW k \in DOMAIN agents PROVE WithinLimits(jobs, {}, agents[k])
  <2>1. agents[k] \in AgentRecords BY DEF AreAgents
  <2>2. agents[k].Capacity \in Nat /\ agents[k].DirectCapacity \in Nat
        /\ agents[k].BrowserCapacity \in Nat
    BY <2>1 DEF AgentRecords
  <2>3. OfMode(jobs, {}, "browser") = {} /\ OfMode(jobs, {}, "direct") = {} BY DEF OfMode
  <2>4. Cardinality({}) = 0 BY FS_EmptySet
  <2> QED BY <2>2, <2>3, <2>4 DEF WithinLimits
<1>5. IsDealt(jobs, agents, deal) BY <1>1, <1>2, <1>3, <1>4 DEF IsDealt
<1>6. CursorInRange(agents, deal) BY <1>1 DEF CursorInRange
<1> QED BY <1>1, <1>5, <1>6 DEF deal

(* After each turn one job less is left, or the dealing is stuck.          *)
LEMMA TurnsAreDealt ==
    ASSUME NEW jobs, AList(jobs), NEW agents, AreAgents(agents)
    PROVE  \E deal : /\ deal = Turns(deal, jobs, agents)
                     /\ \A turn \in 0..Len(jobs) :
                           /\ IsDealt(jobs, agents, deal[turn])
                           /\ \/ Stuck(jobs, agents, deal[turn])
                              \/ Cardinality(deal[turn].left) = Len(jobs) - turn
<1> DEFINE Sound(d) == IsDealt(jobs, agents, d) /\ CursorInRange(agents, d)
           S == {d \in Deals(jobs, agents) : Sound(d)}
           step(d) == IF d.left = {} THEN d ELSE Assign(jobs, agents, d)
           g == [d \in S |-> step(d)]
           s == Start(jobs, agents)
           N == Len(jobs)
<1>1. N \in Nat BY DEF AList
<1>2. \A d : d \in S <=> Sound(d) BY DEF IsDealt
<1>3. s \in S BY <1>2, StartIsDealt
<1>4. \A d \in S : step(d) \in S
  <2> TAKE d \in S
  <2>1. CASE d.left = {} BY <2>1
  <2>2. CASE d.left # {}
    <3>1. Sound(Assign(jobs, agents, d)) BY <1>2, <2>2, AssignFacts
    <3> QED BY <1>2, <2>2, <3>1
  <2> QED BY <2>1, <2>2
<1>5. g \in [S -> S] BY <1>4
<1> HIDE DEF S, g, s, N, step
<1>6. PICK f : f \in [0..N -> S] /\ f[0] = s /\ \A t \in 1..N : f[t] = g[f[t - 1]]
  <2>1. \E f : AreSteps(f, N, S, s, g) BY <1>1, <1>3, <1>5, StepsExist
  <2> QED BY <2>1 DEF AreSteps
<1>7. \A t \in 1..N : f[t] = step(f[t - 1])
  <2> TAKE t \in 1..N
  <2>1. t - 1 \in 0..N BY <1>1
  <2>2. f[t - 1] \in S BY <1>6, <2>1
  <2>3. f[t] = g[f[t - 1]] BY <1>6
  <2> QED BY <2>2, <2>3 DEF g
<1> DEFINE Counted(t) == Stuck(jobs, agents, f[t]) \/ Cardinality(f[t].left) = N - t
           A == {t \in 0..N : Counted(t)}
<1>8. 0 \in A
  <2>1. f[0].left = 1..N BY <1>6, StartIsDealt DEF s, AList, N
  <2>2. 1 \in Int /\ N \in Int BY <1>1
  <2>3. Cardinality(1..N) = IF 1 > N THEN 0 ELSE N - 1 + 1 BY <2>2, FS_Interval
  <2>4. Cardinality(f[0].left) = N - 0 BY <1>1, <2>1, <2>3
  <2> QED BY <1>1, <2>4
<1>9. ASSUME NEW t \in 0..N
      PROVE  /\ Sound(f[t])
             /\ IsFiniteSet(f[t].left) /\ Cardinality(f[t].left) \in Nat
             /\ Counted(t) /\ t < N => f[t].left # {}
  <2>1. Sound(f[t]) BY <1>2, <1>6
  <2>2. f[t].left \in SUBSET DOMAIN jobs BY <2>1 DEF IsDealt, Deals
  <2>3. IsFiniteSet(f[t].left) /\ Cardinality(f[t].left) \in Nat BY <2>2, PartsAreFinite
  <2>4. ASSUME Counted(t), t < N, f[t].left = {} PROVE FALSE
    <3>1. ~Stuck(jobs, agents, f[t]) BY <2>4 DEF Stuck
    <3>2. Cardinality(f[t].left) = N - t BY <2>4, <3>1
    <3>3. Cardinality(f[t].left) = 0 BY <2>4, FS_EmptySet
    <3> QED BY <1>1, <2>4, <3>2, <3>3
  <2> QED BY <2>1, <2>3, <2>4
<1>10. ASSUME NEW t \in 1..N, t - 1 \in A PROVE t \in A
  <2> DEFINE u == t - 1
  <2>1. u \in 0..N /\ u < N /\ u + 1 = t BY <1>1
  <2>2. Counted(u) BY <1>10
  <2> HIDE DEF u
  <2>3. Sound(f[u]) /\ f[u].left # {} /\ IsFiniteSet(f[u].left)
    BY <1>9, <2>1, <2>2
  <2>4. f[t] = Assign(jobs, agents, f[u]) BY <1>7, <2>3 DEF step, u
  <2>5. \/ f[t] = f[u] /\ Stuck(jobs, agents, f[u])
        \/ \E n \in f[u].left : f[t].left = f[u].left \ {n}
    BY <2>3, <2>4, AssignFacts
  <2>6. CASE f[t] = f[u] /\ Stuck(jobs, agents, f[u]) BY <2>6
  <2>7. ASSUME NEW n \in f[u].left, f[t].left = f[u].left \ {n} PROVE Counted(t)
    <3>1. CASE Stuck(jobs, agents, f[u])
      <4>1. f[t] = f[u]
        <5>1. NextJob(jobs, agents, f[u].left) = NextJob(jobs, agents, f[u].left) OBVIOUS
        <5> QED BY <2>3, <2>4, <3>1, StuckStays
      <4> QED BY <3>1, <4>1
    <3>2. CASE ~Stuck(jobs, agents, f[u])
      <4>1. Cardinality(f[u].left) = N - u BY <2>2, <3>2
      <4>2. Cardinality(f[u].left \ {n}) = Cardinality(f[u].left) - 1
        BY <2>3, <2>7, FS_RemoveElement
      <4>3. Cardinality(f[t].left) = N - t BY <1>1, <2>1, <2>7, <4>1, <4>2
      <4> QED BY <4>3
    <3> QED BY <3>1, <3>2
  <2>8. Counted(t) BY <2>5, <2>6, <2>7
  <2> QED BY <2>8
<1> HIDE DEF A
<1>11. 0..N \subseteq A BY <1>1, <1>8, <1>10, OneAfterTheOther
<1>12. f = Turns(f, jobs, agents)
  <2>1. DOMAIN f = 0..N BY <1>6
  <2>2. f[0] = Start(jobs, agents) BY <1>6 DEF s
  <2>3. ASSUME NEW t \in 1..N PROVE f[t] = Assign(jobs, agents, f[t - 1])
    <3>1. t - 1 \in 0..N /\ t - 1 < N /\ t - 1 \in A BY <1>1, <1>11
    <3>2. f[t - 1].left # {} BY <1>9, <3>1 DEF A
    <3> QED BY <1>7, <3>2 DEF step
  <2>4. \A t \in 0..N : f[t] = IF t = 0 THEN Start(jobs, agents) ELSE Assign(jobs, agents, f[t - 1])
    BY <2>2, <2>3
  <2>5. f = [t \in 0..N |-> f[t]] BY <1>6
  <2>6. f = [t \in 0..N |-> IF t = 0 THEN Start(jobs, agents) ELSE Assign(jobs, agents, f[t - 1])]
    BY <2>4, <2>5
  <2> QED BY <2>6 DEF Turns, N
<1> QED BY <1>9, <1>11, <1>12 DEF A, N

(* What is dealt, and why it may not be all.                               *)
LEMMA PartitionFacts ==
    ASSUME NEW jobs, AList(jobs), NEW agents, AreAgents(agents)
    PROVE  LET deal == Partition(jobs, agents)
           IN  /\ IsDealt(jobs, agents, deal)
               /\ deal.left = {} \/ Stuck(jobs, agents, deal)
<1> DEFINE deal == CHOOSE f : f = Turns(f, jobs, agents)
           N == Len(jobs)
<1>1. Partition(jobs, agents) = deal[N] BY Zenon DEF Partition, Turns, Start
<1>2. N \in Nat BY DEF AList
<1>3. \A f : f = Turns(f, jobs, agents) =>
        \A turn \in 1..N : f[turn] = Assign(jobs, agents, f[turn - 1])
  <2> TAKE f
  <2> HAVE f = Turns(f, jobs, agents)
  <2> TAKE turn \in 1..N
  <2>1. turn \in 0..Len(jobs) /\ turn # 0 BY <1>2
  <2>2. f[turn] = Turns(f, jobs, agents)[turn] OBVIOUS
  <2> QED BY <2>1, <2>2 DEF Turns
<1>4. \E f : f = Turns(f, jobs, agents) BY TurnsAreDealt
<1>5. deal = Turns(deal, jobs, agents) BY <1>4
<1> HIDE DEF deal
<1>6. PICK f : /\ f = Turns(f, jobs, agents)
               /\ \A turn \in 0..N :
                     /\ IsDealt(jobs, agents, f[turn])
                     /\ Stuck(jobs, agents, f[turn]) \/ Cardinality(f[turn].left) = N - turn
  BY TurnsAreDealt
<1> DEFINE A == {turn \in 0..N : deal[turn] = f[turn]}
<1>7. 0 \in A
  <2>1. 0 \in 0..Len(jobs) BY <1>2
  <2>2. deal[0] = Turns(deal, jobs, agents)[0] /\ f[0] = Turns(f, jobs, agents)[0] BY <1>5, <1>6
  <2> QED BY <2>1, <2>2 DEF Turns
<1>8. ASSUME NEW turn \in 1..N, turn - 1 \in A PROVE turn \in A
  <2>1. deal[turn] = Assign(jobs, agents, deal[turn - 1]) BY <1>3, <1>5
  <2>2. f[turn] = Assign(jobs, agents, f[turn - 1]) BY <1>3, <1>6
  <2>3. turn \in 0..N /\ deal[turn - 1] = f[turn - 1] BY <1>2, <1>8
  <2> QED BY <2>1, <2>2, <2>3
<1> HIDE DEF A
<1>9. 0..N \subseteq A BY <1>2, <1>7, <1>8, OneAfterTheOther
<1>10. N \in 0..N BY <1>2
<1>11. deal[N] = f[N] BY <1>9, <1>10 DEF A
<1>12. IsDealt(jobs, agents, deal[N])
       /\ (Stuck(jobs, agents, deal[N]) \/ Cardinality(deal[N].left) = N - N)
  BY <1>6, <1>10, <1>11
<1>13. IsFiniteSet(deal[N].left)
  <2>1. deal[N].left \in SUBSET DOMAIN jobs BY <1>12 DEF IsDealt, Deals
  <2> QED BY <2>1, PartsAreFinite
<1>14. Cardinality(deal[N].left) = N - N => deal[N].left = {}
  <2>1. N - N = 0 BY <1>2
  <2>2. Cardinality(deal[N].left) = 0 => deal[N].left = {} BY <1>13, FS_EmptySet
  <2> QED BY <2>1, <2>2
<1> QED BY <1>1, <1>12, <1>14

-----------------------------------------------------------------------------
(* Refusals                                                                *)

UpToPart(P, n) == UNION {P[k] : k \in 1..n}

(* Parts that are no larger cover no more than parts that are disjoint.    *)
LEMMA SmallerPartsCoverLess ==
    ASSUME NEW D, IsFiniteSet(D), NEW K \in Nat,
           NEW P \in [1..K -> SUBSET D], NEW Q \in [1..K -> SUBSET D],
           \A k \in 1..K : Cardinality(P[k]) <= Cardinality(Q[k]),
           \A k, l \in 1..K : k # l => Q[k] \cap Q[l] = {}
    PROVE  Cardinality(UpToPart(P, K)) <= Cardinality(UpToPart(Q, K))
<1> DEFINE A == {n \in 0..K : Cardinality(UpToPart(P, n)) <= Cardinality(UpToPart(Q, n))}
<1>1. \A S \in SUBSET D : IsFiniteSet(S) /\ Cardinality(S) \in Nat
  BY FS_Subset, FS_CardinalityType
<1>2. 0 \in A
  <2>1. 1..0 = {} OBVIOUS
  <2>2. UpToPart(P, 0) = {} /\ UpToPart(Q, 0) = {} BY <2>1 DEF UpToPart
  <2>3. Cardinality(UpToPart(P, 0)) = 0 /\ Cardinality(UpToPart(Q, 0)) = 0
    BY <2>2, FS_EmptySet
  <2> QED BY <2>3
<1>3. ASSUME NEW n \in 1..K, n - 1 \in A PROVE n \in A
  <2> DEFINE m == n - 1
             p == UpToPart(P, m)
             q == UpToPart(Q, m)
  <2>1. m \in 0..K /\ 1..n = 1..m \cup {n} /\ n \notin 1..m /\ 1..m \subseteq 1..K OBVIOUS
  <2>2. UpToPart(P, n) = p \cup P[n] /\ UpToPart(Q, n) = q \cup Q[n] BY <2>1 DEF UpToPart
  <2>3. p \in SUBSET D /\ q \in SUBSET D /\ P[n] \in SUBSET D /\ Q[n] \in SUBSET D
    BY <2>1 DEF UpToPart
  <2>4. q \cap Q[n] = {}
    <3>1. \A k \in 1..m : Q[k] \cap Q[n] = {} BY <2>1
    <3> QED BY <3>1 DEF UpToPart
  <2>5. Cardinality(p) <= Cardinality(q) BY <1>3
  <2> HIDE DEF p, q, m
  <2>6. Cardinality(p \cup P[n])
          = Cardinality(p) + Cardinality(P[n]) - Cardinality(p \cap P[n])
    BY <1>1, <2>3, FS_Union
  <2>7. Cardinality(q \cup Q[n])
          = Cardinality(q) + Cardinality(Q[n]) - Cardinality(q \cap Q[n])
    BY <1>1, <2>3, FS_Union
  <2>8. Cardinality(q \cap Q[n]) = 0 BY <2>4, FS_EmptySet
  <2>9. p \cap P[n] \in SUBSET D BY <2>3
  <2>10. PICK a \in Nat, b \in Nat, c \in Nat, d \in Nat, e \in Nat :
           /\ a = Cardinality(p) /\ b = Cardinality(P[n]) /\ c = Cardinality(p \cap P[n])
           /\ d = Cardinality(q) /\ e = Cardinality(Q[n])
    BY <1>1, <2>3, <2>9
  <2>11. a <= d /\ b <= e BY <2>5, <2>10
  <2>12. (a + b) - c <= d + e BY <2>11
  <2>13. Cardinality(UpToPart(P, n)) <= Cardinality(UpToPart(Q, n))
    BY <2>2, <2>6, <2>7, <2>8, <2>10, <2>12
  <2> QED BY <2>13
<1> HIDE DEF A
<1>4. 0..K \subseteq A BY <1>2, <1>3, OneAfterTheOther
<1> QED BY <1>4 DEF A

(* When agents do not differ and no job is in the browser, a dealing gets  *)
(* stuck only if there is none at all.                                     *)
LEMMA StuckForCause ==
    ASSUME NEW jobs, AList(jobs), \A n \in DOMAIN jobs : jobs[n].mode = "direct",
           NEW agents, AreAgents(agents),
           \A k, l \in DOMAIN agents : agents[k].DirectProtocols = agents[l].DirectProtocols,
           NEW deal, IsDealt(jobs, agents, deal), Stuck(jobs, agents, deal),
           NEW f \in [DOMAIN jobs -> DOMAIN agents],
           \A k \in DOMAIN agents : WithinLimits(jobs, {n \in DOMAIN jobs : f[n] = k}, agents[k])
    PROVE  FALSE
<1> DEFINE D == DOMAIN jobs
           K == Len(agents)
           j == NextJob(jobs, agents, deal.left)
           P == [k \in 1..K |-> {n \in D : f[n] = k}]
           Q == deal.parts
<1>1. K \in Nat /\ DOMAIN agents = 1..K BY DEF AreAgents, AList
<1>2. deal.left \in SUBSET D /\ Q \in [1..K -> SUBSET D] BY <1>1 DEF IsDealt, Deals
<1>3. j \in deal.left BY <1>2, NextJobIsLeft DEF Stuck, AreAgents
<1>4. IsFiniteSet(D) BY PartsAreFinite
<1>5. P \in [1..K -> SUBSET D] OBVIOUS
<1> HIDE DEF j
<1>6. \A k \in 1..K : jobs[j].protocol \in agents[k].DirectProtocols
  <2>1. f[j] \in DOMAIN agents /\ j \in D BY <1>2, <1>3
  <2>2. j \in OfMode(jobs, {n \in D : f[n] = f[j]}, "direct") BY <2>1 DEF OfMode
  <2>3. jobs[j].protocol \in agents[f[j]].DirectProtocols BY <2>1, <2>2 DEF WithinLimits
  <2> QED BY <1>1, <2>1, <2>3
<1>7. \A part \in SUBSET D : OfMode(jobs, part, "direct") = part BY DEF OfMode
<1>8. ASSUME NEW k \in 1..K PROVE Cardinality(P[k]) <= Cardinality(Q[k])
  <2>1. P[k] = {n \in D : f[n] = k} /\ P[k] \in SUBSET D /\ Q[k] \in SUBSET D BY <1>2
  <2>2. k \in DOMAIN agents BY <1>1
  <2>3. Cardinality(P[k]) <= agents[k].Capacity /\ Cardinality(P[k]) <= agents[k].DirectCapacity
    BY <1>7, <2>1, <2>2 DEF WithinLimits
  <2>4. ~MayTake(agents[k], jobs, Q[k], j) BY <2>2 DEF Stuck, j
  <2>5. jobs[j].mode = "direct" BY <1>2, <1>3
  <2>6. ~(Cardinality(Q[k]) < agents[k].Capacity /\ Cardinality(Q[k]) < agents[k].DirectCapacity)
    BY <1>6, <1>7, <2>1, <2>4, <2>5 DEF MayTake
  <2>7. Cardinality(P[k]) \in Nat /\ Cardinality(Q[k]) \in Nat BY <2>1, PartsAreFinite
  <2>8. agents[k].Capacity \in Nat /\ agents[k].DirectCapacity \in Nat
    BY <2>2 DEF AreAgents, AgentRecords
  <2> HIDE DEF P, Q
  <2> QED BY <2>3, <2>6, <2>7, <2>8
<1>9. \A k, l \in 1..K : k # l => Q[k] \cap Q[l] = {}
  <2> TAKE k, l \in 1..K
  <2> SUFFICES ASSUME k # l, NEW n \in Q[k], n \in Q[l] PROVE FALSE OBVIOUS
  <2>1. n \in D BY <1>2
  <2>2. n \notin deal.left BY <1>1 DEF IsDealt
  <2>3. PICK h \in DOMAIN agents : \A i \in DOMAIN agents : n \in Q[i] <=> i = h
    BY <2>1, <2>2 DEF IsDealt
  <2> QED BY <1>1, <2>3
<1>10. UpToPart(P, K) = D
  <2>1. \A n \in D : f[n] \in 1..K /\ n \in P[f[n]] BY <1>1
  <2> QED BY <1>5, <2>1 DEF UpToPart
<1>11. UpToPart(Q, K) \subseteq D \ deal.left
  BY <1>1, <1>2 DEF UpToPart, IsDealt
<1> HIDE DEF P, Q, D, K
<1>12. Cardinality(UpToPart(P, K)) <= Cardinality(UpToPart(Q, K))
  BY <1>1, <1>2, <1>4, <1>5, <1>8, <1>9, SmallerPartsCoverLess
<1>13. UpToPart(Q, K) \in SUBSET D BY <1>11
<1>14. Cardinality(UpToPart(Q, K)) <= Cardinality(D)
       /\ (Cardinality(D) = Cardinality(UpToPart(Q, K)) => D = UpToPart(Q, K))
       /\ Cardinality(D) \in Nat /\ Cardinality(UpToPart(Q, K)) \in Nat
  BY <1>4, <1>13, FS_Subset, FS_CardinalityType
<1>15. D = UpToPart(Q, K) BY <1>10, <1>12, <1>14
<1> QED BY <1>2, <1>3, <1>11, <1>15

-----------------------------------------------------------------------------
(* Binding                                                                 *)

(* How the places in a set of numbers are counted.                         *)
LEMMA PlaceFacts ==
    ASSUME NEW M \in Nat, NEW S \in SUBSET (1..M)
    PROVE  /\ IsFiniteSet(S) /\ Cardinality(S) \in Nat
           /\ \A n \in 0..M : Place(S, n) \in 0..Cardinality(S)
           /\ Place(S, 0) = 0 /\ Place(S, M) = Cardinality(S)
           /\ \A n \in 0..M, i \in S : n < i => Place(S, n) < Place(S, i)
<1> DEFINE Upto(n) == {i \in S : i <= n}
<1>1. \A n : Place(S, n) = Cardinality(Upto(n)) BY DEF Place
<1>2. IsFiniteSet(S)
  <2>1. 1 \in Int /\ M \in Int OBVIOUS
  <2>2. IsFiniteSet(1..M) BY <2>1, FS_Interval
  <2> QED BY <2>2, FS_Subset
<1>3. \A T \in SUBSET S : IsFiniteSet(T) /\ Cardinality(T) \in Nat /\ Cardinality(T) <= Cardinality(S)
  BY <1>2, FS_Subset, FS_CardinalityType
<1>4. Cardinality(S) \in Nat BY <1>2, FS_CardinalityType
<1>5. \A n \in 0..M : Place(S, n) \in 0..Cardinality(S)
  <2> TAKE n \in 0..M
  <2>1. Upto(n) \in SUBSET S OBVIOUS
  <2> HIDE DEF Upto
  <2>2. Cardinality(Upto(n)) \in Nat /\ Cardinality(Upto(n)) <= Cardinality(S) BY <1>3, <2>1
  <2> QED BY <1>1, <1>4, <2>2
<1>0. \A i \in S : i \in Nat /\ 1 <= i /\ i <= M OBVIOUS
<1>6. Upto(0) = {} /\ Upto(M) = S
  <2>1. \A i : i \notin Upto(0)
    <3>1. \A i \in S : ~(i <= 0) BY <1>0
    <3> QED BY <3>1, Zenon
  <2>2. \A i : i \in Upto(M) <=> i \in S BY <1>0
  <2> HIDE DEF Upto
  <2> QED BY <2>1, <2>2
<1>7. \A n \in 0..M, i \in S : n < i => Upto(n) \in SUBSET Upto(i) /\ i \in Upto(i) /\ i \notin Upto(n)
  <2> TAKE n \in 0..M, i \in S
  <2> HAVE n < i
  <2>1. \A j \in Upto(n) : j \in Upto(i) BY <1>0
  <2>2. i \in Upto(i) /\ i \notin Upto(n) BY <1>0
  <2> QED BY <2>1, <2>2
<1>8. \A n : Upto(n) \in SUBSET S OBVIOUS
<1> HIDE DEF Upto
<1>9. Place(S, 0) = 0 /\ Place(S, M) = Cardinality(S) BY <1>1, <1>6, FS_EmptySet
<1>10. ASSUME NEW n \in 0..M, NEW i \in S, n < i
       PROVE  Place(S, n) < Place(S, i)
  <2>1. Upto(n) \in SUBSET Upto(i) /\ Upto(n) # Upto(i) BY <1>7, <1>10
  <2>2. IsFiniteSet(Upto(i)) BY <1>3, <1>8
  <2>3. Cardinality(Upto(n)) <= Cardinality(Upto(i)) /\ Cardinality(Upto(n)) # Cardinality(Upto(i))
    BY <2>1, <2>2, FS_Subset
  <2>4. Cardinality(Upto(n)) \in Nat /\ Cardinality(Upto(i)) \in Nat BY <1>3, <1>8
  <2>5. Cardinality(Upto(n)) < Cardinality(Upto(i)) BY <2>3, <2>4
  <2> QED BY <1>1, <2>5
<1> QED BY <1>2, <1>4, <1>5, <1>9, <1>10

(* Each place of a set of numbers is taken by one of them.                 *)
LEMMA EveryPlaceIsTaken ==
    ASSUME NEW M \in Nat, NEW S \in SUBSET (1..M), NEW v \in 1..Cardinality(S)
    PROVE  \E i \in S : Place(S, i) = v
<1>1. Cardinality(S) \in Nat /\ Place(S, 0) = 0 /\ Place(S, M) = Cardinality(S)
      /\ \A n \in 0..M : Place(S, n) \in 0..Cardinality(S)
  BY PlaceFacts
<1> DEFINE T == {n \in 0..M : v <= Place(S, n)}
<1>2. T \subseteq Nat /\ M \in T BY <1>1
<1>3. PICK x \in T : \A y \in T : x <= y
  <2> HIDE DEF T
  <2> QED BY <1>2, Smallest
<1>4. x \in 1..M BY <1>1, <1>3
<1>0. \A i \in S : i \in Nat /\ 1 <= i /\ i <= M OBVIOUS
<1> DEFINE u == x - 1
<1>5. u \in 0..M /\ u < x BY <1>4
<1>6. u \notin T BY <1>3, <1>4
<1>7. Place(S, u) < v /\ v <= Place(S, x) BY <1>1, <1>3, <1>5, <1>6
<1>8. CASE x \in S
  <2>1. Place(S, x) = Place(S, u) + 1
    <3>1. {i \in S : i <= x} = {i \in S : i <= u} \cup {x}
      <4>1. \A i \in S : i <= x <=> (i <= u \/ i = x) BY <1>0, <1>4
      <4> HIDE DEF u
      <4> QED BY <1>8, <4>1, Zenon
    <3>2. x \notin {i \in S : i <= u} BY <1>4
    <3>3. IsFiniteSet({i \in S : i <= u})
      <4>1. IsFiniteSet(S) BY PlaceFacts
      <4> QED BY <4>1, FS_Subset
    <3> QED BY <3>1, <3>2, <3>3, FS_AddElement DEF Place
  <2>2. Place(S, x) \in Nat /\ Place(S, u) \in Nat BY <1>1, <1>4, <1>5
  <2>3. Place(S, x) = v BY <1>7, <2>1, <2>2
  <2> QED BY <1>8, <2>3
<1>9. CASE x \notin S
  <2>1. {i \in S : i <= x} = {i \in S : i <= u}
    <3>1. \A i \in S : i <= x <=> i <= u BY <1>0, <1>4, <1>9
    <3> HIDE DEF u
    <3> QED BY <3>1, Zenon
  <2>2. Place(S, x) = Place(S, u) BY <2>1 DEF Place
  <2>3. Place(S, u) \in Nat BY <1>1, <1>5
  <2> QED BY <1>7, <2>2, <2>3
<1> QED BY <1>8, <1>9

JobRecords == [protocol: Protocols, mode: Modes, asset: Nat]

AreJobs(jobs) == AList(jobs) /\ \A n \in DOMAIN jobs : jobs[n] \in JobRecords

(* Each job has an asset of its own, and of its protocol.                  *)
AreBound(jobs, m) ==
    /\ Unique(jobs, "asset")
    /\ \A n \in DOMAIN jobs : Normal(m[jobs[n].asset]).protocol = jobs[n].protocol

(* Where the asset of a job is in the shuffle.                             *)
PlaceOf(jobs, m, order, n) ==
    CHOOSE i \in Pool(m, order, jobs[n].protocol) :
        Place(Pool(m, order, jobs[n].protocol), i) = Place(OfProtocol(jobs, jobs[n].protocol), n)

(* The pool has a place for every job of its protocol.                     *)
LEMMA PlaceOfFacts ==
    ASSUME NEW jobs, AreJobs(jobs), NEW m, NEW M \in Nat, NEW order \in [1..M -> 1..M],
           PoolsSuffice(jobs, m, order), NEW n \in DOMAIN jobs
    PROVE  LET p == jobs[n].protocol
           IN  /\ PlaceOf(jobs, m, order, n) \in Pool(m, order, p)
               /\ Place(Pool(m, order, p), PlaceOf(jobs, m, order, n)) = Place(OfProtocol(jobs, p), n)
<1> DEFINE p == jobs[n].protocol
           S == OfProtocol(jobs, p)
           T == Pool(m, order, p)
<1>1. Len(jobs) \in Nat /\ DOMAIN jobs = 1..Len(jobs) /\ p \in Protocols
  BY DEF AreJobs, AList, JobRecords
<1>2. S \in SUBSET (1..Len(jobs)) /\ n \in S BY <1>1 DEF OfProtocol
<1>3. T \in SUBSET (1..M) BY DEF Pool
<1>4. Cardinality(S) <= Cardinality(T) BY <1>1 DEF PoolsSuffice
<1> HIDE DEF S, T, p
<1>5. Cardinality(S) \in Nat /\ Cardinality(T) \in Nat BY <1>1, <1>2, <1>3, PlaceFacts
<1>6. Place(S, n) \in 1..Cardinality(S)
  <2>1. n \in 0..Len(jobs) /\ 0 \in 0..Len(jobs) /\ 0 < n BY <1>1
  <2>2. Place(S, n) \in 0..Cardinality(S) /\ Place(S, 0) = 0 /\ Place(S, 0) < Place(S, n)
    BY <1>1, <1>2, <2>1, PlaceFacts
  <2> QED BY <1>5, <2>2
<1>7. Place(S, n) \in 1..Cardinality(T) BY <1>4, <1>5, <1>6
<1>8. \E i \in T : Place(T, i) = Place(S, n) BY <1>3, <1>7, EveryPlaceIsTaken
<1> QED BY <1>8 DEF PlaceOf, S, T, p

(* Binding changes the asset of each job, and nothing else.                *)
LEMMA BoundFacts ==
    ASSUME NEW jobs, AreJobs(jobs), NEW m, NEW M \in Nat, NEW order \in [1..M -> 1..M],
           \A i, j \in 1..M : order[i] = order[j] => i = j,
           PoolsSuffice(jobs, m, order)
    PROVE  LET bound == Bound(jobs, m, order)
           IN  /\ AreJobs(bound) /\ DOMAIN bound = DOMAIN jobs
               /\ \A n \in DOMAIN jobs : /\ bound[n].protocol = jobs[n].protocol
                                         /\ bound[n].mode = jobs[n].mode
               /\ AreBound(bound, m)
<1> DEFINE D == DOMAIN jobs
           at(n) == PlaceOf(jobs, m, order, n)
           job(n) == [jobs[n] EXCEPT !.asset = order[at(n)]]
           bound == Bound(jobs, m, order)
<1>1. bound = [n \in D |-> job(n)] BY Zenon DEF Bound, PlaceOf
<1>2. Len(jobs) \in Nat /\ D = 1..Len(jobs) BY DEF AreJobs, AList
<1>3. \A n \in D : jobs[n] \in JobRecords /\ jobs[n].protocol \in Protocols
  BY DEF AreJobs, JobRecords
<1>4. \A n \in D : /\ at(n) \in 1..M /\ at(n) \in Pool(m, order, jobs[n].protocol)
                   /\ Place(Pool(m, order, jobs[n].protocol), at(n))
                        = Place(OfProtocol(jobs, jobs[n].protocol), n)
  <2>1. \A n \in D : /\ at(n) \in Pool(m, order, jobs[n].protocol)
                     /\ Place(Pool(m, order, jobs[n].protocol), at(n))
                          = Place(OfProtocol(jobs, jobs[n].protocol), n)
    BY PlaceOfFacts
  <2> HIDE DEF at
  <2>2. \A p : Pool(m, order, p) \subseteq 1..M BY DEF Pool
  <2> QED BY <2>1, <2>2
<1> HIDE DEF at
<1>5. \A n \in D : order[at(n)] \in Nat BY <1>4
<1>6. \A n \in D : /\ job(n) \in JobRecords /\ job(n).asset = order[at(n)]
                   /\ job(n).protocol = jobs[n].protocol /\ job(n).mode = jobs[n].mode
  BY <1>3, <1>5 DEF JobRecords
<1> HIDE DEF job, bound
<1>7. DOMAIN bound = D /\ \A n \in D : bound[n] = job(n) BY <1>1
<1>8. AList(bound)
  <2>1. bound \in Seq(JobRecords)
    <3>1. bound \in [1..Len(jobs) -> JobRecords] BY <1>1, <1>2, <1>6
    <3> QED BY <1>2, <3>1
  <2> QED BY <2>1 DEF AList
<1>9. AreJobs(bound) BY <1>6, <1>7, <1>8 DEF AreJobs
<1>10. \A n \in D : Normal(m[bound[n].asset]).protocol = bound[n].protocol
  <2> TAKE n \in D
  <2>1. Normal(m[order[at(n)]]).protocol = jobs[n].protocol BY <1>4 DEF Pool
  <2>2. bound[n].asset = order[at(n)] /\ bound[n].protocol = jobs[n].protocol BY <1>6, <1>7
  <2> QED BY <2>1, <2>2
<1>11. Unique(bound, "asset")
  <2> SUFFICES ASSUME NEW n \in D, NEW k \in D, bound[n].asset = bound[k].asset PROVE n = k
    BY <1>7 DEF Unique
  <2>1. at(n) = at(k)
    <3>1. order[at(n)] = order[at(k)] BY <1>6, <1>7
    <3> QED BY <1>4, <3>1
  <2>2. jobs[n].protocol = jobs[k].protocol
    <3>1. bound[n].protocol = bound[k].protocol BY <1>10
    <3> QED BY <1>6, <1>7, <3>1
  <2> DEFINE S == OfProtocol(jobs, jobs[n].protocol)
  <2>3. Place(S, n) = Place(S, k) BY <1>4, <2>1, <2>2
  <2>4. S \in SUBSET (1..Len(jobs)) /\ n \in S /\ k \in S BY <1>2, <2>2 DEF OfProtocol
  <2> HIDE DEF S, D
  <2>5. n \in 0..Len(jobs) /\ k \in 0..Len(jobs) BY <1>2
  <2>6. n < k => Place(S, n) < Place(S, k) BY <1>2, <2>4, <2>5, PlaceFacts
  <2>7. k < n => Place(S, k) < Place(S, n) BY <1>2, <2>4, <2>5, PlaceFacts
  <2>8. Place(S, n) \in 0..Cardinality(S) /\ Place(S, k) \in 0..Cardinality(S)
    BY <1>2, <2>4, <2>5, PlaceFacts
  <2>9. ~(n < k) /\ ~(k < n) BY <2>3, <2>6, <2>7, <2>8
  <2> QED BY <1>2, <2>5, <2>9
<1>12. AreBound(bound, m) BY <1>7, <1>10, <1>11 DEF AreBound
<1> QED BY <1>6, <1>7, <1>9, <1>12 DEF bound

-----------------------------------------------------------------------------
(* Expanding                                                               *)

IsConfig(c) ==
    /\ c.total \in Int
    /\ \A p \in DOMAIN c.protocols : c.protocols[p] \in Int
    /\ \A p \in DOMAIN c.modes : c.modes[p] \in [Modes -> Int]

(* There are five protocols.                                               *)
LEMMA OrderFacts ==
    /\ Len(protocolOrder) = 5 /\ DOMAIN protocolOrder = 1..5
    /\ \A k \in 1..5 : protocolOrder[k] \in Protocols
    /\ \A p \in Protocols : \E k \in 1..5 : p = protocolOrder[k]
    /\ \A k, l \in 1..5 : protocolOrder[k] = protocolOrder[l] => k = l
<1>1. Len(protocolOrder) = 5 /\ DOMAIN protocolOrder = 1..5 BY DEF protocolOrder
<1>2. Protocols = {protocolOrder[k] : k \in 1..5} BY <1>1 DEF Protocols, ToSet
<1>3. \A k, l \in 1..5 : protocolOrder[k] = protocolOrder[l] => k = l
  BY DEF protocolOrder
<1> QED BY <1>1, <1>2, <1>3

Sums(f, c) ==
    [k \in 0..Len(protocolOrder) |->
        IF k = 0 THEN 0 ELSE f[k - 1] + Asked(c, protocolOrder[k])]

(* The sums of a valid configuration are numbers that grow to the total.   *)
LEMMA UpToFacts ==
    ASSUME NEW c, IsConfig(c), ConfigIsValid(c)
    PROVE  LET u == UpTo(c)
           IN  /\ \A k \in 0..5 : u[k] \in Nat
               /\ \A k \in 1..5 : /\ Asked(c, protocolOrder[k]) \in Nat
                                  /\ u[k] = u[k - 1] + Asked(c, protocolOrder[k])
               /\ u[0] = 0 /\ u[5] = c.total
               /\ \A k, l \in 0..5 : k <= l => u[k] <= u[l]
<1> DEFINE a(k) == Asked(c, protocolOrder[k])
           u == CHOOSE f : f = Sums(f, c)
           w == [k \in 0..5 |-> CASE k = 0 -> 0
                                  [] k = 1 -> a(1)
                                  [] k = 2 -> (a(1)) + a(2)
                                  [] k = 3 -> ((a(1)) + a(2)) + a(3)
                                  [] k = 4 -> (((a(1)) + a(2)) + a(3)) + a(4)
                                  [] k = 5 -> ((((a(1)) + a(2)) + a(3)) + a(4)) + a(5)]
<1>1. UpTo(c) = u BY Zenon DEF UpTo, Sums
<1>2. \A k \in 1..5 : a(k) \in Nat
  <2>1. \A p \in DOMAIN c.protocols : c.protocols[p] \in Nat BY DEF IsConfig, ConfigIsValid
  <2> QED BY <2>1 DEF Asked
<1>3. w = Sums(w, c)
  <2> HIDE DEF a
  <2>1. \A k \in 0..5 : w[k] = IF k = 0 THEN 0 ELSE w[k - 1] + a(k)
    <3>1. w[0] = 0 /\ w[1] = a(1) /\ w[2] = w[1] + a(2) /\ w[3] = w[2] + a(3)
          /\ w[4] = w[3] + a(4) /\ w[5] = w[4] + a(5)
      OBVIOUS
    <3>2. w[1] = w[0] + a(1) BY <1>2, <3>1
    <3> HIDE DEF w
    <3> QED BY <3>1, <3>2
  <2>2. w = [k \in 0..5 |-> w[k]] OBVIOUS
  <2> HIDE DEF w
  <2>3. w = [k \in 0..5 |-> IF k = 0 THEN 0 ELSE w[k - 1] + a(k)] BY <2>1, <2>2
  <2> QED BY <2>3, OrderFacts DEF Sums, a
<1> HIDE DEF w
<1>4. u = Sums(u, c) BY <1>3
<1> HIDE DEF u
<1>5. \A k \in 0..5 : u[k] = IF k = 0 THEN 0 ELSE u[k - 1] + Asked(c, protocolOrder[k])
  <2>1. u = [k \in 0..5 |-> IF k = 0 THEN 0 ELSE u[k - 1] + Asked(c, protocolOrder[k])]
    BY <1>4, OrderFacts DEF Sums
  <2> QED BY <2>1
<1> HIDE DEF a
<1>6. u[0] = 0 /\ u[1] = u[0] + a(1) /\ u[2] = u[1] + a(2) /\ u[3] = u[2] + a(3)
      /\ u[4] = u[3] + a(4) /\ u[5] = u[4] + a(5)
  BY <1>5 DEF a
<1>7. a(1) \in Nat /\ a(2) \in Nat /\ a(3) \in Nat /\ a(4) \in Nat /\ a(5) \in Nat
  BY <1>2
<1>8. u[0] \in Nat /\ u[1] \in Nat /\ u[2] \in Nat /\ u[3] \in Nat /\ u[4] \in Nat /\ u[5] \in Nat
  BY <1>6, <1>7
<1>9. \A k \in 0..5 : u[k] \in Nat
  <2> TAKE k \in 0..5
  <2>1. k = 0 \/ k = 1 \/ k = 2 \/ k = 3 \/ k = 4 \/ k = 5 OBVIOUS
  <2> QED BY <1>8, <2>1
<1>10. u[0] <= u[1] /\ u[1] <= u[2] /\ u[2] <= u[3] /\ u[3] <= u[4] /\ u[4] <= u[5]
  BY <1>6, <1>7, <1>8
<1>11. \A k, l \in 0..5 : k <= l => u[k] <= u[l]
  <2> TAKE k, l \in 0..5
  <2> HAVE k <= l
  <2>1. PICK v \in [0..5 -> Nat] : \A i \in 0..5 : v[i] = u[i]
    <3>1. [i \in 0..5 |-> u[i]] \in [0..5 -> Nat] BY <1>9
    <3> QED BY <3>1
  <2>2. v[0] <= v[1] /\ v[1] <= v[2] /\ v[2] <= v[3] /\ v[3] <= v[4] /\ v[4] <= v[5]
    BY <1>10, <2>1
  <2>3. v[k] <= v[l] BY <2>2
  <2> QED BY <2>1, <2>3
<1>12. u[5] = c.total BY <1>1, OrderFacts DEF ConfigIsValid
<1> QED BY <1>1, <1>2, <1>5, <1>6, <1>9, <1>11, <1>12 DEF a

(* Each job has a number in the block of one protocol.                     *)
LEMMA BlockFacts ==
    ASSUME NEW c, IsConfig(c), ConfigIsValid(c), NEW n \in 1..c.total
    PROVE  \E k \in 1..5 :
             /\ UpTo(c)[k - 1] < n /\ n <= UpTo(c)[k]
             /\ \A l \in 1..5 : UpTo(c)[l - 1] < n /\ n <= UpTo(c)[l] => l = k
<1> DEFINE u == UpTo(c)
           T == {k \in 0..5 : n <= u[k]}
<1>1. /\ \A k \in 0..5 : u[k] \in Nat
      /\ u[0] = 0 /\ u[5] = c.total
      /\ \A k, l \in 0..5 : k <= l => u[k] <= u[l]
  BY UpToFacts
<1>2. c.total \in Int BY DEF IsConfig
<1> HIDE DEF u
<1>3. n \in Nat /\ 1 <= n /\ n <= c.total BY <1>2
<1>4. T \subseteq Nat /\ 5 \in T BY <1>1, <1>3
<1>5. PICK k \in T : \A l \in T : k <= l
  <2> HIDE DEF T
  <2> QED BY <1>4, Smallest
<1>6. k \in 1..5 /\ n <= u[k]
  <2>1. 0 \notin T BY <1>1, <1>3
  <2>2. k \in 0..5 /\ k # 0 /\ n <= u[k] BY <1>5, <2>1
  <2> QED BY <2>2
<1>7. u[k - 1] < n
  <2>1. k - 1 \in 0..5 /\ k - 1 \notin T BY <1>5, <1>6
  <2>2. ~(n <= u[k - 1]) /\ u[k - 1] \in Nat BY <1>1, <2>1
  <2> QED BY <1>3, <2>2
<1>8. ASSUME NEW l \in 1..5, u[l - 1] < n, n <= u[l] PROVE l = k
  <2>1. l \in 0..5 /\ l - 1 \in 0..5 /\ l \in T BY <1>8
  <2>2. k <= l BY <1>5, <2>1
  <2>3. ~(k <= l - 1)
    <3> SUFFICES ASSUME k <= l - 1 PROVE FALSE OBVIOUS
    <3>1. u[k] <= u[l - 1] /\ u[k] \in Nat /\ u[l - 1] \in Nat BY <1>1, <1>6, <2>1
    <3> QED BY <1>3, <1>6, <1>8, <3>1
  <2> QED BY <1>6, <2>2, <2>3
<1> QED BY <1>6, <1>7, <1>8 DEF u

(* A job of the block of a protocol, and how it is used.                   *)
LEMMA ExpandedFacts ==
    ASSUME NEW c, IsConfig(c), ConfigIsValid(c)
    PROVE  LET jobs == Expanded(c)
           IN  /\ AreJobs(jobs) /\ DOMAIN jobs = 1..c.total
               /\ \A n \in 1..c.total, k \in 1..5 :
                     /\ jobs[n].protocol = protocolOrder[k]
                           <=> UpTo(c)[k - 1] < n /\ n <= UpTo(c)[k]
                     /\ jobs[n].protocol = protocolOrder[k] =>
                           jobs[n].mode =
                             IF n <= UpTo(c)[k - 1] + ModesOf(c, protocolOrder[k]).browser
                                THEN "browser" ELSE "direct"
<1> DEFINE jobs == Expanded(c)
           N == c.total
           In(n, k) == UpTo(c)[k - 1] < n /\ n <= UpTo(c)[k]
           block(n) == CHOOSE k \in 1..5 : In(n, k)
           used(n, k) == IF n <= UpTo(c)[k - 1] + ModesOf(c, protocolOrder[k]).browser
                            THEN "browser" ELSE "direct"
           job(n) == [protocol |-> protocolOrder[block(n)], asset |-> 0, mode |-> used(n, block(n))]
<1>1. jobs = [n \in 1..N |-> job(n)] BY OrderFacts, Zenon DEF Expanded
<1>2. N \in Nat BY DEF IsConfig, ConfigIsValid
<1>3. \A n \in 1..N : /\ block(n) \in 1..5 /\ In(n, block(n))
                      /\ \A l \in 1..5 : In(n, l) => l = block(n)
  <2> TAKE n \in 1..N
  <2>1. PICK k \in 1..5 : In(n, k) /\ \A l \in 1..5 : In(n, l) => l = k BY BlockFacts
  <2> HIDE DEF In
  <2> QED BY <2>1
<1>4. \A n \in 1..N, k \in 1..5 : used(n, k) \in Modes BY DEF Modes
<1> HIDE DEF block, used, In
<1>5. \A n \in 1..N : /\ job(n) \in JobRecords /\ job(n).protocol = protocolOrder[block(n)]
                      /\ job(n).mode = used(n, block(n))
  BY <1>3, <1>4, OrderFacts DEF JobRecords
<1> HIDE DEF job, jobs, N
<1>6. DOMAIN jobs = 1..N /\ \A n \in 1..N : jobs[n] = job(n) BY <1>1
<1>7. AreJobs(jobs)
  <2>1. jobs \in Seq(JobRecords)
    <3>1. jobs \in [1..N -> JobRecords] BY <1>1, <1>5
    <3> QED BY <1>2, <3>1
  <2>2. AList(jobs) BY <2>1 DEF AList
  <2> QED BY <1>5, <1>6, <2>2 DEF AreJobs
<1>8. ASSUME NEW n \in 1..N, NEW k \in 1..5
      PROVE  /\ jobs[n].protocol = protocolOrder[k] <=> In(n, k)
             /\ jobs[n].protocol = protocolOrder[k] => jobs[n].mode = used(n, k)
  <2>1. jobs[n].protocol = protocolOrder[block(n)] /\ jobs[n].mode = used(n, block(n))
    BY <1>5, <1>6
  <2>2. block(n) \in 1..5 /\ In(n, block(n)) /\ (In(n, k) => k = block(n)) BY <1>3
  <2>3. protocolOrder[block(n)] = protocolOrder[k] => block(n) = k BY <2>2, OrderFacts
  <2> QED BY <2>1, <2>2, <2>3
<1> QED BY <1>6, <1>7, <1>8 DEF jobs, N, In, used

(* As many jobs of a protocol and a mode as the configuration asks for.    *)
LEMMA AskedAreExpanded ==
    ASSUME NEW c, IsConfig(c), ConfigIsValid(c),
           NEW p \in Protocols, NEW mode \in Modes, Asked(c, p) > 0
    PROVE  LET jobs == Expanded(c)
           IN  Cardinality(OfMode(jobs, OfProtocol(jobs, p), mode)) = ModesOf(c, p)[mode]
<1> DEFINE jobs == Expanded(c)
           u == UpTo(c)
           b == ModesOf(c, p).browser
           d == ModesOf(c, p).direct
           S(m) == OfMode(jobs, OfProtocol(jobs, p), m)
<1>1. PICK k \in 1..5 : p = protocolOrder[k] BY OrderFacts
<1>2. k \in 0..5 /\ k - 1 \in 0..5 OBVIOUS
<1>3. Asked(c, p) \in Nat /\ u[k] = u[k - 1] + Asked(c, p) /\ u[k] \in Nat /\ u[k - 1] \in Nat
      /\ u[k] <= c.total
  <2>1. 5 \in 0..5 /\ k <= 5 OBVIOUS
  <2> QED BY <1>1, <1>2, <2>1, UpToFacts
<1>4. b \in Nat /\ d \in Nat /\ d + b = Asked(c, p)
  <2>1. CASE p \in DOMAIN c.modes
    <3>1. ModesOf(c, p) = c.modes[p] BY <2>1 DEF ModesOf
    <3>2. c.modes[p] \in [Modes -> Int] BY <2>1 DEF IsConfig
    <3>3. c.modes[p].direct \in Int /\ c.modes[p].browser \in Int BY <3>2 DEF Modes
    <3>4. c.modes[p].direct >= 0 /\ c.modes[p].browser >= 0
          /\ c.modes[p].direct + c.modes[p].browser = Asked(c, p)
      BY <2>1 DEF ConfigIsValid
    <3> QED BY <3>1, <3>3, <3>4
  <2>2. CASE p \notin DOMAIN c.modes
    <3>1. \/ ModesOf(c, p) = [direct |-> Asked(c, p), browser |-> 0]
          \/ ModesOf(c, p) = [direct |-> 0, browser |-> Asked(c, p)]
      BY <2>2 DEF ModesOf
    <3>2. \/ d = Asked(c, p) /\ b = 0
          \/ d = 0 /\ b = Asked(c, p)
      BY <3>1
    <3> HIDE DEF b, d
    <3> QED BY <1>3, <3>2
  <2> QED BY <2>1, <2>2
<1>5. /\ DOMAIN jobs = 1..c.total
      /\ \A n \in 1..c.total : /\ jobs[n].protocol = p <=> u[k - 1] < n /\ n <= u[k]
                               /\ jobs[n].protocol = p =>
                                    jobs[n].mode = IF n <= u[k - 1] + b THEN "browser" ELSE "direct"
  BY <1>1, ExpandedFacts
<1>6. c.total \in Int BY DEF IsConfig
<1> HIDE DEF jobs, u, b, d
<1>7. \A n : n \in OfProtocol(jobs, p) <=> n \in Int /\ u[k - 1] < n /\ n <= u[k]
  <2> TAKE n
  <2>1. n \in OfProtocol(jobs, p) <=> n \in 1..c.total /\ jobs[n].protocol = p
    BY <1>5 DEF OfProtocol
  <2>2. n \in Int /\ u[k - 1] < n /\ n <= u[k] => n \in 1..c.total BY <1>3, <1>6
  <2>3. n \in 1..c.total => n \in Int BY <1>6
  <2> QED BY <1>5, <2>1, <2>2, <2>3
<1>8. S("browser") = (u[k - 1] + 1)..(u[k - 1] + b)
  <2>1. \A n : n \in S("browser") <=> n \in Int /\ u[k - 1] < n /\ n <= u[k - 1] + b
    <3> TAKE n
    <3>1. n \in OfProtocol(jobs, p) =>
            jobs[n].mode = IF n <= u[k - 1] + b THEN "browser" ELSE "direct"
      BY <1>5 DEF OfProtocol
    <3>2. n \in S("browser") <=> n \in OfProtocol(jobs, p) /\ n <= u[k - 1] + b
      BY <3>1 DEF OfMode
    <3>3. n \in Int /\ n <= u[k - 1] + b => n <= u[k] BY <1>3, <1>4
    <3> QED BY <1>7, <3>2, <3>3
  <2> HIDE DEF S
  <2>2. \A n : n \in (u[k - 1] + 1)..(u[k - 1] + b) <=> n \in Int /\ u[k - 1] < n /\ n <= u[k - 1] + b
    BY <1>3, <1>4
  <2> QED BY <2>1, <2>2, Zenon
<1>9. S("direct") = (u[k - 1] + b + 1)..u[k]
  <2>1. \A n : n \in S("direct") <=> n \in Int /\ u[k - 1] + b < n /\ n <= u[k]
    <3> TAKE n
    <3>1. n \in OfProtocol(jobs, p) =>
            jobs[n].mode = IF n <= u[k - 1] + b THEN "browser" ELSE "direct"
      BY <1>5 DEF OfProtocol
    <3>2. n \in S("direct") <=> n \in OfProtocol(jobs, p) /\ ~(n <= u[k - 1] + b)
      BY <3>1 DEF OfMode
    <3>3. n \in Int => (~(n <= u[k - 1] + b) <=> u[k - 1] + b < n) BY <1>3, <1>4
    <3>4. n \in Int /\ u[k - 1] + b < n => u[k - 1] < n BY <1>3, <1>4
    <3> QED BY <1>7, <3>2, <3>3, <3>4
  <2> HIDE DEF S
  <2>2. \A n : n \in (u[k - 1] + b + 1)..u[k] <=> n \in Int /\ u[k - 1] + b < n /\ n <= u[k]
    BY <1>3, <1>4
  <2> QED BY <2>1, <2>2, Zenon
<1>10. Cardinality(S("browser")) = b
  <2>1. PICK x \in Nat : x = u[k - 1] BY <1>3
  <2>2. x + 1 \in Int /\ x + b \in Int BY <1>4
  <2>3. Cardinality((x + 1)..(x + b)) = IF x + 1 > x + b THEN 0 ELSE (x + b) - (x + 1) + 1
    BY <2>2, FS_Interval
  <2>4. (IF x + 1 > x + b THEN 0 ELSE (x + b) - (x + 1) + 1) = b BY <1>4
  <2> QED BY <1>8, <2>1, <2>3, <2>4
<1>11. Cardinality(S("direct")) = d
  <2>1. PICK x \in Nat : x = u[k - 1] BY <1>3
  <2>2. PICK y \in Nat : y = u[k] BY <1>3
  <2>3. y = x + (d + b) BY <1>3, <1>4, <2>1, <2>2
  <2>4. x + b + 1 \in Int /\ y \in Int BY <1>4
  <2>5. Cardinality((x + b + 1)..y) = IF x + b + 1 > y THEN 0 ELSE y - (x + b + 1) + 1
    BY <2>4, FS_Interval
  <2>6. (IF x + b + 1 > y THEN 0 ELSE y - (x + b + 1) + 1) = d BY <1>4, <2>3
  <2> QED BY <1>9, <2>1, <2>2, <2>5, <2>6
<1>12. mode = "browser" \/ mode = "direct" BY DEF Modes
<1> QED BY <1>10, <1>11, <1>12 DEF S, b, d, jobs

-----------------------------------------------------------------------------
(* The plan, from the configuration to the parts                           *)

Places == {"config", "invalid", "expanded", "bound", "refused", "partitioned"}

IsPlan(p) ==
    /\ p = [at |-> p.at, input |-> p.input, jobs |-> p.jobs, parts |-> p.parts]
    /\ p.at \in Places /\ p.input \in PlanInputs

(* As many jobs of a protocol and a mode as are asked for.                 *)
AreExpanded(jobs, c) ==
    /\ DOMAIN jobs = 1..c.total
    /\ \A p \in Protocols, mode \in Modes : Asked(c, p) > 0 =>
          Cardinality(OfMode(jobs, OfProtocol(jobs, p), mode)) = ModesOf(c, p)[mode]

JobsAreReady ==
    /\ plan.at \in {"expanded", "bound", "refused", "partitioned"} =>
          AreJobs(plan.jobs) /\ AreExpanded(plan.jobs, plan.input.config)
    /\ plan.at \in {"bound", "refused", "partitioned"} =>
          AreBound(plan.jobs, plan.input.manifest)

PlanInv == IsPlan(plan) /\ JobsAreReady /\ PartitionIsExact /\ RefusalIsJustified

(* What the assumption says of an input, as it is used below.              *)
LEMMA InputsAreTyped ==
    ASSUME NEW input \in PlanInputs
    PROVE  /\ IsConfig(input.config)
           /\ \E M \in Nat : /\ input.order \in [1..M -> 1..M]
                             /\ \A i, j \in 1..M : input.order[i] = input.order[j] => i = j
           /\ AreAgents(Normalized(input.agents))
           /\ DOMAIN Normalized(input.agents) = DOMAIN input.agents
<1> DEFINE A == input.agents
           B == Normalized(A)
           M == Len(input.manifest)
<1>1. IsConfig(input.config) BY InputAssumption DEF IsConfig
<1>2. M \in Nat /\ DOMAIN input.manifest = 1..M
      /\ input.order \in [DOMAIN input.manifest -> DOMAIN input.manifest]
      /\ \A i, j \in DOMAIN input.order : input.order[i] = input.order[j] => i = j
  BY InputAssumption
<1>3. input.order \in [1..M -> 1..M]
      /\ \A i, j \in 1..M : input.order[i] = input.order[j] => i = j
  <2> HIDE DEF M
  <2> QED BY <1>2
<1>4. Len(A) \in Nat /\ DOMAIN A = 1..Len(A) /\ \A k \in DOMAIN A : A[k] \in AgentRecords
  BY InputAssumption DEF AgentRecords
<1> HIDE DEF A
<1>5. B = [k \in DOMAIN A |-> IF A[k].DirectCapacity = 0
                                THEN [A[k] EXCEPT !.DirectCapacity = A[k].Capacity] ELSE A[k]]
  BY DEF Normalized
<1>6. ASSUME NEW k \in DOMAIN A
      PROVE  (IF A[k].DirectCapacity = 0
                 THEN [A[k] EXCEPT !.DirectCapacity = A[k].Capacity] ELSE A[k]) \in AgentRecords
  BY <1>4, <1>6 DEF AgentRecords
<1> HIDE DEF B
<1>7. B \in [1..Len(A) -> AgentRecords] BY <1>4, <1>5, <1>6
<1>8. AList(B)
  <2>1. B \in Seq(AgentRecords) BY <1>4, <1>7
  <2> QED BY <2>1 DEF AList
<1>9. AreAgents(B)
  <2>1. \A k \in DOMAIN B : B[k] \in AgentRecords BY <1>7
  <2> QED BY <1>8, <2>1 DEF AreAgents
<1>10. DOMAIN B = DOMAIN A BY <1>5
<1>11. \E m \in Nat : /\ input.order \in [1..m -> 1..m]
                      /\ \A i, j \in 1..m : input.order[i] = input.order[j] => i = j
  <2> HIDE DEF M
  <2> QED BY <1>2, <1>3
<1> QED BY <1>1, <1>9, <1>10, <1>11 DEF A, B

(* A plan begins with nothing but its input.                               *)
LEMMA PlansStartRight == PlanInit => PlanInv
<1> SUFFICES ASSUME PlanInit PROVE PlanInv OBVIOUS
<1>1. PICK input \in PlanInputs :
        plan = [at |-> "config", input |-> input, jobs |-> <<>>, parts |-> <<>>]
  BY Zenon DEF PlanInit
<1>2. plan.at = "config" /\ plan.input = input /\ plan.jobs = <<>> /\ plan.parts = <<>>
  BY <1>1
<1> QED BY <1>1, <1>2
  DEF PlanInv, IsPlan, Places, JobsAreReady, PartitionIsExact, RefusalIsJustified

Changed(p, q, at, jobs, parts) == q = [p EXCEPT !.at = at, !.jobs = jobs, !.parts = parts]

(* What a step changes in a plan.                                          *)
LEMMA PlanChanges ==
    ASSUME NEW p, IsPlan(p), NEW at \in Places, NEW jobs, NEW parts, NEW q,
           Changed(p, q, at, jobs, parts)
    PROVE  IsPlan(q) /\ q.at = at /\ q.input = p.input /\ q.jobs = jobs /\ q.parts = parts
<1>1. q = [at |-> at, input |-> p.input, jobs |-> jobs, parts |-> parts] BY DEF IsPlan, Changed
<1>2. q.at = at /\ q.input = p.input /\ q.jobs = jobs /\ q.parts = parts BY <1>1
<1> QED BY <1>1, <1>2 DEF IsPlan

(* A plan that was refused before it was dealt promises nothing.           *)
LEMMA InvalidPlans ==
    ASSUME PlanInv, plan' = [plan EXCEPT !.at = "invalid"]
    PROVE  PlanInv'
<1>1. IsPlan(plan) BY DEF PlanInv
<1>2. "invalid" \in Places BY DEF Places
<1>3. Changed(plan, plan', "invalid", plan.jobs, plan.parts)
  BY <1>1 DEF IsPlan, Changed
<1>4. IsPlan(plan') /\ plan'.at = "invalid" BY <1>1, <1>2, <1>3, PlanChanges
<1> QED BY <1>4 DEF PlanInv, JobsAreReady, PartitionIsExact, RefusalIsJustified

(* The jobs of a configuration that is valid are those it asks for.        *)
LEMMA ExpandKeeps == PlanInv /\ Expand => PlanInv'
<1> SUFFICES ASSUME PlanInv, Expand PROVE PlanInv' OBVIOUS
<1> DEFINE c == plan.input.config
<1>1. IsPlan(plan) /\ plan.input \in PlanInputs BY DEF PlanInv, IsPlan
<1>2. CASE ~ConfigIsValid(c)
  <2>1. plan' = [plan EXCEPT !.at = "invalid"] BY <1>2 DEF Expand
  <2> QED BY <2>1, InvalidPlans
<1>3. CASE ConfigIsValid(c)
  <2>1. Changed(plan, plan', "expanded", Expanded(c), plan.parts)
    <3>1. plan' = [plan EXCEPT !.at = "expanded", !.jobs = Expanded(c)] BY <1>3 DEF Expand
    <3> QED BY <1>1, <3>1 DEF IsPlan, Changed
  <2>2. "expanded" \in Places BY DEF Places
  <2>3. IsPlan(plan') /\ plan'.at = "expanded" /\ plan'.input = plan.input
        /\ plan'.jobs = Expanded(c)
    BY <1>1, <2>1, <2>2, PlanChanges
  <2>4. IsConfig(c) BY <1>1, InputsAreTyped
  <2>5. AreJobs(Expanded(c)) BY <1>3, <2>4, ExpandedFacts
  <2>6. AreExpanded(Expanded(c), c)
    BY <1>3, <2>4, ExpandedFacts, AskedAreExpanded DEF AreExpanded
  <2> HIDE DEF c
  <2>7. JobsAreReady' BY <2>3, <2>5, <2>6 DEF JobsAreReady, c
  <2> QED BY <2>3, <2>7 DEF PlanInv, PartitionIsExact, RefusalIsJustified
<1> QED BY <1>2, <1>3

(* The assets change nothing in what is asked for.                         *)
LEMMA BindKeeps == PlanInv /\ prepareManifestJobs => PlanInv'
<1> SUFFICES ASSUME PlanInv, prepareManifestJobs PROVE PlanInv' OBVIOUS
<1> DEFINE c == plan.input.config
           m == plan.input.manifest
           order == plan.input.order
           valid == ValidateManifest(m) /\ PoolsSuffice(plan.jobs, m, order)
           bound == Bound(plan.jobs, m, order)
<1>1. IsPlan(plan) /\ plan.input \in PlanInputs /\ plan.at = "expanded"
  BY DEF PlanInv, IsPlan, prepareManifestJobs
<1>2. CASE ~valid
  <2>1. plan' = [plan EXCEPT !.at = "invalid"] BY <1>2 DEF prepareManifestJobs
  <2> QED BY <2>1, InvalidPlans
<1>3. CASE valid
  <2>1. Changed(plan, plan', "bound", bound, plan.parts)
    <3>1. plan' = [plan EXCEPT !.at = "bound", !.jobs = bound] BY <1>3 DEF prepareManifestJobs
    <3> HIDE DEF bound
    <3> QED BY <1>1, <3>1 DEF IsPlan, Changed
  <2>2. "bound" \in Places BY DEF Places
  <2>3. IsPlan(plan') /\ plan'.at = "bound" /\ plan'.input = plan.input /\ plan'.jobs = bound
    <3> HIDE DEF bound
    <3> QED BY <1>1, <2>1, <2>2, PlanChanges
  <2>4. AreJobs(plan.jobs) /\ AreExpanded(plan.jobs, c)
    BY <1>1 DEF PlanInv, JobsAreReady
  <2>5. PICK M \in Nat : /\ order \in [1..M -> 1..M]
                         /\ \A i, j \in 1..M : order[i] = order[j] => i = j
    BY <1>1, InputsAreTyped
  <2>6. /\ AreJobs(bound) /\ DOMAIN bound = DOMAIN plan.jobs
        /\ \A n \in DOMAIN plan.jobs : /\ bound[n].protocol = plan.jobs[n].protocol
                                       /\ bound[n].mode = plan.jobs[n].mode
        /\ AreBound(bound, m)
    BY <1>3, <2>4, <2>5, BoundFacts
  <2> HIDE DEF bound
  <2>7. ASSUME NEW p \in Protocols, NEW mode \in Modes
        PROVE  OfMode(bound, OfProtocol(bound, p), mode)
                 = OfMode(plan.jobs, OfProtocol(plan.jobs, p), mode)
    BY <2>6 DEF OfMode, OfProtocol
  <2>8. AreExpanded(bound, c) BY <2>4, <2>6, <2>7 DEF AreExpanded
  <2> HIDE DEF c, m
  <2>9. JobsAreReady' BY <2>3, <2>6, <2>8 DEF JobsAreReady, c, m
  <2> QED BY <2>3, <2>9 DEF PlanInv, PartitionIsExact, RefusalIsJustified
<1> QED BY <1>2, <1>3

(* A plan is partitioned when no job is left, else it is refused.          *)
LEMMA PartitionKeeps == PlanInv /\ PartitionJobs => PlanInv'
<1> SUFFICES ASSUME PlanInv, PartitionJobs PROVE PlanInv' OBVIOUS
<1> DEFINE jobs == plan.jobs
           agents == Normalized(plan.input.agents)
           deal == Partition(jobs, agents)
           wrong == \/ \E a \in ToSet(plan.input.agents) : ~Complete(a)
                    \/ ~CapacitySuffices(jobs, agents)
<1>1. IsPlan(plan) /\ plan.input \in PlanInputs /\ plan.at = "bound"
  BY DEF PlanInv, IsPlan, PartitionJobs
<1>2. plan' = IF wrong THEN [plan EXCEPT !.at = "invalid"]
              ELSE IF deal.left # {} THEN [plan EXCEPT !.at = "refused"]
              ELSE [plan EXCEPT !.at = "partitioned", !.parts = deal.parts]
  BY Zenon DEF PartitionJobs
<1> HIDE DEF wrong
<1>3. AreJobs(jobs) /\ AreExpanded(jobs, plan.input.config) /\ AreBound(jobs, plan.input.manifest)
  BY <1>1 DEF PlanInv, JobsAreReady
<1>4. AList(jobs) /\ \A n \in DOMAIN jobs : jobs[n].mode \in Modes
  BY <1>3 DEF AreJobs, JobRecords
<1>5. AreAgents(agents) BY <1>1, InputsAreTyped
<1>6. IsDealt(jobs, agents, deal) /\ (deal.left = {} \/ Stuck(jobs, agents, deal))
  <2> HIDE DEF jobs, agents
  <2> QED BY <1>4, <1>5, PartitionFacts
<1> HIDE DEF deal
<1>7. CASE wrong
  <2>1. plan' = [plan EXCEPT !.at = "invalid"] BY <1>2, <1>7
  <2> QED BY <2>1, InvalidPlans
<1>8. CASE ~wrong /\ deal.left # {}
  <2>1. Changed(plan, plan', "refused", jobs, plan.parts)
    <3>1. plan' = [plan EXCEPT !.at = "refused"] BY <1>2, <1>8
    <3> QED BY <1>1, <3>1 DEF IsPlan, Changed
  <2>2. "refused" \in Places BY DEF Places
  <2>3. IsPlan(plan') /\ plan'.at = "refused" /\ plan'.input = plan.input /\ plan'.jobs = jobs
    <3> HIDE DEF jobs
    <3> QED BY <1>1, <2>1, <2>2, PlanChanges
  <2>4. JobsAreReady' BY <1>3, <2>3 DEF JobsAreReady
  <2>5. ASSUME OfMode(jobs, DOMAIN jobs, "browser") = {},
               \A k, l \in DOMAIN agents : agents[k].DirectProtocols = agents[l].DirectProtocols,
               NEW f \in [DOMAIN jobs -> DOMAIN agents],
               \A k \in DOMAIN agents : WithinLimits(jobs, {n \in DOMAIN jobs : f[n] = k}, agents[k])
        PROVE  FALSE
    <3>1. \A n \in DOMAIN jobs : jobs[n].mode = "direct" BY <1>4, <2>5 DEF OfMode, Modes
    <3>2. Stuck(jobs, agents, deal) BY <1>6, <1>8
    <3> HIDE DEF jobs, agents
    <3> QED BY <1>4, <1>5, <1>6, <2>5, <3>1, <3>2, StuckForCause
  <2>6. plan'.jobs = jobs /\ Normalized(plan'.input.agents) = agents BY <2>3
  <2> HIDE DEF jobs, agents
  <2>7. RefusalIsJustified' BY <2>5, <2>6, Zenon DEF RefusalIsJustified
  <2>8. PartitionIsExact' BY <2>3 DEF PartitionIsExact
  <2> QED BY <2>3, <2>4, <2>7, <2>8 DEF PlanInv
<1>9. CASE ~wrong /\ deal.left = {}
  <2>1. Changed(plan, plan', "partitioned", jobs, deal.parts)
    <3>1. plan' = [plan EXCEPT !.at = "partitioned", !.parts = deal.parts] BY <1>2, <1>9
    <3> QED BY <1>1, <3>1 DEF IsPlan, Changed
  <2>2. "partitioned" \in Places BY DEF Places
  <2>3. IsPlan(plan') /\ plan'.at = "partitioned" /\ plan'.input = plan.input /\ plan'.jobs = jobs
        /\ plan'.parts = deal.parts
    <3> HIDE DEF jobs
    <3> QED BY <1>1, <2>1, <2>2, PlanChanges
  <2>4. JobsAreReady' BY <1>3, <2>3 DEF JobsAreReady
  <2>5. \A n \in DOMAIN jobs :
          \E k \in DOMAIN agents : \A l \in DOMAIN agents : n \in deal.parts[l] <=> l = k
    BY <1>6, <1>9 DEF IsDealt
  <2>6. \A k \in DOMAIN agents : deal.parts[k] \subseteq DOMAIN jobs
                                 /\ WithinLimits(jobs, deal.parts[k], agents[k])
    <3> HIDE DEF jobs, agents
    <3> QED BY <1>6 DEF IsDealt, Deals
  <2>7. plan'.jobs = jobs /\ Normalized(plan'.input.agents) = agents /\ plan'.parts = deal.parts
    BY <2>3
  <2> HIDE DEF jobs, agents
  <2>8. PartitionIsExact' BY <2>5, <2>6, <2>7, Zenon DEF PartitionIsExact
  <2>9. RefusalIsJustified' BY <2>3 DEF RefusalIsJustified
  <2> QED BY <2>3, <2>4, <2>8, <2>9 DEF PlanInv
<1> QED BY <1>7, <1>8, <1>9

(* The plan keeps its invariant, from the configuration to the parts.      *)
THEOREM PlanIsInductive == PlanSpec => []PlanInv
<1>1. PlanInit => PlanInv BY PlansStartRight
<1>2. PlanInv /\ [PlanNext]_plan => PlanInv'
  <2> SUFFICES ASSUME PlanInv, [PlanNext]_plan PROVE PlanInv' OBVIOUS
  <2>1. CASE Expand BY <2>1, ExpandKeeps
  <2>2. CASE prepareManifestJobs BY <2>2, BindKeeps
  <2>3. CASE PartitionJobs BY <2>3, PartitionKeeps
  <2>4. CASE UNCHANGED plan
    BY <2>4 DEF PlanInv, IsPlan, JobsAreReady, PartitionIsExact, RefusalIsJustified
  <2> QED BY <2>1, <2>2, <2>3, <2>4 DEF PlanNext
<1> QED BY <1>1, <1>2, PTL DEF PlanSpec

(* Every job of a plan that is dealt has exactly one agent, and no agent   *)
(* has more than it can take (distributed.Partition).                      *)
THEOREM PartsAreExact == PlanSpec => []PartitionIsExact
<1>1. PlanInv => PartitionIsExact BY DEF PlanInv
<1> QED BY <1>1, PlanIsInductive, PTL

(* The greedy dealing refuses without need only when agents differ in      *)
(* their protocols or when there are jobs in the browser.                  *)
THEOREM RefusalsAreJustified == PlanSpec => []RefusalIsJustified
<1>1. PlanInv => RefusalIsJustified BY DEF PlanInv
<1> QED BY <1>1, PlanIsInductive, PTL

(* The jobs are those of the configuration, and each has an asset of its   *)
(* own and of its protocol (config.Expand, allocation.Bind).               *)
THEOREM JobsAreAsConfigured == PlanSpec => []JobsAreAskedFor
<1>1. PlanInv => JobsAreAskedFor
  <2> SUFFICES ASSUME PlanInv, plan.at \in {"bound", "refused", "partitioned"}
               PROVE  /\ AreExpanded(plan.jobs, plan.input.config)
                      /\ AreBound(plan.jobs, plan.input.manifest)
    BY Zenon DEF JobsAreAskedFor, AreExpanded, AreBound
  <2> QED BY DEF PlanInv, JobsAreReady
<1> QED BY <1>1, PlanIsInductive, PTL

(* The three together, for every configuration, manifest, shuffle of it    *)
(* and list of agents: what a distributed run begins with is right.        *)
THEOREM PlansAreSound == PlanSpec => []PlanIsSound
<1>1. JobsAreAskedFor /\ PartitionIsExact /\ RefusalIsJustified => PlanIsSound BY DEF PlanIsSound
<1> QED BY <1>1, JobsAreAsConfigured, PartsAreExact, RefusalsAreJustified, PTL
=============================================================================
