---------------------------- MODULE RunLifecycle ----------------------------
(***************************************************************************)
(* What an agent promises about the runs it is given, without saying how   *)
(* its registry keeps them: one run at a time, a run that was asked to     *)
(* cancel never ends any other way, and a conclusion is final until the    *)
(* agent process dies and forgets everything.                              *)
(***************************************************************************)
CONSTANTS Agents, RunIDs

VARIABLE fate   \* fate[a][r]: what agent a would answer about run r

Conclusions == {"completed", "failed", "cancelled"}

Fates == {"unknown", "pending", "cancelling"} \cup Conclusions

Forgotten == [r \in RunIDs |-> "unknown"]

InProgress(a) == {r \in RunIDs : fate[a][r] \in {"pending", "cancelling"}}

Init == fate = [a \in Agents |-> Forgotten]

Admit(a, r) ==
    /\ fate[a][r] = "unknown"
    /\ InProgress(a) = {}
    /\ fate' = [fate EXCEPT ![a][r] = "pending"]

RequestCancel(a, r) ==
    /\ fate[a][r] = "pending"
    /\ fate' = [fate EXCEPT ![a][r] = "cancelling"]

Conclude(a, r, c) ==
    /\ \/ fate[a][r] = "pending"
       \/ fate[a][r] = "cancelling" /\ c = "cancelled"
    /\ fate' = [fate EXCEPT ![a][r] = c]

Forget(a) == fate' = [fate EXCEPT ![a] = Forgotten]

Next ==
    \E a \in Agents :
        \/ Forget(a)
        \/ \E r \in RunIDs :
              \/ Admit(a, r)
              \/ RequestCancel(a, r)
              \/ \E c \in Conclusions : Conclude(a, r, c)

Spec == Init /\ [][Next]_fate
=============================================================================
