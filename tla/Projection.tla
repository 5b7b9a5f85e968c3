---------------------------- MODULE Projection ----------------------------
(***************************************************************************)
(* What the relationship cache promises about one write to Redis: a        *)
(* refresh installs the truth of the moment it lands, never an older one,  *)
(* and a business transaction touches the truth alone.                     *)
(***************************************************************************)
EXTENDS Naturals

CONSTANTS Resources, None

VARIABLES
    truth,    \* truth[r]: the version MySQL has committed
    cached    \* cached[r]: the version Redis holds, or None

Init ==
    /\ truth = [r \in Resources |-> 0]
    /\ cached = [r \in Resources |-> None]

\* A transaction commits a new version of one or several resources.
Change(R) ==
    /\ truth' = [r \in Resources |-> IF r \in R THEN truth[r] + 1 ELSE truth[r]]
    /\ UNCHANGED cached

\* A refresh of r becomes visible.
Refresh(r) ==
    /\ cached' = [cached EXCEPT ![r] = truth[r]]
    /\ UNCHANGED truth

\* Redis loses its data.
Lose ==
    /\ cached' = [r \in Resources |-> None]
    /\ UNCHANGED truth

Next ==
    \/ \E R \in SUBSET Resources : Change(R)
    \/ \E r \in Resources : Refresh(r)
    \/ Lose

Spec == Init /\ [][Next]_<<truth, cached>>

=============================================================================
