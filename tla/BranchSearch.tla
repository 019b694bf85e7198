---------------------------- MODULE BranchSearch ----------------------------
(***************************************************************************)
(* What the prefuzz scheduler promises (spec section 2, scheduler C8):     *)
(* its coverage state is a summary of the executions it has observed.  A  *)
(* branch id is covered once some execution took it; every id some        *)
(* execution left untaken and none took carries the smallest distance any *)
(* execution reported for it.  The search may stop at any time, and after *)
(* stopping observes nothing.                                              *)
(***************************************************************************)
EXTENDS Naturals

CONSTANT Results   \* what one execution can report: [tracebits, predicates]

VARIABLES covered, best, done

vars == <<covered, best, done>>

Smaller(a, b) == IF a < b THEN a ELSE b

\* Fold one observed execution into the summary.
Merge(res) ==
    LET nowCovered == covered \cup res.tracebits
        P          == res.predicates
    IN  [b \in (DOMAIN best \cup DOMAIN P) \ nowCovered |->
            IF b \in DOMAIN best /\ b \in DOMAIN P THEN Smaller(best[b], P[b])
            ELSE IF b \in DOMAIN best THEN best[b] ELSE P[b]]

Init ==
    /\ covered = {}
    /\ best = [b \in {} |-> 0]
    /\ done = FALSE

\* An execution is observed; the search may stop right after it.
Observe(res) ==
    /\ ~done
    /\ covered' = covered \cup res.tracebits
    /\ best' = Merge(res)
    /\ done' \in BOOLEAN

Next == \E res \in Results : Observe(res)

Spec == Init /\ [][Next]_vars
====
