------------------------------ MODULE MCPrefuzz ------------------------------
(***************************************************************************)
(* A contract with two valid JUMPIs (pc 10 jumping to 20, pc 30 jumping to *)
(* 40), 2-bit words so that the |l - r| + 1 wrap is reachable, and four    *)
(* testcases: t1 and t2 take the fall-through sides with different         *)
(* distances to the jumps, t3 takes both jumps, t4 crosses no JUMPI.  The  *)
(* splice of t1 after t2 reaches the jump at 30 from t1's calls.  t5 is a  *)
(* loop over the JUMPI at 10 that takes both its sides, so a first save of *)
(* t5 covers everything it reaches and stops at the early exit.            *)
(***************************************************************************)
EXTENDS Prefuzz, TLC

CONSTANTS t1, t2, t3, t4, t5

MCTests == {t1, t2, t3, t4, t5}

MCJumpDest == (10 :> 20) @@ (30 :> 40)

MCRun ==
    (t1 :> <<Cmp(0, 2), Jmp(10, 11)>>) @@
    (t2 :> <<Cmp(1, 2), Jmp(10, 11), Cmp(0, 3), Jmp(30, 31)>>) @@
    (t3 :> <<Cmp(1, 2), Jmp(10, 20), Jmp(30, 40)>>) @@
    (t4 :> <<>>) @@
    (t5 :> <<Cmp(0, 1), Jmp(10, 20), Cmp(1, 1), Jmp(10, 11)>>)

MCSpliceRun ==
    [pt \in MCTests \X MCTests |->
        IF pt = <<t2, t1>> THEN <<Cmp(3, 3), Jmp(30, 40)>> ELSE MCRun[pt[2]]]
=============================================================================
