--------------------------- MODULE MCExecutorHook ---------------------------
(***************************************************************************)
(* Calls enter at pc 0.  Deployment code: a comparison at 1 feeding the    *)
(* valid JUMPI at 2 (target 5), an INVALID on its fall-through side (the   *)
(* assert pattern) and a checked CALL at its target.  Runtime code: a      *)
(* CALLDATALOAD, a PUSH and an AND (the type-cast overflow check), a CALL  *)
(* at 5, the pc of the deployment's checked CALL, a comparison at 7        *)
(* feeding the valid JUMPI at 8 (target 11), whose fall-through is the     *)
(* valid JUMPI at 9 (target 12), whose fall-through is a comparison at 10; *)
(* a recordable DELEGATECALL at 11 and a recordable TIMESTAMP at 12.       *)
(* 1-bit words make the distance wrap to 0 reachable.                      *)
(***************************************************************************)
EXTENDS ExecutorHook, TLC

MCDeployCode == (0 :> "other") @@ (1 :> "cmp") @@ (2 :> "jumpi") @@ (3 :> "invalid") @@ (5 :> "call")
MCRuntimeCode == (0 :> "calldataload") @@ (1 :> "push") @@ (2 :> "and") @@ (5 :> "call")
                 @@ (7 :> "cmp") @@ (8 :> "jumpi") @@ (9 :> "jumpi") @@ (10 :> "cmp")
                 @@ (11 :> "delegatecall") @@ (12 :> "timestamp")

MCDeployJumpDest == (2 :> 5)
MCRuntimeJumpDest == (8 :> 11) @@ (9 :> 12)

\* get<2..9>(valids): runtime TIMESTAMP 12, runtime DELEGATECALL 11 (not in
\* an onlyOwner function), the deployment CALL 5 checked.
MCValids == [k \in 2..9 |-> CASE k = 3 -> {12}
                              [] k \in {6, 7} -> {11}
                              [] k = 8 -> {5}
                              [] OTHER -> {}]
=============================================================================
