---------------------------- MODULE MCMutation -----------------------------
(***************************************************************************)
(* A 64-byte testcase: four effector blocks, of which the first and the   *)
(* last are marked by the constructor, and two 32-byte ABI words whose    *)
(* address slot (bytes 12..31 of a word) the address dictionary fills.    *)
(* The first word already holds the first attacker address.               *)
(***************************************************************************)
EXTENDS Mutation

AddrA == [t \in 1..20 |-> 7]
AddrB == [t \in 1..20 |-> 9]
MCAddresses == <<AddrA, AddrB>>
MCCodeDict == <<<<96, 0>>>>

MCInput == [x \in 1..64 |-> IF 13 <= x /\ x <= 32 THEN 7 ELSE 0]

\* A partner that differs over bytes 40..50, and one that differs at byte 60 only.
Wide == [x \in 1..64 |-> IF 41 <= x /\ x <= 51 THEN 3 ELSE MCInput[x]]
Narrow == [MCInput EXCEPT ![61] = 1]
Leader == [data |-> MCInput, cksum |-> 1]
MCQueues ==
    { <<Leader>>,
      <<Leader, [data |-> Wide, cksum |-> 1]>>,
      <<[data |-> Narrow, cksum |-> 3], Leader, [data |-> Wide, cksum |-> 2]>> }

MCFds == <<"f", "g", "ctor">>
=============================================================================
