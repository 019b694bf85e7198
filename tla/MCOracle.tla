------------------------------ MODULE MCOracle ------------------------------
(***************************************************************************)
(* Events the fuzz-mode instruction hook of TargetExecutive saves, one of *)
(* each shape a classifier tells apart.  ATTACKER_ADDRESS is 240 (0xf0),  *)
(* CONTRACT_ADDRESS 241 (0xf1).                                           *)
(***************************************************************************)
EXTENDS Oracle

\* Root CALLs: the sender (the attacker) calls the victim.  The calldata of
\* r1 reads "0f10" in hex, so it contains the digits "f1" of the victim.
r1 == [Event(0, "CALL", 0) EXCEPT !.data = <<15, 16>>, !.caller = 240, !.callee = 241]
r2 == [Event(0, "CALL", 0) EXCEPT !.data = <<7>>, !.caller = 240, !.callee = 241]
MCRoots == {r1, r2}

\* gasCost > gasLeft at some instruction.
gas == [Event(0, "SSTORE", 6) EXCEPT !.isGasless = TRUE]
\* ADD whose 512-bit sum differs from the 256-bit one; SUB with left < right.
add == [Event(0, "ADD", 9) EXCEPT !.isOverflow = TRUE]
sub == [Event(0, "SUB", 8) EXCEPT !.isUnderflow = TRUE]
\* INVALID executed inside a nested call.
inv == Event(1, "INVALID", 30)
\* A CALL from the victim to the attacker whose result is not checked.
call == [Event(1, "CALL", 20) EXCEPT !.caller = 241, !.callee = 240, !.isChecked = FALSE]
\* A recordable DELEGATECALL with no onlyOwner modifier, to the victim.
dcall == [Event(1, "DELEGATECALL", 25) EXCEPT !.caller = 241, !.callee = 241,
                                              !.noOnlyOwner = TRUE]
\* The victim calling again ten frames deep.
deep == [Event(10, "CALL", 40) EXCEPT !.caller = 241, !.callee = 240]
\* TIMESTAMP read, then the recorded JUMPCI of a valid jumpi.
ts == Event(0, "TIMESTAMP", 12)
jci == Event(0, "JUMPCI", 19)
MCEvents == {gas, add, sub, inv, call, dcall, deep, ts, jci}

====
