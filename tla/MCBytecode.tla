----------------------------- MODULE MCBytecode -----------------------------
(***************************************************************************)
(* A contract of two functions, as tokens (offset = index - 1):            *)
(*   contract function onlyOwner require ( a && b ) if ( x.send( ) }       *)
(*   function forward ( lib.delegatecall( now a.transfer( }                *)
(* f1 (1,13) is onlyOwner and has parameters: its CALLDATALOAD enters it.  *)
(* f2 (14,7) has none: nothing marks its entry.  require(a && b) (3,6)     *)
(* holds the short-circuit JUMPIs a (5,1) and b (7,1); a lies in the       *)
(* constant range.  forward(...) (15,3) is a call that starts with "for".  *)
(*                                                                         *)
(* The runtime code starts with a PUSH1 whose immediate is a JUMPI byte    *)
(* and ends with a PUSH2 cut short, past the last source-map row, as the   *)
(* metadata trailer does.  In C1 the deployment code has a require JUMPI   *)
(* at pc 9, the pc of the runtime's if JUMPI.  C2 enters f2 instead of f1  *)
(* and narrows require to (3,5), so that b ends where require ends; its    *)
(* hex is upper case.  C3 is C1 with an unlinked library placeholder in    *)
(* its runtime code.                                                        *)
(***************************************************************************)
EXTENDS Bytecode, TLC

MCSource ==
    <<"contract", "function", "onlyOwner", "require", "(", "a", "&&", "b", ")",
      "if", "(", "x.send(", ")", "}", "function", "forward", "(", "lib.delegatecall(",
      "now", "a.transfer(", "}">>

MCTokenPrefixes ==
    [t \in {MCSource[k] : k \in DOMAIN MCSource} |->
        CASE t \in {"function", "require", "if"} -> {t}
          [] t = "forward" -> {"for"}
          [] OTHER -> {}]

\* Lower-cased as the code does before looking for onlyowner.
MCTokenWords ==
    [t \in {MCSource[k] : k \in DOMAIN MCSource} |->
        CASE t = "onlyOwner" -> {"onlyowner"}
          [] t \in {"require", "if", "function"} -> {t}
          [] t = "forward" -> {"for"}
          [] t = "x.send(" -> {".send("}
          [] t = "lib.delegatecall(" -> {".delegatecall(", "delegatecall"}
          [] t = "a.transfer(" -> {".transfer("}
          [] t = "now" -> {"now"}
          [] OTHER -> {}]

Runtime ==
    <<"PUSH1", "JUMPI", "CALLDATALOAD", "JUMPI", "CALLDATALOAD", "JUMPI", "JUMPI", "JUMPI",
      "CALL", "JUMPI", "JUMPI", "DELEGATECALL", "TIMESTAMP", "NUMBER", "CALL", "PUSH2", "STOP">>

RuntimeRows(entry, require) ==
    <<<<0, 21>>, <<>>, <<Empty, Empty>>, entry, <<5, 1>>, <<7>>, require, <<11, 1>>, <<9, 4>>,
      <<15, 3>>, <<17, 1>>, <<18>>, <<>>, <<19, 1>>>>

Deployment ==
    <<"PUSH3", "JUMPI", "JUMPI", "CALL", "JUMPI", "DELEGATECALL", "TIMESTAMP", "PUSH1", "STOP", "JUMPI">>
DeploymentRows == <<<<0, 21>>, <<3, 6>>, <<17, 1>>, <<18>>, <<>>, <<3, 6>>>>

\* The hex text of a program of opcode names, two digits a byte.
HexOfOps(ops, digits) ==
    FoldLeft(LAMBDA t, n : t \o <<digits[(OpcodeByte[n] \div 16) + 1], digits[(OpcodeByte[n] % 16) + 1]>>,
             <<>>, ops)
Lower == HexAlphabet
Upper == DecimalDigits \o UpperDigits

\* C3 calls a library: solc leaves the 40-character placeholder
\* __$...$__ after its PUSH20 (here shortened to one byte's width).
Linked == HexOfOps(<<"PUSH1", "JUMPI", "CALLDATALOAD", "PUSH20">>, Lower) \o <<"_", "_">>
          \o HexOfOps(<<"JUMPI", "CALL", "STOP">>, Lower)

MCContracts ==
    { [bin |-> HexOfOps(Deployment \o Runtime, Lower), binRuntime |-> HexOfOps(Runtime, Lower),
       srcmap |-> DeploymentRows, srcmapRuntime |-> RuntimeRows(<<1, 13>>, <<3, 6>>)],
      [bin |-> HexOfOps(Runtime, Upper), binRuntime |-> HexOfOps(Runtime, Upper),
       srcmap |-> <<>>, srcmapRuntime |-> RuntimeRows(<<14, 7>>, <<3, 5>>)],
      [bin |-> HexOfOps(Deployment, Lower) \o Linked, binRuntime |-> Linked,
       srcmap |-> DeploymentRows, srcmapRuntime |-> RuntimeRows(<<1, 13>>, <<3, 6>>)] }

\* Texts of up to three characters, alone and after "0x": digits of both
\* cases, a prefix character and a placeholder character.
MCHexTexts ==
    LET short == BoundedSeq({"0", "7", "c", "F", "x", "_"}, 3)
    IN  short \cup {<<"0", "x">> \o t : t \in short}

MCConstantRanges == {<<5, 1>>}
=============================================================================
