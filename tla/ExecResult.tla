----------------------------- MODULE ExecResult -----------------------------
(***************************************************************************)
(* What one execution of a testcase reports to the prefuzz scheduler: the  *)
(* branch instrumentation of the EVM step hook in TargetExecutive::exec    *)
(* (src/sFuzz/libfuzzer/TargetExecutive.cpp), folded over the events of   *)
(* one run.  Only the events that the instrumentation reacts to are kept:  *)
(* a comparison (GT, SGT, LT, SLT, EQ) with its two operands, and the      *)
(* crossing of a valid JUMPI, given by its pc and the pc reached next.     *)
(* A branch id "lastpc:pc" is the pair <<lastpc, pc>>.                     *)
(***************************************************************************)
EXTENDS Integers, Sequences, SequencesExt, FiniteSets

CONSTANTS
    JumpDest,   \* valid JUMPI pc -> its jump target (the stack top at the JUMPI)
    CmpWidth    \* width in bits of an EVM word (256 in the code)

ASSUME CmpWidth \in Nat \ {0}

\* Words are u256: arithmetic on them wraps.
Modulus == 2^CmpWidth
Word == 0..(Modulus - 1)

Cmp(l, r) == [op |-> "cmp", l |-> l, r |-> r]
Jmp(pc, to) == [op |-> "jumpi", pc |-> pc, to |-> to]

\* The two branch ids of every valid JUMPI.
Branches == UNION {{<<p, JumpDest[p]>>, <<p, p + 1>>} : p \in DOMAIN JumpDest}

\* Mutant: the distance computed without the u256 wrap.
CompValueWide(l, r) == (IF l > r THEN l - r ELSE r - l) + 1

\* lastCompValue after a comparison: |left - right| + 1, in u256.
CompValue(l, r) == ((IF l > r THEN l - r ELSE r - l) + 1) % Modulus

(***************************************************************************)
(* The successor not taken, from jumpDest1 (the target) and jumpDest2     *)
(* (pc + 1) as they are when the crossing is recorded at `to' (line 410). *)
(* The hook sets them before it records the crossing, so when `to' is a   *)
(* valid JUMPI itself they are already its own targets (lines 297-302),   *)
(* and the id stored is <<pc, JumpDest[to]>>.                              *)
(***************************************************************************)
OtherSide(pc, to) ==
    LET j == IF to \in DOMAIN JumpDest THEN to ELSE pc
    IN  IF to = JumpDest[j] THEN j + 1 ELSE JumpDest[j]

\* The value stored for an untaken branch: a lastCompValue of 0 (operands
\* 2^w - 1 apart) is first decremented, so that a stored 0 always means covered.
PredValueNoWrap(lc) == lc   \* mutant: the "if (lastCompValue == 0)" fix dropped

PredValue(lc) == IF lc = 0 THEN Modulus - 1 ELSE lc

(***************************************************************************)
(* One event of the hook.  A comparison overwrites lastCompValue.  A JUMPI *)
(* crossing inserts the taken id in tracebits and writes the untaken id    *)
(* into predicates with lastCompValue, which is first turned from 0 into   *)
(* 2^w - 1 by the decrement; that decrement is persistent, and a later     *)
(* crossing of the same id overwrites the earlier value.                   *)
(***************************************************************************)
HookStep(acc, e) ==
    IF e.op = "cmp"
    THEN [acc EXCEPT !.lastComp = CompValue(e.l, e.r)]
    ELSE LET v == PredValue(acc.lastComp)
         IN  [lastComp   |-> v,
              tracebits  |-> acc.tracebits \cup {<<e.pc, e.to>>},
              predicates |-> (<<e.pc, OtherSide(e.pc, e.to)>> :> v) @@ acc.predicates]

\* The hook's state at the start of exec: lastCompValue = 1, nothing recorded.
HookInit == [lastComp |-> 1, tracebits |-> {}, predicates |-> [b \in {} |-> 0]]

\* The TargetContainerResult of a prefuzz execution of a run of events.
ExecPrefuzz(run) == FoldLeft(HookStep, HookInit, run)

\* reached_branch of a fuzz-mode execution: each crossed id -> its crossings.
ReachedBranch(run) ==
    LET jumps == {k \in DOMAIN run : run[k].op = "jumpi"}
        id(k) == <<run[k].pc, run[k].to>>
    IN  [b \in {id(k) : k \in jumps} |-> Cardinality({k \in jumps : id(k) = b})]
=============================================================================
