------------------------------- MODULE Oracle -------------------------------
(***************************************************************************)
(* The vulnerability oracle (src/sFuzz/liboracle/OracleFactory.cpp) fed   *)
(* by the fuzz-mode executor (TargetExecutive::exec).  The executor saves *)
(* one OpcodeContext per recorded event into `function', finalizes each  *)
(* call into `functions', and Fuzzer's save callback runs analyze() after *)
(* every execution: ten classifiers per finalized function bump the      *)
(* uint16_t vulnerability counters and fill the distinction sets, and the *)
(* functions buffer is cleared.                                           *)
(*                                                                         *)
(* Instructions are strings, pcs and addresses small naturals, calldata a *)
(* sequence of bytes.  An address is one byte wide here (20 in the code), *)
(* so toHex of an address is two hex digits.                              *)
(***************************************************************************)
EXTENDS Integers, Sequences, SequencesExt, FiniteSets

CONSTANTS
    Roots,            \* root CALL events of a call (level 0, pc 0)
    Events,           \* events the instruction hook can save during a call
    FaultPcs,         \* recordParam.lastpc values at an exception
    MaxSteps,         \* events saved per call, besides root and fault
    MaxCalls,         \* calls executed over the whole run
    CounterWidth,     \* width of vulnerabilities[k] (uint16_t)
    OverflowNumWidth  \* width of overflow_num (uint8_t)

\* Kind indices of Common.h.
GASLESS == 0
UNCHECKED_CALL == 1
TIME_DEPENDENCY == 2
NUMBER_DEPENDENCY == 3
DELEGATE_CALL == 4
REENTRANCY == 5
FREEZING == 6
OVERFLOW == 7
UNDERFLOW == 8
UNEXPECTED_ETH == 9
Kinds == 0..9

\* CONTRACT_ADDRESS, the address the victim contract is deployed at.
VictimAddress == 241

\* An OpcodeContext(level, payload) with the payload's default fields.
Event(level, inst, pc) ==
    [level |-> level, inst |-> inst, pc |-> pc, data |-> <<>>,
     caller |-> 0, callee |-> 0, isOverflow |-> FALSE,
     isUnderflow |-> FALSE, noOnlyOwner |-> FALSE, has0Condition |-> FALSE,
     isGasless |-> FALSE, isChecked |-> TRUE]

U16(x) == x % 2^16

\* ctx.payload.pc - lastpc < n on u256: a negative difference wraps to a
\* number far above n.
PcDistLess(pc, lastpc, n) == pc >= lastpc /\ pc - lastpc < n

Comparisons == {"GT", "SGT", "LT", "SLT", "EQ"}

\* toHex of a byte sequence and of a (one-byte) address: two digits a byte.
HexOf(bytes) == FoldLeft(LAMBDA h, b : h \o <<b \div 16, b % 16>>, <<>>, bytes)
AddressHex(a) == <<a \div 16, a % 16>>

\* string::find(needle) != npos
HexFind(hay, needle) ==
    \E i \in 0..(Len(hay) - Len(needle)) :
        SubSeq(hay, i + 1, i + Len(needle)) = needle

(***************************************************************************)
(* The classifiers.  Each maps one function (a sequence of events) to    *)
(* [flag, dist]: whether vulnerabilities[k] is bumped and the pcs added  *)
(* to distinctions[k].                                                    *)
(***************************************************************************)

\* GASLESS: the pc two events before every gasless event.
GaslessStepLastPc1(s, ctx) ==
    [gasless |-> s.gasless \/ ctx.isGasless,
     dist |-> IF ctx.isGasless THEN s.dist \cup {s.lastpc1} ELSE s.dist,
     lastpc2 |-> s.lastpc1, lastpc1 |-> U16(ctx.pc)]
GaslessStep(s, ctx) ==
    [gasless |-> s.gasless \/ ctx.isGasless,
     dist |-> IF ctx.isGasless THEN s.dist \cup {s.lastpc2} ELSE s.dist,
     lastpc2 |-> s.lastpc1, lastpc1 |-> U16(ctx.pc)]
Gasless(f) ==
    LET r == FoldLeft(GaslessStep,
                      [gasless |-> FALSE, dist |-> {}, lastpc1 |-> 0, lastpc2 |-> 0], f)
    IN  [flag |-> r.gasless, dist |-> r.dist]

\* UNCHECKED_CALL: an exception inside a nested call the root call
\* survived, or a call whose result is not checked.
UncheckedCall(f) ==
    LET rootCallResponse == f[Len(f)]
        rootException == rootCallResponse.inst = "INVALID" /\ rootCallResponse.level = 0
        hits == {i \in DOMAIN f :
                    \/ ~rootException /\ f[i].inst = "INVALID" /\ f[i].level # 0
                    \/ ~f[i].isChecked}
    IN  [flag |-> hits # {}, dist |-> {U16(f[i].pc) : i \in hits}]

\* TIME_DEPENDENCY (src = "TIMESTAMP") and NUMBER_DEPENDENCY (src = "NUMBER").
Dependency(f, src) ==
    LET Step(s, ctx) ==
          LET s1 == IF ctx.inst = src
                    THEN [s EXCEPT !.has = TRUE, !.lastpc = ctx.pc, !.reached = FALSE]
                    ELSE s
              sha == s1.has /\ ~s1.reached /\ ctx.inst = "SHA3"
              s2 == [s1 EXCEPT !.sha3 = @ \/ sha,
                               !.dist = IF sha THEN @ \cup {U16(s1.lastpc)} ELSE @,
                               !.reached = @ \/ ctx.inst = "JUMPCI"]
              s3 == IF ctx.inst \in Comparisons /\ PcDistLess(ctx.pc, s2.lastpc, 3)
                    THEN [s2 EXCEPT !.lastpc = ctx.pc] ELSE s2
              cond == ctx.inst = "JUMPCI" /\ PcDistLess(ctx.pc, s3.lastpc, 9)
          IN  [s3 EXCEPT !.inCond = @ \/ cond,
                         !.dist = IF cond THEN @ \cup {U16(s3.lastpc)} ELSE @]
        r == FoldLeft(Step, [has |-> FALSE, sha3 |-> FALSE, reached |-> FALSE,
                             inCond |-> FALSE, lastpc |-> 0, dist |-> {}], f)
    IN  [flag |-> (r.has /\ r.inCond) \/ r.sha3, dist |-> r.dist]

\* DELEGATE_CALL: an unguarded DELEGATECALL steered by the root call.
DelegateCall(f) ==
    LET root == f[1]
        hits == {i \in DOMAIN f :
                    /\ f[i].inst = "DELEGATECALL" /\ f[i].noOnlyOwner
                    /\ \/ root.data = f[i].data
                       \/ root.caller = f[i].callee
                       \/ HexFind(HexOf(root.data), AddressHex(f[i].callee))}
    IN  [flag |-> hits # {}, dist |-> {U16(f[i].pc) : i \in hits}]

\* REENTRANCY: an event ten calls deep made by the victim; the distinction
\* is the pc of the latest level-0 event before it.
ReentrancyStep(s, ctx) ==
    LET may == IF ctx.level = 0 THEN U16(ctx.pc) ELSE s.may
        loop == ctx.level >= 10 /\ ctx.caller = VictimAddress
    IN  [may |-> may, loop |-> s.loop \/ loop,
         dist |-> IF loop THEN s.dist \cup {may} ELSE s.dist]
Reentrancy(f) ==
    LET r == FoldLeft(ReentrancyStep, [may |-> 0, loop |-> FALSE, dist |-> {}], f)
    IN  [flag |-> r.loop, dist |-> r.dist]

\* FREEZING: a DELEGATECALL while no transfer at depth 1 was ever seen;
\* ft is the member freezing_transfer, carried in and out.
Freezing(f, ft) ==
    LET Step(s, ctx) ==
          [ft |-> s.ft \/ (ctx.level = 1 /\ ctx.inst \in {"CALL", "CALLCODE", "SUICIDE"}),
           has |-> s.has \/ ctx.inst = "DELEGATECALL",
           dcpc |-> IF ctx.inst = "DELEGATECALL" THEN ctx.pc ELSE s.dcpc]
        r == FoldLeft(Step, [ft |-> ft, has |-> FALSE, dcpc |-> 0], f)
    IN  [flag |-> r.has /\ ~r.ft,
         dist |-> IF r.has /\ ~r.ft THEN {U16(r.dcpc)} ELSE {},
         ft |-> r.ft]

\* UNDERFLOW: any event flagged isUnderflow.
Underflow(f) ==
    LET hits == {i \in DOMAIN f : f[i].isUnderflow}
    IN  [flag |-> hits # {}, dist |-> {U16(f[i].pc) : i \in hits}]

\* OVERFLOW: overflow_num counts the isOverflow events in a uint8_t.
Overflow(f) ==
    LET Step(s, ctx) ==
          IF ctx.isOverflow
          THEN [num |-> (s.num + 1) % 2^OverflowNumWidth, dist |-> s.dist \cup {U16(ctx.pc)}]
          ELSE s
        r == FoldLeft(Step, [num |-> 0, dist |-> {}], f)
    IN  [flag |-> r.num # 0, dist |-> r.dist]

\* UNEXPECTED_ETH: BALANCE reaching a JUMPCI through comparisons with no
\* zero operand.
UnexpectedEth(f) ==
    LET Step(s, ctx) ==
          LET s1 == IF ctx.inst = "BALANCE"
                    THEN [s EXCEPT !.has = TRUE, !.lastpc = ctx.pc]
                    ELSE s
              s3 == IF /\ ctx.inst \in Comparisons
                       /\ PcDistLess(ctx.pc, s1.lastpc, 3) /\ ~ctx.has0Condition
                    THEN [s1 EXCEPT !.lastpc = ctx.pc] ELSE s1
              cond == ctx.inst = "JUMPCI" /\ PcDistLess(ctx.pc, s3.lastpc, 9)
          IN  [s3 EXCEPT !.inCond = @ \/ cond,
                         !.dist = IF cond THEN @ \cup {U16(s3.lastpc)} ELSE @]
        r == FoldLeft(Step, [has |-> FALSE, inCond |-> FALSE, lastpc |-> 0, dist |-> {}], f)
    IN  [flag |-> r.has /\ r.inCond, dist |-> r.dist]

(***************************************************************************)
(* analyze(): every function through the ten classifiers, in order, with *)
(* freezing_transfer carried from one function to the next.              *)
(***************************************************************************)
Classify(f, frozen) ==
    (GASLESS :> Gasless(f)) @@ (UNCHECKED_CALL :> UncheckedCall(f)) @@
    (TIME_DEPENDENCY :> Dependency(f, "TIMESTAMP")) @@
    (NUMBER_DEPENDENCY :> Dependency(f, "NUMBER")) @@
    (DELEGATE_CALL :> DelegateCall(f)) @@ (REENTRANCY :> Reentrancy(f)) @@
    (FREEZING :> [flag |-> frozen.flag, dist |-> frozen.dist]) @@
    (OVERFLOW :> Overflow(f)) @@ (UNDERFLOW :> Underflow(f)) @@
    (UNEXPECTED_ETH :> UnexpectedEth(f))

AnalyzeFunction(acc, f) ==
    LET frozen == Freezing(f, acc.ft)
        res == Classify(f, frozen)
    IN  [v |-> [k \in Kinds |-> IF res[k].flag THEN (acc.v[k] + 1) % 2^CounterWidth
                                                ELSE acc.v[k]],
         d |-> [k \in Kinds |-> acc.d[k] \cup res[k].dist],
         ft |-> frozen.ft]

(***************************************************************************)
(* The rules of the specification (spec.md 4.6), read per function, for  *)
(* the kinds they state precisely.                                        *)
(***************************************************************************)
SpecKinds == {GASLESS, UNCHECKED_CALL, REENTRANCY, FREEZING, OVERFLOW, UNDERFLOW}
RootFaulted(f) == \E i \in DOMAIN f : f[i].inst = "INVALID" /\ f[i].level = 0
SpecFlags(f) ==
    (GASLESS :> \E i \in DOMAIN f : f[i].isGasless) @@
    (UNCHECKED_CALL :> \E i \in DOMAIN f :
        \/ f[i].inst = "INVALID" /\ f[i].level > 0 /\ ~RootFaulted(f)
        \/ f[i].inst \in {"CALL", "DELEGATECALL"} /\ ~f[i].isChecked) @@
    (REENTRANCY :> \E i \in DOMAIN f : f[i].level >= 10 /\ f[i].caller = VictimAddress) @@
    (FREEZING :> /\ \E i \in DOMAIN f : f[i].inst = "DELEGATECALL"
                 /\ ~\E i \in DOMAIN f :
                       f[i].level = 1 /\ f[i].inst \in {"CALL", "CALLCODE", "SUICIDE"}) @@
    (OVERFLOW :> \E i \in DOMAIN f : f[i].isOverflow) @@
    (UNDERFLOW :> \E i \in DOMAIN f : f[i].isUnderflow)
\* Gasless send "records the pc two steps before the flag"; with fewer
\* than two steps before it the insert is skipped (spec.md 9 (c)).
SpecGaslessPcs(f) ==
    {U16(f[i - 2].pc) : i \in {j \in DOMAIN f : f[j].isGasless /\ j > 2}}

VARIABLES
    function,          \* OracleFactory::function, the call being recorded
    functions,         \* OracleFactory::functions, finalized calls not yet analyzed
    vulnerabilities,   \* OracleFactory::vulnerabilities
    distinctions,      \* OracleFactory::distinctions
    freezing_transfer, \* OracleFactory::freezing_transfer
    phase,             \* executor: idle, exec (between calls), call, analyze
    calls,             \* calls executed so far
    specCount,         \* history: finalized calls the spec's rule k flags
    specGaslessPcs     \* history: the gasless pcs the spec's rule names

vars == <<function, functions, vulnerabilities, distinctions, freezing_transfer,
          phase, calls, specCount, specGaslessPcs>>

\* The OracleFactory constructor.
Init ==
    /\ function = <<>>
    /\ functions = <<>>
    /\ vulnerabilities = [k \in Kinds |-> 0]
    /\ distinctions = [k \in Kinds |-> {}]
    /\ freezing_transfer = FALSE
    /\ phase = "idle"
    /\ calls = 0
    /\ specCount = [k \in SpecKinds |-> 0]
    /\ specGaslessPcs = {}

\* exec: deploy, then oracleFactory->initialize().
Initialize ==
    /\ phase = "idle" /\ calls < MaxCalls
    /\ function' = <<>>
    /\ phase' = "exec"
    /\ UNCHANGED <<functions, vulnerabilities, distinctions, freezing_transfer,
                   calls, specCount, specGaslessPcs>>

\* Before a call (constructor or function): save the root CALL event.
BeginCall(root) ==
    /\ phase = "exec" /\ calls < MaxCalls
    /\ function' = Append(function, root)
    /\ calls' = calls + 1
    /\ phase' = "call"
    /\ UNCHANGED <<functions, vulnerabilities, distinctions, freezing_transfer,
                   specCount, specGaslessPcs>>

\* OracleFactory::save from the instruction hook.
Save(ctx) ==
    /\ phase = "call" /\ Len(function) <= MaxSteps
    /\ function' = Append(function, ctx)
    /\ UNCHANGED <<functions, vulnerabilities, distinctions, freezing_transfer,
                   phase, calls, specCount, specGaslessPcs>>

FinalizeKeep(f) ==
    /\ functions' = Append(functions, f)
    /\ function' = f
    /\ phase' = "exec"
    /\ specCount' = [k \in SpecKinds |-> IF SpecFlags(f)[k]
                                         THEN (specCount[k] + 1) % 2^CounterWidth
                                         ELSE specCount[k]]
    /\ specGaslessPcs' = specGaslessPcs \cup SpecGaslessPcs(f)
    /\ UNCHANGED <<vulnerabilities, distinctions, freezing_transfer, calls>>

\* OracleFactory::finalize of the call's trace f.
Finalize(f) ==
    /\ functions' = Append(functions, f)
    /\ function' = <<>>
    /\ phase' = "exec"
    /\ specCount' = [k \in SpecKinds |-> IF SpecFlags(f)[k]
                                         THEN (specCount[k] + 1) % 2^CounterWidth
                                         ELSE specCount[k]]
    /\ specGaslessPcs' = specGaslessPcs \cup SpecGaslessPcs(f)
    /\ UNCHANGED <<vulnerabilities, distinctions, freezing_transfer, calls>>

\* The call returned.
EndCall ==
    /\ phase = "call"
    /\ Finalize(function)

\* The call threw: an INVALID event at level 0 (pc recordParam.lastpc)
\* is saved, then the call is finalized.
FaultEvent(pc) == Event(0, "INVALID", pc)
EndCallExcepted(pc) ==
    /\ phase = "call"
    /\ Finalize(Append(function, FaultEvent(pc)))

\* exec returned to the save callback, which runs analyze().
EndExec ==
    /\ phase = "exec" /\ functions # <<>>
    /\ phase' = "analyze"
    /\ UNCHANGED <<function, functions, vulnerabilities, distinctions,
                   freezing_transfer, calls, specCount, specGaslessPcs>>

Analyze ==
    /\ phase = "analyze"
    /\ LET r == FoldLeft(AnalyzeFunction,
                         [v |-> vulnerabilities, d |-> distinctions, ft |-> freezing_transfer],
                         functions)
       IN  /\ vulnerabilities' = r.v
           /\ distinctions' = r.d
           /\ freezing_transfer' = r.ft
    /\ functions' = <<>>
    /\ phase' = "idle"
    /\ UNCHANGED <<function, calls, specCount, specGaslessPcs>>

Next ==
    \/ Initialize
    \/ \E root \in Roots : BeginCall(root)
    \/ \E ctx \in Events : Save(ctx)
    \/ EndCall
    \/ \E pc \in FaultPcs : EndCallExcepted(pc)
    \/ EndExec
    \/ Analyze

Spec == Init /\ [][Next]_vars

-----------------------------------------------------------------------------

\* The trace of one call: its root CALL, the hook's events, and the fault
\* event last if the call threw.  analyze reads function[0] and
\* function[size - 1] of every buffered trace.
IsCallTrace(f) ==
    /\ Len(f) >= 1 /\ f[1] \in Roots
    /\ \A i \in 2..Len(f) :
          \/ f[i] \in Events
          \/ i = Len(f) /\ f[i] \in {FaultEvent(pc) : pc \in FaultPcs}

\* Every trace the oracle buffers or classifies is one call's trace.
TypeOK ==
    /\ function \in Seq(Roots \cup Events)
    /\ functions \in Seq(Seq(Roots \cup Events \cup {FaultEvent(pc) : pc \in FaultPcs}))
    /\ \A i \in DOMAIN functions : IsCallTrace(functions[i])
    /\ vulnerabilities \in [Kinds -> 0..(2^CounterWidth - 1)]
    /\ distinctions \in [Kinds -> SUBSET (0..(2^16 - 1))]
    /\ freezing_transfer \in BOOLEAN
    /\ phase \in {"idle", "exec", "call", "analyze"}
    /\ calls \in 0..MaxCalls

\* After every analyze the counters of gasless send, unchecked call,
\* reentrancy, overflow and underflow count exactly the calls executed so
\* far that the specification's rule flags, and the gasless distinctions
\* are the pcs two events before each gasless event: no finalized call is
\* lost, analyzed twice, or classified differently from the rule.  The
\* one difference allowed is pc 0, which the code's lastpc2 = 0 inserts for
\* a gasless event right after the root CALL, where the spec skips it.
ClassifiersMatchSpec ==
    phase = "idle" =>
        /\ \A k \in SpecKinds \ {FREEZING} : vulnerabilities[k] = specCount[k]
        /\ specGaslessPcs \subseteq distinctions[GASLESS]
        /\ distinctions[GASLESS] \subseteq specGaslessPcs \cup {0}

\* The freezing-ether counter counts the calls that, in themselves, made a
\* DELEGATECALL and no transfer at depth 1 (spec.md 4.6: "in this
\* function"); OracleFactory keeps freezing_transfer across calls.
FreezingPerFunction ==
    phase = "idle" => vulnerabilities[FREEZING] = specCount[FREEZING]

====
