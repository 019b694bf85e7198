---------------------------- MODULE ExecutorHook ----------------------------
(***************************************************************************)
(* The per-instruction hook onOp of TargetExecutive::exec                  *)
(* (src/sFuzz/libfuzzer/TargetExecutive.cpp), one step per instruction the *)
(* VM is about to execute, over the constructor call and the function      *)
(* calls of one testcase, in prefuzz mode (branch coverage, distances and  *)
(* prefixes) and in fuzz mode (oracle events and reached_branch).  The VM  *)
(* is the environment: it runs instructions of the deployment code in the  *)
(* constructor and of the runtime code in the functions, continues after a *)
(* valid JUMPI at its target or at pc+1, may end a call at any instruction,*)
(* with an exception or not, and must end it with an exception after an    *)
(* INVALID or an instruction it cannot pay for (gasCost > gasLeft); with   *)
(* JumpiMayFault false never right at a JUMPI.                             *)
(*                                                                         *)
(* An oracle event is its level, instruction and pc, and for calls the    *)
(* isChecked mark; the other payload fields (wei, data, addresses, the     *)
(* overflow flags) are data the oracle model takes as its input, and      *)
(* isReallyFlow/recordFlow are never read by the oracle.                  *)
(***************************************************************************)
EXTENDS Integers, Sequences, SequencesExt

CONSTANTS
    DeployCode,      \* deployment code: pc -> instruction kind (Kinds)
    RuntimeCode,     \* runtime code: pc -> instruction kind
    DeployJumpDest,  \* get<0>(valids): valid JUMPI pc of the deployment code -> target
    RuntimeJumpDest, \* get<1>(valids): valid JUMPI pc of the runtime code -> target
    Valids,          \* k \in 2..9 -> get<k>(valids), the other pc sets
    PrefuzzModes,    \* the values of is_prefuzz the run is checked for
    CmpWidth,        \* width in bits of an EVM word
    NumFuncs,        \* funcs.size(): function calls after the constructor
    IsSplice,        \* exec(..., isSplice, ...)
    PcLimit,         \* pcs above it are not recorded in prefixes (8192 in the code)
    MaxSteps,        \* bound on the instructions of one execution
    JumpiMayFault    \* whether a call may end with an exception at a JUMPI

\* The branch bookkeeping of the hook is what ExecResult folds over a run.
ER == INSTANCE ExecResult WITH JumpDest <- DeployJumpDest @@ RuntimeJumpDest

ASSUME DOMAIN DeployJumpDest \cap DOMAIN RuntimeJumpDest = {}

VARIABLES
    is_prefuzz,  \* exec(..., is_prefuzz)
    txn,         \* transactionNum: 0 is the constructor
    prevInst,    \* kind of the previous hooked instruction ("invalid" initially)
    lastpc,      \* recordParam.lastpc
    lastComp,    \* lastCompValue
    jumpDest1,   \* target of the last valid JUMPI
    jumpDest2,   \* pc + 1 of the last valid JUMPI
    preDataload, \* pc of the last CALLDATALOAD (fuzz mode)
    tracebits,   \* the run's taken branch ids
    predicates,  \* the run's untaken branch ids -> distance
    pclist,      \* increasing pcs visited in the current call
    prefix_map,  \* branch id -> pclist when it was first crossed
    reached_branch, \* fuzz mode: branch id -> crossings
    function,    \* oracleFactory->function: the events of the current call
    functions,   \* oracleFactory->functions: the finalized calls
    vmAfter,     \* environment: the valid JUMPI just executed, Entry, Halt or NoPc
    steps,       \* instructions executed so far
    done,        \* exec has returned
    log,         \* history: the events the hook applied, as ExecResult events
    uniqExceptions, \* recordParam.lastpc of every call that raised an exception
    excepted     \* history: whether each ended call raised an exception

vars == <<is_prefuzz, txn, prevInst, lastpc, lastComp, jumpDest1, jumpDest2, preDataload,
          tracebits, predicates, pclist, prefix_map, reached_branch, function, functions,
          vmAfter, steps, done, log, uniqExceptions, excepted>>

NoPc == -1
Entry == -2   \* a call starts at pc 0
Halt == -3    \* the instruction just hooked throws: the call ends with an exception
Kinds == {"cmp", "jumpi", "other", "call", "delegatecall", "timestamp", "number",
          "push", "and", "calldataload", "add", "invalid"}
isDeployment == txn = 0
Code == IF isDeployment THEN DeployCode ELSE RuntimeCode
JumpDest == IF isDeployment THEN DeployJumpDest ELSE RuntimeJumpDest
\* get<k>(valids) for the program being run: k for the deployment, k+1 for the runtime.
InValid(k, pc) == pc \in Valids[IF isDeployment THEN k ELSE k + 1]

\* Line 67: a splice run skips the hook in the partner's (first) half of the calls.
Skipped == IsSplice /\ txn > 0 /\ txn <= NumFuncs \div 2

\* Mutant: the pc <= 8192 limit dropped.
PushPcNoLimit(l, pc) ==
    IF pc \notin Range(l) /\ (l = <<>> \/ pc > Last(l)) THEN Append(l, pc) ELSE l

\* Lines 336-350: append pc when it is within the limit, new and increasing.
PushPc(l, pc) ==
    IF pc <= PcLimit /\ pc \notin Range(l) /\ (l = <<>> \/ pc > Last(l))
    THEN Append(l, pc) ELSE l

\* Mutant: the taken successor recorded as the untaken one.
OtherBranchTaken(pc, jd1, jd2) == pc

\* Line 410: the successor not taken, from the last valid JUMPI's two targets.
OtherBranch(pc, jd1, jd2) == IF pc = jd1 THEN jd2 ELSE jd1

\* An OpcodeContext(level, payload), isChecked defaulting to true.
Ev(level, inst, pc) == [level |-> level, inst |-> inst, pc |-> pc, checked |-> TRUE]
RootCall == Ev(0, "call", 0)

\* Lines 112-127: a CALL or DELEGATECALL whose pc is in any of the ten sets,
\* of either program, is checked iff it is in the current program's set 8/9.
IsChecked(pc) ==
    LET anySet == pc \in DOMAIN DeployJumpDest \cup DOMAIN RuntimeJumpDest
                  \/ \E k \in 2..9 : pc \in Valids[k]
    IN  ~anySet \/ InValid(8, pc)

(***************************************************************************)
(* Lines 71-243: the events the oracle switch saves for the instruction    *)
(* kind at pc.  A CALL is saved at depth + 1; a DELEGATECALL only at a pc  *)
(* of runtime set 6; TIMESTAMP and NUMBER only at a pc of sets 2/3 and     *)
(* 4/5; ADD, SUB, SHA3, BALANCE, SUICIDE and INVALID always ("add" stands *)
(* for them; MUL is not among them, so its overflow branch never runs).   *)
(* An AND right after a PUSH, not at preDataload + 1, is saved when the   *)
(* pushed mask truncates the operand (truncates).                         *)
(***************************************************************************)
SwitchEvents(kind, pc, truncates) ==
    CASE kind = "call" -> <<[Ev(1, kind, pc) EXCEPT !.checked = IsChecked(pc)]>>
      [] kind = "delegatecall" ->
            IF ~isDeployment /\ pc \in Valids[6]
            THEN <<[Ev(1, kind, pc) EXCEPT !.checked = IsChecked(pc)]>> ELSE <<>>
      [] kind = "timestamp" -> IF InValid(2, pc) THEN <<Ev(0, kind, pc)>> ELSE <<>>
      [] kind = "number" -> IF InValid(4, pc) THEN <<Ev(0, kind, pc)>> ELSE <<>>
      [] kind = "and" ->
            IF prevInst = "push" /\ lastpc # preDataload + 1 /\ truncates
            THEN <<Ev(0, kind, pc)>> ELSE <<>>
      [] kind \in {"add", "invalid"} -> <<Ev(0, kind, pc)>>
      [] OTHER -> <<>>

\* Lines 71-252 and 270-283, 303-312: every event of the fuzz-mode hook
\* before the crossing, in the order they are saved: the switch's, the
\* gasless mark's, the comparison's and the valid JUMPI's.
FuzzEvents(kind, pc, gasless, truncates) ==
    SwitchEvents(kind, pc, truncates)
    \o (IF gasless THEN <<Ev(0, kind, pc)>> ELSE <<>>)
    \o (IF kind = "cmp" THEN <<Ev(0, kind, pc)>> ELSE <<>>)
    \o (IF kind = "jumpi" /\ pc \in DOMAIN JumpDest THEN <<Ev(0, kind, pc)>> ELSE <<>>)

Init ==
    /\ is_prefuzz \in PrefuzzModes
    /\ txn = 0
    /\ prevInst = "invalid"
    /\ lastpc = 0
    /\ lastComp = 1
    /\ jumpDest1 = 0
    /\ jumpDest2 = 0
    /\ preDataload = 0
    /\ tracebits = {}
    /\ predicates = [b \in {} |-> 0]
    /\ pclist = <<>>
    /\ prefix_map = [b \in {} |-> <<>>]
    /\ reached_branch = [b \in {} |-> 0]
    /\ function = <<RootCall>>     \* initialize() and the constructor's root CALL (433-444)
    /\ functions = <<>>
    /\ vmAfter = Entry
    /\ steps = 0
    /\ done = FALSE
    /\ log = <<>>
    /\ uniqExceptions = {}
    /\ excepted = <<>>

(***************************************************************************)
(* onOp at pc (lines 66-427), operands l, r of a comparison.  In order: in *)
(* fuzz mode the oracle events; a comparison sets lastCompValue; a valid   *)
(* JUMPI sets jumpDest1/2; in prefuzz mode pc is pushed on pclist; if the  *)
(* previous instruction was a JUMPI at a valid pc of the current code, the *)
(* crossing lastpc:pc saves an event and is recorded, in prefuzz mode with *)
(* the other side jumpDest1/2 as they are now, in fuzz mode as a reached   *)
(* branch; prevInst and lastpc advance.                                    *)
(***************************************************************************)
Hook(pc, l, r, gasless, truncates) ==
    LET kind     == Code[pc]
        lc1      == IF kind = "cmp" THEN ER!CompValue(l, r) ELSE lastComp
        validJ   == kind = "jumpi" /\ pc \in DOMAIN JumpDest
        jd1      == IF validJ THEN JumpDest[pc] ELSE jumpDest1
        jd2      == IF validJ THEN pc + 1 ELSE jumpDest2
        pl       == IF is_prefuzz THEN PushPc(pclist, pc) ELSE pclist
        crossing == prevInst = "jumpi" /\ lastpc \in DOMAIN JumpDest
        id       == <<lastpc, pc>>
        other    == OtherBranch(pc, jd1, jd2)
        v        == ER!PredValue(lc1)
        recorded == is_prefuzz /\ crossing
    IN  /\ jumpDest1' = jd1
        /\ jumpDest2' = jd2
        /\ preDataload' = IF ~is_prefuzz /\ kind = "calldataload" THEN pc ELSE preDataload
        /\ pclist' = pl
        /\ prefix_map' = IF recorded /\ pc <= PcLimit /\ id \notin DOMAIN prefix_map
                         THEN (id :> pl) @@ prefix_map ELSE prefix_map
        /\ tracebits' = IF recorded THEN tracebits \cup {id} ELSE tracebits
        /\ predicates' = IF recorded THEN (<<lastpc, other>> :> v) @@ predicates
                         ELSE predicates
        /\ reached_branch' =
               IF crossing /\ ~is_prefuzz
               THEN (id :> (IF id \in DOMAIN reached_branch THEN reached_branch[id] ELSE 0) + 1)
                    @@ reached_branch
               ELSE reached_branch
        /\ function' = function
                       \o (IF is_prefuzz THEN <<>> ELSE FuzzEvents(kind, pc, gasless, truncates))
                       \o (IF crossing THEN <<Ev(0, kind, pc)>> ELSE <<>>)
        /\ lastComp' = IF recorded THEN v ELSE lc1
        /\ prevInst' = kind
        /\ lastpc' = pc
        /\ log' = log \o (IF kind = "cmp" THEN <<ER!Cmp(l, r)>> ELSE <<>>)
                      \o (IF crossing THEN <<ER!Jmp(lastpc, pc)>> ELSE <<>>)

\* The VM executes the instruction at pc; the hook runs unless skipped.  An
\* INVALID, or an instruction whose gasCost exceeds gasLeft, throws.
Step(pc, l, r, gasless, truncates) ==
    /\ ~done
    /\ steps < MaxSteps
    /\ pc \in DOMAIN Code
    /\ vmAfter # Halt
    /\ vmAfter = Entry => pc = 0
    /\ vmAfter \notin {NoPc, Entry} => pc \in {JumpDest[vmAfter], vmAfter + 1}
    /\ Code[pc] # "cmp" => l = 0 /\ r = 0
    /\ Code[pc] # "and" => ~truncates
    /\ steps' = steps + 1
    /\ vmAfter' = CASE gasless \/ Code[pc] = "invalid"                -> Halt
                    [] Code[pc] = "jumpi" /\ pc \in DOMAIN JumpDest -> pc
                    [] OTHER                                        -> NoPc
    /\ IF Skipped
       THEN UNCHANGED <<prevInst, lastpc, lastComp, jumpDest1, jumpDest2, preDataload, tracebits,
                        predicates, pclist, prefix_map, reached_branch, function, log>>
       ELSE Hook(pc, l, r, gasless, truncates)
    /\ UNCHANGED <<is_prefuzz, txn, done, functions, uniqExceptions, excepted>>

\* Mutant: the exception event saved after the call is finalized.
EndCallFaultAfterFinalize ==
    /\ ~done
    /\ vmAfter # Entry
    /\ \E exc \in BOOLEAN :
          /\ vmAfter = Halt => exc
          /\ vmAfter \notin {NoPc, Halt} => JumpiMayFault /\ exc
          /\ functions' = Append(functions, function)
          /\ function' = (IF exc THEN <<Ev(0, "invalid", lastpc)>> ELSE <<>>)
                         \o (IF txn = NumFuncs THEN <<>> ELSE <<RootCall>>)
          /\ excepted' = Append(excepted, exc)
          /\ uniqExceptions' = IF exc THEN uniqExceptions \cup {lastpc} ELSE uniqExceptions
    /\ txn' = txn + 1
    /\ pclist' = IF txn > 0 /\ is_prefuzz THEN <<>> ELSE pclist
    /\ done' = (txn = NumFuncs)
    /\ vmAfter' = Entry
    /\ UNCHANGED <<is_prefuzz, prevInst, lastpc, lastComp, jumpDest1, jumpDest2, preDataload,
                   tracebits, predicates, prefix_map, reached_branch, steps, log>>

(***************************************************************************)
(* A call returns, with or without an exception (lines 445-460, 482-535): *)
(* transactionNum++; after a function call in prefuzz mode the pclist is  *)
(* cleared; an exception adds lastpc to uniqExceptions and saves an      *)
(* INVALID event at level 0, whose pc is recordParam.lastpc after a       *)
(* function call but 0 after the constructor, where line 453 sets the pc  *)
(* of the outer payload and line 454 declares the one that is saved; the  *)
(* call is finalized, and the next call's root CALL is saved before it    *)
(* is invoked.  After the last function exec returns.                     *)
(***************************************************************************)
EndCall ==
    /\ ~done
    /\ vmAfter # Entry
    /\ \E exc \in BOOLEAN :
          /\ vmAfter = Halt => exc
          /\ vmAfter \notin {NoPc, Halt} => JumpiMayFault /\ exc
          /\ functions' = Append(functions, function \o
                             (IF exc THEN <<Ev(0, "invalid", IF txn = 0 THEN 0 ELSE lastpc)>>
                              ELSE <<>>))
          /\ function' = IF txn = NumFuncs THEN <<>> ELSE <<RootCall>>
          /\ excepted' = Append(excepted, exc)
          /\ uniqExceptions' = IF exc THEN uniqExceptions \cup {lastpc} ELSE uniqExceptions
    /\ txn' = txn + 1
    /\ pclist' = IF txn > 0 /\ is_prefuzz THEN <<>> ELSE pclist
    /\ done' = (txn = NumFuncs)
    /\ vmAfter' = Entry
    /\ UNCHANGED <<is_prefuzz, prevInst, lastpc, lastComp, jumpDest1, jumpDest2, preDataload,
                   tracebits, predicates, prefix_map, reached_branch, steps, log>>

Next ==
    \/ \E pc \in DOMAIN DeployCode \cup DOMAIN RuntimeCode, l, r \in ER!Word,
          gasless, truncates \in BOOLEAN :
          Step(pc, l, r, gasless, truncates)
    \/ EndCall

Spec == Init /\ [][Next]_vars

-----------------------------------------------------------------------------
Events == [level : {0, 1}, inst : Kinds, pc : Nat, checked : BOOLEAN]

TypeOK ==
    /\ is_prefuzz \in BOOLEAN
    /\ txn \in 0..(NumFuncs + 1)
    /\ prevInst \in Kinds \cup {"invalid"}
    /\ lastComp \in ER!Word
    /\ tracebits \subseteq (Nat \X Nat)
    /\ \A b \in DOMAIN predicates : predicates[b] \in ER!Word \ {0}
    /\ pclist \in Seq(0..PcLimit)
    /\ function \in Seq(Events)
    /\ \A f \in DOMAIN functions : functions[f] \in Seq(Events)
    /\ steps \in 0..MaxSteps
    /\ uniqExceptions \subseteq Nat
    /\ done \in BOOLEAN

(***************************************************************************)
(* The step-by-step hook, with jumpDest1/2, prevInst and lastpc carried    *)
(* from the JUMPI to the next instruction, computes exactly the result    *)
(* ExecResult folds over the crossings, which is what the Prefuzz model    *)
(* assumes of an execution: taken ids, untaken ids, the last distance of  *)
(* each, and the persistent 0 -> 2^w - 1 decrement; and in fuzz mode only  *)
(* the count of each crossing, which FuzzMode takes as the branch hits.   *)
(***************************************************************************)
MatchesExecResult ==
    LET res == ER!ExecPrefuzz(log)
    IN  IF is_prefuzz
        THEN /\ tracebits = res.tracebits
             /\ predicates = res.predicates
             /\ lastComp = res.lastComp
             /\ reached_branch = <<>>
        ELSE /\ tracebits = {} /\ predicates = <<>> /\ prefix_map = <<>>
             /\ reached_branch = ER!ReachedBranch(log)

(***************************************************************************)
(* Every call's trace, as analyze() reads it (OracleFactory.cpp:57-60 and  *)
(* 207), belongs to that call: one finalized trace per ended call, each    *)
(* starting with the root CALL at level 0, and ending with a level-0       *)
(* INVALID exactly when that call raised an exception (rootException).    *)
(* The executor must save the root before invoking, the exception event   *)
(* after the call and before finalize, in both modes.  The runs fix       *)
(* IsSplice = FALSE, so a splice run's skipped first half is not checked.  *)
(***************************************************************************)
OracleTraceWellFormed ==
    /\ Len(functions) = Len(excepted)
    /\ \A f \in DOMAIN functions :
          /\ functions[f] # <<>> /\ Head(functions[f]) = RootCall
          /\ (Last(functions[f]).level = 0 /\ Last(functions[f]).inst = "invalid") <=> excepted[f]
    /\ ~done => Head(function) = RootCall

(***************************************************************************)
(* Spec invariant 2: within one run, a taken branch id is never also       *)
(* recorded as untaken.                                                    *)
(***************************************************************************)
DisjointResult == tracebits \cap DOMAIN predicates = {}
=============================================================================
