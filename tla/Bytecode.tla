------------------------------ MODULE Bytecode ------------------------------
(***************************************************************************)
(* The bytecode branch classifier BytecodeBranch                           *)
(* (src/sFuzz/libfuzzer/BytecodeBranch.cpp): decodeBytecode and            *)
(* decompressSourcemap as pure operators, and the constructor as a state   *)
(* machine that walks the deployment program and then the runtime         *)
(* program, one step per loop iteration: the classifying walk (lines       *)
(* 37-215), then the conditional-call scan (lines 217-253).                *)
(*                                                                         *)
(* Data abstraction.  The bin and binRuntime of a contract are hex texts, *)
(* decoded by Hex's fromHex as the code does; a decoded byte is named by    *)
(* its opcode, or "OTHER" for opcodes the walk does not test; an immediate  *)
(* byte of a PUSH is any byte.  The source text is a sequence of           *)
(* tokens and a source-map offset or length counts tokens.  The classifier *)
(* only asks whether a snippet starts with a word (boost::starts_with) or  *)
(* contains one (string::find); TokenPrefixes[t] and TokenWords[t] give    *)
(* the words a token starts with and contains, so that "forward" starts   *)
(* with "for" as it does in the code.  A source-map row is its list of     *)
(* fields after splitting, each a number or Empty.                         *)
(***************************************************************************)
EXTENDS Integers, Sequences, SequencesExt, Hex

CONSTANTS
    Contracts,      \* ContractInfo values: [bin, binRuntime, srcmap, srcmapRuntime]
    HexTexts,       \* bounded hex texts fromHex is checked on
    Source,         \* contractInfo.source, a sequence of tokens
    ConstantRanges, \* constantFunctionSrcmap parsed: a set of <<offset, len>>
    TokenPrefixes,  \* token -> the words it starts with
    TokenWords,     \* token -> the words it contains
    Empty           \* an empty source-map field

\* The opcodes the classifier tests, by their Instruction byte (libevm).
OpcodeByte ==
    ("STOP" :> 0) @@ ("CALLDATALOAD" :> 53) @@ ("CALLDATACOPY" :> 55) @@
    ("TIMESTAMP" :> 66) @@ ("NUMBER" :> 67) @@ ("JUMPI" :> 87) @@
    ("PUSH1" :> 96) @@ ("PUSH2" :> 97) @@ ("PUSH3" :> 98) @@ ("PUSH20" :> 115) @@
    ("PUSH32" :> 127) @@ ("CALL" :> 241) @@ ("DELEGATECALL" :> 244)
Mnemonic(b) ==
    IF \E n \in DOMAIN OpcodeByte : OpcodeByte[n] = b
    THEN CHOOSE n \in DOMAIN OpcodeByte : OpcodeByte[n] = b ELSE "OTHER"

\* inst >= PUSH1 && inst <= PUSH32: it has inst - PUSH1 + 1 immediate bytes.
PushWidth(b) == IF b >= 96 /\ b <= 127 THEN b - 96 + 1 ELSE 0
CondWords == {"if", "while", "for", "require", "assert"}
CallWords == {".send(", ".call(", ".delegatecall(", ".callcode(", ".transfer("}

\* A PUSH is recorded at the pc of its last immediate byte (lines 257-275).
RECURSIVE DecodeFrom(_, _)
DecodeFrom(code, pc) ==
    IF pc >= Len(code) THEN <<>>
    ELSE LET last == pc + PushWidth(code[pc + 1])
         IN  <<[pc |-> last, inst |-> Mnemonic(code[pc + 1])]>> \o DecodeFrom(code, last + 1)

decodeBytecode(code) == DecodeFrom(code, 0)

\* An empty or missing field repeats the previous row's (lines 306-317).
decompressSourcemap(rows) ==
    LET field(row, k, prev) ==
            IF Len(row) >= k /\ row[k] # Empty THEN row[k] ELSE Last(prev)[k]
        step(prev, row) == Append(prev, <<field(row, 1, prev), field(row, 2, prev)>>)
    IN  FoldLeft(step, <<>>, rows)

\* contractInfo.source.substr(offset, len), clamped at the end of the text.
Substr(offset, len) ==
    SubSeq(Source, offset + 1, IF offset + len > Len(Source) THEN Len(Source) ELSE offset + len)

StartsWith(snip, w) == snip # <<>> /\ w \in TokenPrefixes[snip[1]]
Finds(snip, w) == \E k \in DOMAIN snip : w \in TokenWords[snip[k]]
IsInfixOf(s, t) == \E k \in 0..(Len(t) - Len(s)) : SubSeq(t, k + 1, k + Len(s)) = s

\* Program 1 is the deployment code, program 2 the runtime code (lines 9-14).
\* deploymentBin cuts the hex text, not the bytes: bin.substr(0, bin.size() -
\* binRuntime.size()), where a longer binRuntime wraps the size_t count and
\* substr keeps all of bin.
HexCode(c, p) ==
    CASE p = 2                           -> c.binRuntime
      [] Len(c.binRuntime) > Len(c.bin)  -> c.bin
      [] OTHER                           -> SubSeq(c.bin, 1, Len(c.bin) - Len(c.binRuntime))
Code(c, p) == fromHex(HexCode(c, p))
Srcmap(c, p) == IF p = 2 THEN c.srcmapRuntime ELSE c.srcmap
Opcodes(c, p) == decodeBytecode(Code(c, p))
Rows(c, p) == decompressSourcemap(Srcmap(c, p))
\* The loops stop at the shorter of the two lists.
Steps(c, p) == IF Len(Rows(c, p)) < Len(Opcodes(c, p)) THEN Len(Rows(c, p)) ELSE Len(Opcodes(c, p))

IsCondition(snip) == \E w \in CondWords : StartsWith(snip, w)
InConstant(r) == \E j \in ConstantRanges : r[1] >= j[1] /\ r[1] + r[2] <= j[1] + j[2]
StrictlyInside(r, outer) == r[1] > outer[1] /\ r[1] + r[2] < outer[1] + outer[2]

VARIABLES
    contract,     \* the ContractInfo
    isPrefuzz,    \* is_prefuzz: true in prefuzz mode (Fuzzer.cpp:735), false in fuzz mode (:929)
    prog,         \* the program of progInfo being walked; 3 once both are done
    phase,        \* "walk": the loop of lines 37-215; "scan": the loop of lines 217-253
    i,            \* the loop index
    candidates,   \* <<offset, len, pc>> of JUMPIs not yet attached to a condition
    inOnlyOwnerFunction,
    jumpis,       \* program -> deploymentJumpis / runtimeJumpis
    timestamps,   \* program -> deploymentTimestamps / runtimeTimestamps
    blockNums,    \* program -> deploymentBlockNums / runtimeBlockNums
    uncheckedCalls, \* program -> deploymentUncheckedCalls / runtimeUncheckedCalls
    delegateCalls,  \* runtimeDelegateCalls
    nownerDelegateCalls, \* runtimeNownerDelegateCalls
    snippets      \* the member map pc -> snippet, shared by both programs

vars == <<contract, isPrefuzz, prog, phase, i, candidates, inOnlyOwnerFunction, jumpis,
          timestamps, blockNums, uncheckedCalls, delegateCalls, nownerDelegateCalls, snippets>>

\* The instruction, source range and snippet at the loop index.
Op == Opcodes(contract, prog)[i + 1]
SrcRange == Rows(contract, prog)[i + 1]
Snippet == Substr(SrcRange[1], SrcRange[2])
IsRuntime == prog = 2
Insert(sets, pc) == [sets EXCEPT ![prog] = @ \cup {pc}]
\* unordered_map::insert leaves an existing entry alone.
SnippetsInsert(m, pc, s) == IF pc \in DOMAIN m THEN m ELSE m @@ (pc :> s)

NoSets == [p \in 1..2 |-> {}]

\* inOnlyOwnerFunction is declared without an initializer (line 35): its
\* first read gives whatever the stack holds.
Init ==
    /\ contract \in Contracts
    /\ isPrefuzz \in BOOLEAN
    /\ prog = 1
    /\ phase = "walk"
    /\ i = 0
    /\ candidates = <<>>
    /\ inOnlyOwnerFunction \in BOOLEAN
    /\ jumpis = NoSets /\ timestamps = NoSets /\ blockNums = NoSets
    /\ uncheckedCalls = NoSets
    /\ delegateCalls = {} /\ nownerDelegateCalls = {}
    /\ snippets = <<>>

Walking == prog <= 2 /\ phase = "walk" /\ i < Steps(contract, prog)
Advance == i' = i + 1

\* TIMESTAMP whose snippet mentions timestamp or now (lines 42-57).
WalkTimestamp ==
    /\ Walking /\ ~isPrefuzz /\ Op.inst = "TIMESTAMP"
    /\ timestamps' = IF Finds(Snippet, "timestamp") \/ Finds(Snippet, "now")
                     THEN Insert(timestamps, Op.pc) ELSE timestamps
    /\ Advance
    /\ UNCHANGED <<contract, isPrefuzz, prog, phase, candidates, inOnlyOwnerFunction, jumpis,
                   blockNums, uncheckedCalls, delegateCalls, nownerDelegateCalls, snippets>>

\* Every NUMBER (lines 59-71).
WalkNumber ==
    /\ Walking /\ ~isPrefuzz /\ Op.inst = "NUMBER"
    /\ blockNums' = Insert(blockNums, Op.pc)
    /\ Advance
    /\ UNCHANGED <<contract, isPrefuzz, prog, phase, candidates, inOnlyOwnerFunction, jumpis,
                   timestamps, uncheckedCalls, delegateCalls, nownerDelegateCalls, snippets>>

WalkCalldataNoReset ==
    /\ Walking /\ ~isPrefuzz /\ Op.inst \in {"CALLDATALOAD", "CALLDATACOPY"}
    /\ inOnlyOwnerFunction' = (inOnlyOwnerFunction \/
                                (StartsWith(Snippet, "function") /\ Finds(Snippet, "onlyowner")))
    /\ Advance
    /\ UNCHANGED <<contract, isPrefuzz, prog, phase, candidates, jumpis, timestamps, blockNums,
                   uncheckedCalls, delegateCalls, nownerDelegateCalls, snippets>>

\* A CALLDATALOAD/COPY attributed to a function header enters that function
\* (lines 74-99).
WalkCalldata ==
    /\ Walking /\ ~isPrefuzz /\ Op.inst \in {"CALLDATALOAD", "CALLDATACOPY"}
    /\ inOnlyOwnerFunction' = IF StartsWith(Snippet, "function")
                              THEN Finds(Snippet, "onlyowner") ELSE inOnlyOwnerFunction
    /\ Advance
    /\ UNCHANGED <<contract, isPrefuzz, prog, phase, candidates, jumpis, timestamps, blockNums,
                   uncheckedCalls, delegateCalls, nownerDelegateCalls, snippets>>

WalkDelegateCallNownerAnyProgram ==
    /\ Walking /\ ~isPrefuzz /\ Op.inst = "DELEGATECALL"
    /\ delegateCalls' = IF Finds(Snippet, "delegatecall") /\ IsRuntime
                        THEN delegateCalls \cup {Op.pc} ELSE delegateCalls
    /\ nownerDelegateCalls' = IF inOnlyOwnerFunction THEN nownerDelegateCalls
                              ELSE nownerDelegateCalls \cup {Op.pc}
    /\ Advance
    /\ UNCHANGED <<contract, isPrefuzz, prog, phase, candidates, inOnlyOwnerFunction, jumpis,
                   timestamps, blockNums, uncheckedCalls, snippets>>

\* A runtime DELEGATECALL written as delegatecall (lines 101-120).
WalkDelegateCall ==
    /\ Walking /\ ~isPrefuzz /\ Op.inst = "DELEGATECALL"
    /\ IF Finds(Snippet, "delegatecall") /\ IsRuntime
       THEN /\ delegateCalls' = delegateCalls \cup {Op.pc}
            /\ nownerDelegateCalls' = IF inOnlyOwnerFunction THEN nownerDelegateCalls
                                      ELSE nownerDelegateCalls \cup {Op.pc}
       ELSE UNCHANGED <<delegateCalls, nownerDelegateCalls>>
    /\ Advance
    /\ UNCHANGED <<contract, isPrefuzz, prog, phase, candidates, inOnlyOwnerFunction, jumpis,
                   timestamps, blockNums, uncheckedCalls, snippets>>

\* A candidate is recorded with the condition whose range strictly holds it,
\* unless a constant function holds it (lines 137-148).
PromotableInclusive(cand, r) ==
    cand[1] > r[1] /\ cand[1] + cand[2] <= r[1] + r[2] /\ ~InConstant(cand)
Promotable(cand, r) == StrictlyInside(cand, r) /\ ~InConstant(cand)

\* A JUMPI of an if/while/for/require/assert (lines 128-209): the candidates
\* strictly inside its range and outside constant functions are recorded,
\* then the JUMPI itself unless it is in a constant function, and the
\* candidates are dropped.
WalkJumpiCondition ==
    /\ Walking /\ Op.inst = "JUMPI" /\ IsCondition(Snippet)
    /\ LET promoted == {k \in DOMAIN candidates : Promotable(candidates[k], SrcRange)}
           own == IF InConstant(SrcRange) THEN {} ELSE {Op.pc}
           withCandidates == FoldLeft(LAMBDA m, k : SnippetsInsert(m, candidates[k][3],
                                          Substr(candidates[k][1], candidates[k][2])),
                                      snippets, SetToSeq(promoted))
       IN  /\ jumpis' = [jumpis EXCEPT ![prog] = @ \cup {candidates[k][3] : k \in promoted} \cup own]
           /\ snippets' = IF own = {} THEN withCandidates
                          ELSE SnippetsInsert(withCandidates, Op.pc, Snippet)
    /\ candidates' = <<>>
    /\ Advance
    /\ UNCHANGED <<contract, isPrefuzz, prog, phase, inOnlyOwnerFunction, timestamps, blockNums,
                   uncheckedCalls, delegateCalls, nownerDelegateCalls>>

\* Any other JUMPI becomes a candidate (lines 210-213).
WalkJumpiCandidate ==
    /\ Walking /\ Op.inst = "JUMPI" /\ ~IsCondition(Snippet)
    /\ candidates' = Append(candidates, <<SrcRange[1], SrcRange[2], Op.pc>>)
    /\ Advance
    /\ UNCHANGED <<contract, isPrefuzz, prog, phase, inOnlyOwnerFunction, jumpis, timestamps,
                   blockNums, uncheckedCalls, delegateCalls, nownerDelegateCalls, snippets>>

Classified == {"JUMPI"} \cup (IF isPrefuzz THEN {}
                 ELSE {"TIMESTAMP", "NUMBER", "CALLDATALOAD", "CALLDATACOPY", "DELEGATECALL"})

WalkOther ==
    /\ Walking /\ Op.inst \notin Classified
    /\ Advance
    /\ UNCHANGED <<contract, isPrefuzz, prog, phase, candidates, inOnlyOwnerFunction, jumpis,
                   timestamps, blockNums, uncheckedCalls, delegateCalls, nownerDelegateCalls, snippets>>

EndWalk ==
    /\ prog <= 2 /\ phase = "walk" /\ i = Steps(contract, prog)
    /\ phase' = "scan" /\ i' = 0
    /\ UNCHANGED <<contract, isPrefuzz, prog, candidates, inOnlyOwnerFunction, jumpis, timestamps,
                   blockNums, uncheckedCalls, delegateCalls, nownerDelegateCalls, snippets>>

Scanning == prog <= 2 /\ phase = "scan" /\ i < Steps(contract, prog)

\* A condition snippet of the map that contains the call's snippet and
\* mentions a condition word anywhere (line 235-238).
GuardedBy(sp, snip) == IsInfixOf(snip, sp) /\ \E w \in CondWords : Finds(sp, w)

\* A CALL or DELEGATECALL written as a call is recorded when it is a
\* .transfer( or when some snippet of the map guards it (lines 219-251).
ScanCall ==
    /\ Scanning /\ Op.inst \in {"CALL", "DELEGATECALL"}
    /\ \E w \in CallWords : Finds(Snippet, w)
    /\ uncheckedCalls' =
           IF Finds(Snippet, ".transfer(") \/ \E pc \in DOMAIN snippets : GuardedBy(snippets[pc], Snippet)
           THEN Insert(uncheckedCalls, Op.pc) ELSE uncheckedCalls
    /\ Advance
    /\ UNCHANGED <<contract, isPrefuzz, prog, phase, candidates, inOnlyOwnerFunction, jumpis,
                   timestamps, blockNums, delegateCalls, nownerDelegateCalls, snippets>>

ScanOther ==
    /\ Scanning
    /\ ~(Op.inst \in {"CALL", "DELEGATECALL"} /\ \E w \in CallWords : Finds(Snippet, w))
    /\ Advance
    /\ UNCHANGED <<contract, isPrefuzz, prog, phase, candidates, inOnlyOwnerFunction, jumpis,
                   timestamps, blockNums, uncheckedCalls, delegateCalls, nownerDelegateCalls, snippets>>

\* The next program gets fresh locals: an empty candidates vector and a new
\* uninitialized inOnlyOwnerFunction (lines 22-35).
EndProgram ==
    /\ phase = "scan" /\ i = Steps(contract, prog) /\ prog <= 2
    /\ prog' = prog + 1 /\ phase' = "walk" /\ i' = 0
    /\ candidates' = <<>>
    /\ inOnlyOwnerFunction' \in BOOLEAN
    /\ UNCHANGED <<contract, isPrefuzz, jumpis, timestamps, blockNums, uncheckedCalls,
                   delegateCalls, nownerDelegateCalls, snippets>>

Next ==
    \/ WalkTimestamp \/ WalkNumber \/ WalkCalldata \/ WalkDelegateCall
    \/ WalkJumpiCondition \/ WalkJumpiCandidate \/ WalkOther \/ EndWalk
    \/ ScanCall \/ ScanOther \/ EndProgram

Spec == Init /\ [][Next]_vars

-----------------------------------------------------------------------------
(***************************************************************************)
(* The classification spec 4.3 describes, stated over the whole decoded    *)
(* program rather than the walk's candidate list.                          *)
(***************************************************************************)
SnippetAt(c, p, k) == Substr(Rows(c, p)[k][1], Rows(c, p)[k][2])
IsJumpiCondition(c, p, k) == Opcodes(c, p)[k].inst = "JUMPI" /\ IsCondition(SnippetAt(c, p, k))

\* A condition JUMPI is valid; another JUMPI is valid when its range is
\* strictly inside that of the next condition JUMPI; neither when it lies in
\* a constant function.
SpecJumpis(c, p) ==
    LET K == 1..Steps(c, p)
        attached(k) == \E m \in K :
                          /\ m > k /\ IsJumpiCondition(c, p, m)
                          /\ \A l \in (k + 1)..(m - 1) : ~IsJumpiCondition(c, p, l)
                          /\ StrictlyInside(Rows(c, p)[k], Rows(c, p)[m])
        valid(k) == /\ Opcodes(c, p)[k].inst = "JUMPI"
                    /\ ~InConstant(Rows(c, p)[k])
                    /\ IsJumpiCondition(c, p, k) \/ attached(k)
    IN  {Opcodes(c, p)[k].pc : k \in {k \in K : valid(k)}}

\* A runtime DELEGATECALL is reached from an onlyOwner function when the last
\* function entry before it names onlyOwner; before any entry the flag reads
\* as false (spec 9(a)).
IsEntry(c, k) ==
    Opcodes(c, 2)[k].inst \in {"CALLDATALOAD", "CALLDATACOPY"} /\ StartsWith(SnippetAt(c, 2, k), "function")
SpecDelegates(c) ==
    {k \in 1..Steps(c, 2) : Opcodes(c, 2)[k].inst = "DELEGATECALL" /\ Finds(SnippetAt(c, 2, k), "delegatecall")}
FromOnlyOwner(c, k) ==
    LET entries == {m \in 1..(k - 1) : IsEntry(c, m)}
    IN  entries # {} /\ Finds(SnippetAt(c, 2, Max(entries)), "onlyowner")

Walked(p) == prog > p \/ (prog = p /\ phase = "scan")

\* Hex text as the spec reads it: an optional "0x", then digits of either
\* case, each the next nibble of the bytes, high nibble first; an odd count
\* of digits has an implicit leading 0.  A non-hex character gives the
\* empty result of the DontThrow policy (spec 7).
HexAlphabet == DecimalDigits \o LowerDigits
DigitValue(c) == CHOOSE v \in 0..15 : HexAlphabet[v + 1] = c \/ (v >= 10 /\ UpperDigits[v - 9] = c)
HexBody(s) == IF IsPrefix(<<"0", "x">>, s) THEN SubSeq(s, 3, Len(s)) ELSE s
IsHexText(s) == \A k \in DOMAIN HexBody(s) : HexBody(s)[k] \in Range(HexAlphabet) \cup Range(UpperDigits)
ReferenceNibbles(s) ==
    (IF Len(HexBody(s)) % 2 = 1 THEN <<0>> ELSE <<>>) \o
    [k \in DOMAIN HexBody(s) |-> DigitValue(HexBody(s)[k])]

-----------------------------------------------------------------------------
TypeOK ==
    /\ contract \in Contracts /\ isPrefuzz \in BOOLEAN
    /\ prog \in 1..3 /\ phase \in {"walk", "scan"}
    /\ prog <= 2 => i \in 0..Steps(contract, prog)
    /\ candidates \in Seq(Nat \X Nat \X Nat)
    /\ inOnlyOwnerFunction \in BOOLEAN
    /\ \A S \in {jumpis, timestamps, blockNums, uncheckedCalls} : S \in [1..2 -> SUBSET Nat]
    /\ nownerDelegateCalls \subseteq delegateCalls
    /\ \A pc \in DOMAIN snippets : IsInfixOf(snippets[pc], Source)

\* fromHex, which decodes both programs and every leader testcase, reads
\* every bounded text as the spec does: the nibbles of its bytes are the
\* text's digits, the odd digit and the "0x" prefix included, and a text
\* with any other character decodes to no bytes at all.
FromHexMatchesReference ==
    \A s \in HexTexts :
        IF IsHexText(s) THEN asNibbles(fromHex(s)) = ReferenceNibbles(s)
        ELSE fromHex(s) = <<>>

\* Once a program is walked, its valid JUMPI set is exactly the one spec 4.3
\* defines: the candidate list of the walk must attach each short-circuit
\* JUMPI to the next condition only, strictly inside it, and drop the rest.
JumpisMatchSpec ==
    \A p \in 1..2 : Walked(p) => jumpis[p] = SpecJumpis(contract, p)

\* In fuzz mode the runtime DELEGATECALLs written as delegatecall are
\* recorded, and those not reached from an onlyOwner function entry are the
\* ones the delegatecall oracle may report (noOnlyOwner).
DelegateCallsMatchSpec ==
    (Walked(2) /\ ~isPrefuzz) =>
        /\ delegateCalls = {Opcodes(contract, 2)[k].pc : k \in SpecDelegates(contract)}
        /\ nownerDelegateCalls = {Opcodes(contract, 2)[k].pc :
                                     k \in {k \in SpecDelegates(contract) : ~FromOnlyOwner(contract, k)}}
=============================================================================
