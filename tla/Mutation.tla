------------------------------ MODULE Mutation ------------------------------
(***************************************************************************)
(* The mutation engine of libfuzzer/Mutation.cpp, for one Mutation object *)
(* (Fuzzer.cpp builds one per leader) and the stages the fuzz loops run on *)
(* it.  curFuzzItem.data is buf; every call of the save callback cb is    *)
(* recorded in sent, with the ABI descriptor list and transaction length  *)
(* it sees.  One action is one iteration of a stage's loop; the writes,   *)
(* the callback and the restore of an iteration happen in it in the       *)
(* code's order.  Offsets are 0-based as in the C++ code; buffers are     *)
(* sequences of bytes.                                                    *)
(***************************************************************************)
EXTENDS Integers, Sequences, SequencesExt, FiniteSets, Bitwise

CONSTANTS
    Input,          \* curFuzzItem.data of the leader being fuzzed
    InputCksum,     \* curFuzzItem.res.cksum
    Addresses,      \* the extras of the address dictionary (20-byte sequences)
    CodeDict,       \* the extras of the code dictionary
    Queues,         \* the leader items splice may be given: sequences of [data, cksum]
    Fds,            \* pca->fds, a sequence of function names
    Nameless,       \* the name "" of the constructor's descriptor
    HavocMin,       \* HAVOC_MIN iterations of havoc (bound)
    HavocStacks,    \* the values 1 << (1 + UR(HAVOC_STACK_POW2)) explored (bound)
    HavocPos,       \* the offsets UR(..) picks in havoc (bound)
    HavocArith,     \* the values 1 + UR(ARITH_MAX) and 1 + UR(255) explored (bound)
    HavocPicks,     \* the indices UR(..) picks in the interesting tables (bound)
    HavocBlockLens, \* the results of chooseBlockLen explored (bound)
    FreedBytes,     \* what freed or out-of-bounds heap bytes may hold
    ClobberLens     \* how many leading bytes of a freed block free() overwrites

Byte == 0..255

(* Util.h *)
SPLICE_CYCLES == 15
EFF_MAP_SCALE2 == 4
EFF_MAX_PERC == 90
ARITH_MAX == 35
INTERESTING_8 == <<-128, -1, 0, 1, 16, 32, 64, 100, 127>>
INTERESTING_16 == INTERESTING_8 \o <<-32768, -129, 128, 255, 256, 512, 1000, 1024, 4096, 32767>>
INTERESTING_32 == INTERESTING_16 \o <<-2147483647 - 1, -100663046, -32769, 32768, 65535, 65536,
                                      100663045, 2147483647>>

(* Words are byte sequences, least significant byte first, as the u16  *)
(* and u32 pointer casts read and write them on x86: Word(v, w) is the  *)
(* w low bytes of v in two's complement.                               *)
Word(v, w) == [t \in 1..w |-> (v \div 256^(t - 1)) % 256]
Window(b, k, w) == SubSeq(b, k + 1, k + w)
Put(b, k, ws) == [x \in DOMAIN b |-> IF k < x /\ x <= k + Len(ws) THEN ws[x - k] ELSE b[x]]
XorWords(a, b) == [t \in DOMAIN a |-> a[t] ^^ b[t]]
Bits(ws) == {k \in 0..8 * Len(ws) - 1 : (ws[k \div 8 + 1] \div 2^(k % 8)) % 2 = 1}

(* Util.cpp (not in the repository's src/): the effector-map arithmetic, *)
(* the byte swaps, locateDiffs and the bit-flip test, as the AFL         *)
(* originals compute them.  couldBeBitflip: the xor is zero, or a run of *)
(* 1, 2 or 4 set bits anywhere, or of 8, 16 or 32 starting on a byte.   *)
effAPos(p) == p \div 2^EFF_MAP_SCALE2
effALen(l) == effAPos(l) + (IF l % 2^EFF_MAP_SCALE2 # 0 THEN 1 ELSE 0)
swap16(ws) == Reverse(ws)
swap32(ws) == Reverse(ws)
couldBeBitflip(xs) ==
    LET B == Bits(xs)
    IN  \/ B = {}
        \/ /\ B = Min(B)..Max(B)
           /\ \/ Cardinality(B) \in {1, 2, 4}
              \/ Min(B) % 8 = 0 /\ Cardinality(B) \in {8, 16, 32}
locateDiffs(p1, p2, len) ==
    LET D == {k \in 0..len - 1 : p1[k + 1] # p2[k + 1]}
    IN  IF D = {} THEN <<-1, -1>> ELSE <<Min(D), Max(D)>>

Offsets(w) == [t \in 1..w |-> t - 1]
XorFF(b, k, w) == [x \in DOMAIN b |-> IF k < x /\ x <= k + w THEN 255 - b[x] ELSE b[x]]
flipbit(b, pos) == [b EXCEPT ![pos \div 8 + 1] = @ ^^ (2^(7 - (pos % 8)))]
FlipRun(b, pos, w) == FoldLeft(LAMBDA acc, t : flipbit(acc, pos + t), b, Offsets(w))

VARIABLES
    plan,       \* the stages still to run, in the order Fuzzer.cpp calls them
    i, j,       \* the loop counters of the running stage
    orig,       \* the word a stage saved before overwriting it
    buf,        \* curFuzzItem.data
    dataSize,   \* the member dataSize
    eff,        \* the effector map, one flag per 16-byte block
    effCount,
    changed,    \* history: unmarked blocks where a byte flip changed the checksum
    sent,       \* the callback calls of the last step
    skipped,    \* the bytes whose window the last step skipped on the effector map
    data,       \* the working copy of havoc and splice
    fds,        \* pca->fds
    txLen,      \* pca->transactionLength
    cycle,      \* spliceCycle
    stacking,   \* useStacking of the running havoc iteration
    queue       \* the leader items handed to splice

vars == <<plan, i, j, orig, buf, dataSize, eff, effCount, changed, sent, skipped,
          data, fds, txLen, cycle, stacking, queue>>

Stage == IF plan = <<>> THEN "done" ELSE Head(plan)

(* The stage sequences of Fuzzer.cpp: a prefuzz leader not yet fuzzed,  *)
(* a fuzz-mode leader not yet fuzzed, and a leader fuzzed before.       *)
PrefuzzFresh == <<"bit1", "bit2", "bit4", "byte1", "byte2", "byte4", "havoc">>
FuzzFresh == <<"byte1", "byte2", "byte4", "int1", "int2", "int4", "addr", "havoc">>
Fuzzed == <<"havoc", "splice">>

Call(d, at) == [stage |-> Stage, data |-> d, at |-> at, fds |-> fds, txLen |-> txLen]

(* Mutation::Mutation: block 0 and the last block are always marked.    *)
Init ==
    /\ plan \in {PrefuzzFresh, FuzzFresh, Fuzzed}
    /\ queue = <<>>
    /\ buf = Input
    /\ dataSize = Len(Input)
    /\ eff = [b \in 0..effALen(dataSize) - 1 |->
                IF b = 0 \/ b = effAPos(dataSize - 1) THEN 1 ELSE 0]
    /\ effCount = IF effAPos(dataSize - 1) # 0 THEN 1 ELSE 0
    /\ i = 0 /\ j = 0 /\ orig = 0
    /\ changed = {} /\ sent = <<>> /\ skipped = {}
    /\ data = Input
    /\ fds = Fds /\ txLen = 1 /\ cycle = 0
    /\ stacking \in HavocStacks

(* The loop bound of each stage, from the member dataSize.              *)
LoopEnd ==
    CASE Stage = "bit1" -> dataSize * 8
      [] Stage = "bit2" -> dataSize * 8 - 1
      [] Stage = "bit4" -> dataSize * 8 - 3
      [] Stage \in {"byte1", "int1"} -> dataSize
      [] Stage \in {"byte2", "int2"} -> dataSize - 1
      [] Stage \in {"byte4", "int4"} -> dataSize - 3
      [] Stage = "addr" -> dataSize - 1
      [] Stage = "havoc" -> HavocMin
      [] OTHER -> 0

Width == ("bit1" :> 1) @@ ("bit2" :> 2) @@ ("bit4" :> 4) @@ ("byte2" :> 2) @@ ("byte4" :> 4)
         @@ ("int1" :> 1) @@ ("int2" :> 2) @@ ("int4" :> 4) @@ ("addr" :> 32)

NoEffect == UNCHANGED <<dataSize, eff, effCount, changed, data, fds, txLen, cycle, stacking, queue, plan>>

(* singleWalkingBit, twoWalkingBit, fourWalkingBit: one iteration.      *)
WalkingBit ==
    /\ Stage \in {"bit1", "bit2", "bit4"}
    /\ i < LoopEnd
    /\ LET m == FlipRun(buf, i, Width[Stage])
       IN  /\ sent' = <<Call(m, i)>>
           /\ buf' = FlipRun(m, i, Width[Stage])
    /\ i' = i + 1 /\ skipped' = {}
    /\ UNCHANGED <<j, orig>> /\ NoEffect

(* Mutant: the block after the flipped byte's is marked.               *)
SingleWalkingByteNextBlock ==
    /\ Stage = "byte1"
    /\ i < LoopEnd
    /\ LET m == XorFF(buf, i, 1)
           blk == effAPos(i)
           mark == effAPos(i + 1) % effALen(dataSize)
       IN  \E cksumChanged \in BOOLEAN :
             /\ sent' = <<Call(m, i)>>
             /\ IF eff[mark] = 0 /\ cksumChanged
                  THEN eff' = [eff EXCEPT ![mark] = 1] /\ effCount' = effCount + 1
                  ELSE UNCHANGED <<eff, effCount>>
             /\ changed' = IF cksumChanged /\ eff[blk] = 0 THEN changed \cup {blk} ELSE changed
             /\ buf' = XorFF(m, i, 1)
    /\ i' = i + 1 /\ skipped' = {}
    /\ UNCHANGED <<j, orig, dataSize, data, fds, txLen, cycle, stacking, queue, plan>>

(* singleWalkingByte: one iteration; the callback's checksum, compared  *)
(* with the leader's, marks the byte's block on the effector map.       *)
SingleWalkingByte ==
    /\ Stage = "byte1"
    /\ i < LoopEnd
    /\ LET m == XorFF(buf, i, 1)
           blk == effAPos(i)
       IN  \E cksumChanged \in BOOLEAN :
             /\ sent' = <<Call(m, i)>>
             /\ IF eff[blk] = 0 /\ cksumChanged
                  THEN eff' = [eff EXCEPT ![blk] = 1] /\ effCount' = effCount + 1
                  ELSE UNCHANGED <<eff, effCount>>
             /\ changed' = IF cksumChanged /\ eff[blk] = 0 THEN changed \cup {blk} ELSE changed
             /\ buf' = XorFF(m, i, 1)
    /\ i' = i + 1 /\ skipped' = {}
    /\ UNCHANGED <<j, orig, dataSize, data, fds, txLen, cycle, stacking, queue, plan>>

(* The end of singleWalkingByte: a map denser than EFF_MAX_PERC is set  *)
(* all ones.                                                            *)
EndSingleWalkingByte ==
    /\ Stage = "byte1"
    /\ i >= LoopEnd
    /\ IF effCount # effALen(dataSize) /\ (effCount * 100) \div effALen(dataSize) > EFF_MAX_PERC
         THEN eff' = [b \in DOMAIN eff |-> 1]
         ELSE UNCHANGED eff
    /\ plan' = Tail(plan) /\ i' = 0 /\ j' = 0
    /\ sent' = <<>> /\ skipped' = {}
    /\ UNCHANGED <<orig, buf, dataSize, effCount, changed, data, fds, txLen, cycle, stacking, queue>>

(* The effector map marks none of the blocks of the w bytes at k.       *)
Inert(k, w) == \A t \in 0..w - 1 : eff[effAPos(k + t)] = 0

(* twoWalkingByte, fourWalkingByte: one iteration, skipped on the map.  *)
WalkingByte ==
    /\ Stage \in {"byte2", "byte4"}
    /\ i < LoopEnd
    /\ IF Inert(i, Width[Stage])
         THEN sent' = <<>> /\ skipped' = {i + t : t \in 0..Width[Stage] - 1}
                /\ UNCHANGED buf
         ELSE LET m == XorFF(buf, i, Width[Stage])
              IN  sent' = <<Call(m, i)>> /\ skipped' = {} /\ buf' = XorFF(m, i, Width[Stage])
    /\ i' = i + 1
    /\ UNCHANGED <<j, orig>> /\ NoEffect

(* The interesting values of a stage, as w-byte words.                  *)
Table(st) == CASE st = "int1" -> [k \in DOMAIN INTERESTING_8 |-> Word(INTERESTING_8[k], 1)]
               [] st = "int2" -> [k \in DOMAIN INTERESTING_16 |-> Word(INTERESTING_16[k], 2)]
               [] st = "int4" -> [k \in DOMAIN INTERESTING_32 |-> Word(INTERESTING_32[k], 4)]

(* Util.cpp's couldBeArith and couldBeInterest, as AFL computes them,  *)
(* over w-byte words.  ArithNear(a, b): a - b or b - a, taken modulo    *)
(* 2^(8w), is at most ARITH_MAX; a 4-byte word is split in halves, as a *)
(* u32 does not fit TLC's integers.                                     *)
Val(ws) == FoldLeft(LAMBDA acc, t : acc + ws[t] * 256^(t - 1), 0, [t \in 1..Len(ws) |-> t])
ModDiffSmall(a, b) ==
    IF Len(a) <= 2
      THEN (Val(a) - Val(b)) % 2^(8 * Len(a)) <= ARITH_MAX
      ELSE LET lo == Val(SubSeq(a, 1, 2)) - Val(SubSeq(b, 1, 2))
               ha == Val(SubSeq(a, 3, 4))
               hb == Val(SubSeq(b, 3, 4))
           IN  \/ ha = hb /\ 0 <= lo /\ lo <= ARITH_MAX
               \/ ha = (hb + 1) % 65536 /\ lo < 0 /\ lo + 65536 <= ARITH_MAX
ArithNear(a, b) == ModDiffSmall(a, b) \/ ModDiffSmall(b, a)
couldBeArith(o, n, blen) ==
    LET bd == {k \in 1..blen : o[k] # n[k]}
        wd == {h \in 0..blen \div 2 - 1 : Window(o, 2 * h, 2) # Window(n, 2 * h, 2)}
    IN  \/ o = n
        \/ Cardinality(bd) = 1 /\ \E k \in bd : ArithNear(<<o[k]>>, <<n[k]>>)
        \/ /\ blen > 1 /\ Cardinality(wd) = 1
           /\ \E h \in wd : LET ov == Window(o, 2 * h, 2)
                               nv == Window(n, 2 * h, 2)
                           IN  ArithNear(ov, nv) \/ ArithNear(Reverse(ov), Reverse(nv))
        \/ blen = 4 /\ (ArithNear(o, n) \/ ArithNear(Reverse(o), Reverse(n)))
couldBeInterest(o, n, blen, checkLe) ==
    \/ o = n
    \/ \E k \in 0..blen - 1, t \in DOMAIN INTERESTING_8 : Put(o, k, Word(INTERESTING_8[t], 1)) = n
    \/ /\ ~(blen = 2 /\ ~checkLe)
       /\ \/ \E k \in 0..blen - 2, t \in DOMAIN INTERESTING_16 :
               \/ Put(o, k, Word(INTERESTING_16[t], 2)) = n
               \/ blen > 2 /\ Put(o, k, Reverse(Word(INTERESTING_16[t], 2))) = n
          \/ blen = 4 /\ checkLe /\ \E t \in DOMAIN INTERESTING_32 : Word(INTERESTING_32[t], 4) = n

(* singleInterest, twoInterest, fourInterest: an offset none of whose   *)
(* blocks the effector map marks is skipped before its values.          *)
InterestSkip ==
    /\ Stage \in {"int1", "int2", "int4"}
    /\ i < LoopEnd /\ j = 0
    /\ Inert(i, Width[Stage])
    /\ i' = i + 1 /\ sent' = <<>> /\ skipped' = {i + t : t \in 0..Width[Stage] - 1}
    /\ UNCHANGED <<j, orig, buf>> /\ NoEffect

(* singleInterest: the j-th value written at i, sent and undone.        *)
SingleInterest ==
    /\ Stage = "int1"
    /\ i < LoopEnd /\ j < Len(Table(Stage))
    /\ ~Inert(i, 1)
    /\ LET o == Window(buf, i, 1)
           v == Table(Stage)[j + 1]
           skip == couldBeBitflip(XorWords(o, v)) \/ couldBeArith(o, v, 1)
       IN  /\ sent' = IF skip THEN <<>> ELSE <<Call(Put(buf, i, v), i)>>
           /\ buf' = Put(IF skip THEN buf ELSE Put(buf, i, v), i, o)
           /\ orig' = o
    /\ j' = j + 1 /\ skipped' = {}
    /\ UNCHANGED i /\ NoEffect

(* twoInterest, fourInterest: the j-th value written at i, then its     *)
(* byte-swapped form; the word saved at the top of the iteration is     *)
(* restored only once all values are done.                              *)
WordInterest ==
    /\ Stage \in {"int2", "int4"}
    /\ i < LoopEnd /\ j < Len(Table(Stage))
    /\ ~Inert(i, Width[Stage])
    /\ LET o == IF j = 0 THEN Window(buf, i, Width[Stage]) ELSE orig
           v == Table(Stage)[j + 1]
           sv == Reverse(v)
           w == Width[Stage]
           tryPlain == ~couldBeBitflip(XorWords(o, v)) /\ ~couldBeArith(o, v, w)
                       /\ ~couldBeInterest(o, v, w, FALSE)
           trySwapped == v # sv /\ ~couldBeBitflip(XorWords(o, sv)) /\ ~couldBeArith(o, sv, w)
                         /\ ~couldBeInterest(o, sv, w, TRUE)
           b1 == IF tryPlain THEN Put(buf, i, v) ELSE buf
           b2 == IF trySwapped THEN Put(b1, i, sv) ELSE b1
       IN  /\ sent' = (IF tryPlain THEN <<Call(b1, i)>> ELSE <<>>)
                       \o (IF trySwapped THEN <<Call(b2, i)>> ELSE <<>>)
           /\ buf' = b2
           /\ orig' = o
    /\ j' = j + 1 /\ skipped' = {}
    /\ UNCHANGED i /\ NoEffect

(* Mutant: the saved word is not written back.                         *)
InterestNextNoRestore ==
    /\ Stage \in {"int1", "int2", "int4"}
    /\ j = Len(Table(Stage))
    /\ i' = i + 1 /\ j' = 0 /\ sent' = <<>> /\ skipped' = {}
    /\ UNCHANGED <<orig, buf>> /\ NoEffect

(* The end of an offset of the interest stages: the word is restored.   *)
InterestNext ==
    /\ Stage \in {"int1", "int2", "int4"}
    /\ j = Len(Table(Stage))
    /\ buf' = IF Stage = "int1" THEN buf ELSE Put(buf, i, orig)
    /\ i' = i + 1 /\ j' = 0 /\ sent' = <<>> /\ skipped' = {}
    /\ UNCHANGED orig /\ NoEffect

(* Mutant: the address written at the start of the word.              *)
AddressStepAtWord ==
    /\ Stage = "addr"
    /\ i < LoopEnd /\ j < Len(Addresses)
    /\ LET inBuf == IF i = 0 /\ j = 0 THEN buf ELSE orig
           e == Addresses[j + 1]
       IN  /\ IF Window(buf, i, 20) = e
                THEN sent' = <<>> /\ UNCHANGED buf
                ELSE sent' = <<Call(Put(buf, i, e), i)>> /\ buf' = Put(buf, i, e)
           /\ orig' = inBuf
    /\ j' = j + 1 /\ skipped' = {}
    /\ UNCHANGED i /\ NoEffect

(* overwriteWithAddressDictionary: the j-th address written into the    *)
(* address slot of the word at i, unless the slot already holds it.     *)
(* inBuf, the copy taken before the loop, is kept in orig.              *)
AddressStep ==
    /\ Stage = "addr"
    /\ i < LoopEnd /\ j < Len(Addresses)
    /\ LET inBuf == IF i = 0 /\ j = 0 THEN buf ELSE orig
           e == Addresses[j + 1]
       IN  /\ IF Window(buf, i + 12, 20) = e
                THEN sent' = <<>> /\ UNCHANGED buf
                ELSE sent' = <<Call(Put(buf, i + 12, e), i)>> /\ buf' = Put(buf, i + 12, e)
           /\ orig' = inBuf
    /\ j' = j + 1 /\ skipped' = {}
    /\ UNCHANGED i /\ NoEffect

(* The end of a word of the address stage: its 32 bytes are copied     *)
(* back from inBuf.                                                     *)
AddressNext ==
    /\ Stage = "addr"
    /\ i < LoopEnd /\ j = Len(Addresses)
    /\ buf' = Put(buf, i, Window(orig, i, 32))
    /\ i' = i + 32 /\ j' = 0 /\ sent' = <<>> /\ skipped' = {}
    /\ UNCHANGED orig /\ NoEffect

(* w-byte arithmetic modulo 2^(8w), little- or big-endian.             *)
AddLE(ws, d) ==
    IF Len(ws) <= 2 THEN Word((Val(ws) + d) % 2^(8 * Len(ws)), Len(ws))
    ELSE LET lo == Val(SubSeq(ws, 1, 2)) + d
         IN  Word(lo % 65536, 2) \o Word((Val(SubSeq(ws, 3, 4)) + lo \div 65536) % 65536, 2)
AddBE(ws, d) == Reverse(AddLE(Reverse(ws), d))

(* The cases of havoc's switch: the records [data, size] one stacked    *)
(* mutation may leave, with size the member dataSize after it.  The     *)
(* random offsets, values and lengths range over the bounds.            *)
HavocCases(d) ==
    LET ds == Len(d)
        P(w) == {p \in HavocPos : p <= ds - w}
        R(x) == [data |-> x, size |-> ds]
        Ints(w) == CASE w = 1 -> {Word(INTERESTING_8[k], 1) : k \in HavocPicks}
                     [] w = 2 -> {Word(INTERESTING_16[k], 2) : k \in HavocPicks}
                     [] w = 4 -> {Word(INTERESTING_32[k], 4) : k \in HavocPicks}
        Interesting(w) ==        \* cases 1, 2, 3
            IF ds < w THEN {R(d)}
            ELSE {R(Put(d, p, v)) : p \in P(w), v \in Ints(w) \cup {Reverse(v) : v \in Ints(w)}}
        Arith(w) ==              \* cases 4 to 9
            IF ds < w THEN {R(d)}
            ELSE {R(Put(d, p, AddLE(Window(d, p, w), s * a))) : p \in P(w), a \in HavocArith, s \in {-1, 1}}
                 \cup {R(Put(d, p, AddBE(Window(d, p, w), s * a))) : p \in P(w), a \in HavocArith, s \in {-1, 1}}
        Lens == {l \in HavocBlockLens : l <= ds - 1}
        Delete ==                \* cases 11 and 12: memmove, dataSize -= delLen
            IF ds < 2 THEN {R(d)}
            ELSE UNION {{[data |-> Put(d, f, SubSeq(d, f + l + 1, ds)), size |-> ds - l] :
                          f \in P(l)} : l \in Lens}
        Overwrite ==             \* case 13: memmove (75%) or memset (25%)
            IF ds < 2 THEN {R(d)}
            ELSE UNION {{R(Put(d, t, Window(d, f, l))) : f \in P(l), t \in P(l)}
                        \cup {R(Put(d, t, [x \in 1..l |-> v])) :
                               t \in P(l), v \in HavocArith \cup {d[p + 1] : p \in P(1)}} : l \in Lens}
        Extra ==                 \* case 14
            UNION {IF Len(e) > ds THEN {R(d)} ELSE {R(Put(d, p, e)) : p \in P(Len(e))}
                   : e \in {CodeDict[k] : k \in DOMAIN CodeDict}}
    IN  {R(flipbit(d, 8 * p)) : p \in P(1)}                                  \* case 0
        \cup Interesting(1) \cup Interesting(2) \cup Interesting(4)
        \cup Arith(1) \cup Arith(2) \cup Arith(4)
        \cup {R(Put(d, p, <<d[p + 1] ^^ a>>)) : p \in P(1), a \in HavocArith}  \* case 10
        \cup Delete
        \cup (IF Len(CodeDict) > 0 THEN Overwrite \cup Extra ELSE {})  \* UR(13 + 2)

(* havoc: one stacked mutation of the working copy.                     *)
HavocOp ==
    /\ Stage = "havoc"
    /\ i < LoopEnd /\ j < stacking
    /\ \E r \in HavocCases(data) : data' = r.data /\ dataSize' = r.size
    /\ j' = j + 1 /\ sent' = <<>> /\ skipped' = {}
    /\ UNCHANGED <<plan, i, orig, buf, eff, effCount, changed, fds, txLen, cycle, stacking, queue>>

(* havoc: the stacked copy is sent and the copy reset to the origin.    *)
HavocCall ==
    /\ Stage = "havoc"
    /\ i < LoopEnd /\ j = stacking
    /\ sent' = <<Call(data, i)>>
    /\ data' = buf
    /\ stacking' \in HavocStacks
    /\ i' = i + 1 /\ j' = 0 /\ skipped' = {}
    /\ UNCHANGED <<plan, orig, buf, dataSize, eff, effCount, changed, fds, txLen, cycle, queue>>

EndHavoc ==
    /\ Stage = "havoc"
    /\ i >= LoopEnd
    /\ plan' = Tail(plan) /\ i' = 0 /\ j' = 0
    /\ sent' = <<>> /\ skipped' = {}
    /\ UNCHANGED <<orig, buf, dataSize, eff, effCount, changed, data, fds, txLen, cycle, stacking, queue>>

(* splice: the descriptor list doubled, the constructor's nameless      *)
(* descriptor kept only at the end; and its restore on the way out,     *)
(* where length is the size on entry.                                   *)
DoubleFds(f) ==
    LET g == f \o f IN IF Last(g) = Nameless THEN RemoveAt(g, Len(f)) ELSE g
(* Mutant: the list cut back without moving the nameless descriptor.   *)
RestoreFdsTruncate(f, length) == SubSeq(f, 1, length)
RestoreFds(f, length) ==
    LET g == IF Last(f) = Nameless THEN [f EXCEPT ![length] = Last(f)] ELSE f
    IN  SubSeq(g, 1, length)

(* Mutant: only the size of the queue is tested on entry.               *)
SpliceEnterNoDiffCheck ==
    /\ Stage = "splice" /\ queue = <<>>
    /\ \E q \in Queues :
         /\ queue' = q
         /\ IF Len(q) <= 1
              THEN plan' = Tail(plan) /\ UNCHANGED fds
              ELSE fds' = DoubleFds(fds) /\ UNCHANGED plan
    /\ cycle' = 0 /\ sent' = <<>> /\ skipped' = {}
    /\ UNCHANGED <<i, j, orig, buf, dataSize, eff, effCount, changed, data, txLen, stacking>>

(* splice: the leaders' items arrive; with at most one of them, or all  *)
(* of them with queues[0]'s checksum, splice returns false at once.     *)
SpliceEnter ==
    /\ Stage = "splice" /\ queue = <<>>
    /\ \E q \in Queues :
         /\ queue' = q
         /\ IF Len(q) <= 1 \/ ~\E k \in DOMAIN q : q[k].cksum # q[1].cksum
              THEN plan' = Tail(plan) /\ UNCHANGED fds
              ELSE fds' = DoubleFds(fds) /\ UNCHANGED plan
    /\ cycle' = 0 /\ sent' = <<>> /\ skipped' = {}
    /\ UNCHANGED <<i, j, orig, buf, dataSize, eff, effCount, changed, data, txLen, stacking>>

SpliceLooping == Stage = "splice" /\ queue # <<>>
(* Mutant: the cycle bound tested inclusively.                          *)
SpliceConditionInclusive == cycle <= SPLICE_CYCLES /\ Len(buf) > 1
SpliceCondition == cycle < SPLICE_CYCLES /\ Len(buf) > 1

(* The partner tid drawn until its checksum differs from the leader's.  *)
Partners == {k \in DOMAIN queue : queue[k].cksum # InputCksum}

(* The buffer the splice sends: resize(2 * maxLen), then maxLen bytes   *)
(* of the partner and target.size() bytes from outBuf, the pointer      *)
(* taken before the resize.  The resize reallocates, since the copy has *)
(* no spare capacity, so outBuf points into the freed block: of it, the *)
(* first c bytes hold what free() stored there, g; bytes read past the  *)
(* end of a block hold g too.                                           *)
Spliced(self, target, c, g) ==
    LET maxLen == IF Len(self) < Len(target) THEN Len(target) ELSE Len(self)
        Freed(k) == IF k < c \/ k >= Len(self) THEN g ELSE self[k + 1]
        Partner(k) == IF k < Len(target) THEN target[k + 1] ELSE g
    IN  [x \in 1..2 * maxLen |->
            IF x <= maxLen THEN Partner(x - 1)
            ELSE IF x - maxLen <= Len(target) THEN Freed(x - maxLen - 1) ELSE 0]

BadDiffs(d) == d[1] < 0 \/ d[2] < 2 \/ d[1] = d[2]

(* A loop iteration whose partner differs by too little: continue.      *)
SpliceMiss ==
    /\ SpliceLooping /\ SpliceCondition
    /\ \E tid \in Partners :
         LET t == queue[tid].data
             minLen == IF Len(buf) > Len(t) THEN Len(t) ELSE Len(buf)
         IN  BadDiffs(locateDiffs(data, t, minLen))
    /\ cycle' = cycle + 1 /\ sent' = <<>> /\ skipped' = {}
    /\ UNCHANGED <<plan, i, j, orig, buf, dataSize, eff, effCount, changed, data, fds, txLen, stacking, queue>>

(* The spliced buffer sent as a two-call test, then the descriptor list *)
(* restored and true returned.                                          *)
SpliceHit ==
    /\ SpliceLooping /\ SpliceCondition
    /\ \E tid \in Partners, c \in ClobberLens, g \in FreedBytes :
         LET t == queue[tid].data
             minLen == IF Len(buf) > Len(t) THEN Len(t) ELSE Len(buf)
         IN  /\ ~BadDiffs(locateDiffs(data, t, minLen))
             /\ sent' = <<[stage |-> Stage, data |-> Spliced(data, t, c, g), at |-> tid, fds |-> fds, txLen |-> 2]>>
    /\ txLen' = 1
    /\ data' = buf
    /\ fds' = RestoreFds(fds, Len(Fds))
    /\ plan' = Tail(plan) /\ cycle' = cycle + 1 /\ skipped' = {}
    /\ UNCHANGED <<i, j, orig, buf, dataSize, eff, effCount, changed, stacking, queue>>

(* The loop condition fails (the post-increment still counts): the     *)
(* descriptor list is restored and false returned.                      *)
SpliceGiveUp ==
    /\ SpliceLooping /\ ~SpliceCondition
    /\ fds' = RestoreFds(fds, Len(Fds))
    /\ plan' = Tail(plan) /\ cycle' = cycle + 1 /\ sent' = <<>> /\ skipped' = {}
    /\ UNCHANGED <<i, j, orig, buf, dataSize, eff, effCount, changed, data, txLen, stacking, queue>>

(* The end of a stage whose loop has run out.                           *)
EndStage ==
    /\ Stage \in {"bit1", "bit2", "bit4", "byte2", "byte4", "int1", "int2", "int4", "addr"}
    /\ i >= LoopEnd
    /\ plan' = Tail(plan) /\ i' = 0 /\ j' = 0
    /\ sent' = <<>> /\ skipped' = {}
    /\ UNCHANGED <<orig, buf, dataSize, eff, effCount, changed, data, fds, txLen, cycle, stacking, queue>>

Next ==
    \/ WalkingBit
    \/ SingleWalkingByte
    \/ EndSingleWalkingByte
    \/ WalkingByte
    \/ EndStage
    \/ InterestSkip
    \/ SingleInterest
    \/ WordInterest
    \/ InterestNext
    \/ AddressStep
    \/ AddressNext
    \/ HavocOp
    \/ HavocCall
    \/ EndHavoc
    \/ SpliceEnter
    \/ SpliceMiss
    \/ SpliceHit
    \/ SpliceGiveUp

Spec == Init /\ [][Next]_vars

-----------------------------------------------------------------------------
(* What the stages promise (spec section 4.7 and invariants 5 and 6).  *)

DetStages == {"bit1", "bit2", "bit4", "byte1", "byte2", "byte4", "int1", "int2", "int4", "addr"}

(* The bytes a deterministic stage may change in its iteration at:     *)
(* 1, 2 or 4 consecutive bits, 1, 2 or 4 bytes, or the address slot,   *)
(* bytes 12 to 31, of an ABI word.                                     *)
Span(st, at) ==
    CASE st \in {"bit1", "bit2", "bit4"} -> {(at + t) \div 8 : t \in 0..Width[st] - 1}
      [] st = "byte1" -> {at}
      [] st = "addr" -> at + 12..at + 31
      [] OTHER -> at..at + Width[st] - 1

PadTo(b, n) == [x \in 1..n |-> IF x <= Len(b) THEN b[x] ELSE 0]
MaxLen(a, b) == IF Len(a) < Len(b) THEN Len(b) ELSE Len(a)

TypeOK ==
    /\ Stage \in DetStages \cup {"havoc", "splice", "done"}
    /\ buf \in Seq(Byte) /\ data \in Seq(Byte)
    /\ eff \in [0..effALen(Len(Input)) - 1 -> {0, 1}]
    /\ changed \subseteq DOMAIN eff
    /\ \A k \in DOMAIN sent : sent[k].data \in Seq(Byte \cup FreedBytes)
    /\ cycle \in 0..SPLICE_CYCLES + 1
    /\ txLen \in {1, 2}

(* Invariant 5: each deterministic iteration undoes its writes, so the *)
(* leader's buffer equals the input whenever an iteration of any stage *)
(* starts, and havoc's working copy is reset before each iteration.    *)
BufferRestored ==
    /\ j = 0 => buf = Input
    /\ Stage = "havoc" /\ j = 0 => data = buf

(* Every callback of a deterministic stage gets the input with only    *)
(* the bytes of its iteration changed: a write the stage left behind,  *)
(* or one outside its window (the address slot, bits 12 to 31 of the   *)
(* word), shows up as a changed byte outside Span.                      *)
CallbacksStayInWindow ==
    \A k \in DOMAIN sent :
        LET c == sent[k] IN
        c.stage \in DetStages =>
            \A x \in DOMAIN c.data : c.data[x] # Input[x] => x - 1 \in Span(c.stage, c.at)

(* Havoc deletes a block to keep testcases small (the comment at lines *)
(* 681-683, spec 4.7): the stacked testcase cb(data) receives has the   *)
(* dataSize bytes the last stacked mutation left.  Cases 11-12 lower    *)
(* dataSize by delLen but only memmove the tail inside data, whose size *)
(* stays, so the deleted length is refilled with a copy of the tail.   *)
HavocSendsDataSize ==
    Stage = "havoc" /\ i < LoopEnd /\ j = stacking /\ j > 0 => Len(data) = dataSize

(* A window is skipped on the effector map only if no byte of its      *)
(* blocks changed the checksum when singleWalkingByte flipped it: the  *)
(* later stages never skip a byte that was seen to matter.             *)
SkipsOnlyInertBytes == \A k \in skipped : effAPos(k) \notin changed

(* Invariant 6: a splice sends a two-call test of 2 * maxLen bytes and *)
(* leaves the descriptor list and the transaction length as it found   *)
(* them, whether it returns true or false.                             *)
SpliceRestoresAbi ==
    /\ \A k \in DOMAIN sent :
         sent[k].stage = "splice" =>
             /\ Len(sent[k].data) = 2 * MaxLen(Input, queue[sent[k].at].data)
             /\ sent[k].txLen = 2
    /\ ~SpliceLooping => fds = Fds /\ txLen = 1

(* The partner draw of splice, a do-while over random tids, always has *)
(* a partner to find: the entry test compares with queues[0], the draw *)
(* with the leader, yet two checksums among the items mean one differs *)
(* from the leader's.                                                  *)
PartnerExists == SpliceLooping /\ SpliceCondition => Partners # {}

(* Spec 4.7: the spliced buffer is the partner followed by the leader, *)
(* both padded to the longer length.                                   *)
SplicedIsPartnerThenSelf ==
    \A k \in DOMAIN sent :
        sent[k].stage = "splice" =>
            LET t == queue[sent[k].at].data
                n == MaxLen(Input, t)
            IN  sent[k].data = PadTo(t, n) \o PadTo(Input, n)
=============================================================================
