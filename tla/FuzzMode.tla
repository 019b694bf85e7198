------------------------------ MODULE FuzzMode ------------------------------
(***************************************************************************)
(* The fuzz (vulnerability) mode of Fuzzer::start and its saveIfInterest   *)
(* overload (src/sFuzz/libfuzzer/Fuzzer.cpp 508-578, 926-1137): the       *)
(* energy table read from weight.json, leaders read from leaders.json, the *)
(* loop that fuzzes the leader of the branch with the most energy, the    *)
(* energy decrement by the hits of every run, and the vulnerability       *)
(* counters of OracleFactory::analyze as the scheduler consumes them.     *)
(*                                                                         *)
(* Testcases are model values; Reach[t] is the reached_branch map of a    *)
(* fuzz-mode execution of t (branch id -> hits), Found[t][k] the number   *)
(* of calls of t's execution that oracle k flags.  Time is counted in     *)
(* saves: the duration is exceeded at DurationSaves.                      *)
(***************************************************************************)
EXTENDS Integers, Sequences, SequencesExt, FiniteSets

CONSTANTS
    Tests,          \* testcases the stages can produce
    Ids,            \* branch ids (":" is the id of the no-branch energy)
    Reach,          \* Reach[t]: branch id -> hits in one execution of t
    Kinds,          \* oracle kinds
    Found,          \* Found[t][k]: calls of t's execution flagged by oracle k
    WeightTable,    \* readWeight: the energy records of weight.json, in file order
    LeaderTable,    \* readLeaders: branch id -> testcase of leaders.json
    ValidJumpiCases, \* the values of branchSize # 0 for the contracts checked
    NoBranchWeight, \* weight of the ":" energy (128)
    ReplaceAfter,   \* fuzzedCount above which an equal-hit testcase replaces a leader (16)
    CounterWidth,   \* width of the vulnerabilities counters (uint16_t)
    DurationSaves   \* saves after which the duration is exceeded

ASSUME /\ ":" \in Ids
       /\ DurationSaves \in Nat \ {0}
       /\ ReplaceAfter \in Nat

CounterMod == 2^CounterWidth

VARIABLES
    phase,        \* init, pick, det, havoc, splice, advance, stopped, crashed
    energys,      \* Fuzzer::energys, a sequence of [id, w]
    enIt,         \* enIt as an index into energys
    leaders,      \* Fuzzer::leaders: id -> [item, cv (hit count), fuzzed]
    branch_hits,  \* Fuzzer::branch_hits
    cur,          \* leaderIt->first and the copy curItem
    replaced,     \* the node leaderIt points to was erased in this round
    vulns,        \* OracleFactory::vulnerabilities, as copied into Fuzzer
    pending,      \* flags of calls executed but not yet analyzed
    vulnerCase,   \* vulnerCase[k]: testcases recorded as triggering k
    saves         \* saves so far (time)

vars == <<phase, energys, enIt, leaders, branch_hits, cur, replaced, vulns,
          pending, vulnerCase, saves>>

NoCur == [key |-> "none"]
NatMax(a, b) == IF a > b THEN a ELSE b
NatMin(a, b) == IF a < b THEN a ELSE b
ZeroCounts == [k \in Kinds |-> 0]

\* max_element with "p1.weight < p2.weight": the first record of largest weight.
FirstMax(E) ==
    CHOOSE i \in DOMAIN E :
        /\ \A j \in DOMAIN E : E[j].w <= E[i].w
        /\ \A j \in 1..(i - 1) : E[j].w < E[i].w

EnergyIds(E) == {E[i].id : i \in DOMAIN E}
Remaining(E) == FoldSeq(LAMBDA r, acc : r.w + acc, 0, E)

NewLeader(t, hits) == [item |-> t, cv |-> hits, fuzzed |-> 0]

-----------------------------------------------------------------------------
(* saveIfInterest, fuzz overload, lines 508-578                             *)

\* Mutant: the hit count subtracted without the floor at 0.
DrainNoFloor(w, hits) == w - hits

\* Mutant: the energy drained by one per save, as for ":".
DrainByOne(w, hits) == NatMax(0, w - 1)

\* energys[i].weight = max(0, weight - hits)
Drain(w, hits) == NatMax(0, w - hits)

\* A reached branch's leader is replaced by a testcase hitting it more often,
\* or as often once the current leader was fuzzed more than 16 times.
Replaces(l, hits, fc) ==
    l.cv < hits \/ (l.cv = hits /\ fc > ReplaceAfter)

(***************************************************************************)
(* One saveIfInterest of t with fuzzedCount fc.  With the no-branch        *)
(* energy ":" first, its weight drops by one and the leader insert is a    *)
(* no-op when ":" is already a leader ("leaders.empty()" clears nothing). *)
(* Otherwise, for every reached branch: insert or replace its leader, and  *)
(* if it has energy, drain the energy by the hits and add them to         *)
(* branch_hits.  Also queues t's oracle flags for the next analyze.       *)
(***************************************************************************)
SaveIfInterest(t, fc) ==
    LET R  == Reach[t]
        RB == DOMAIN R
        E  == energys
        isNoBranch == E # <<>> /\ E[1].id = ":"
        upd  == {b \in RB : b \notin DOMAIN leaders \/ Replaces(leaders[b], R[b], fc)}
        drained == {b \in RB : b \in EnergyIds(E)}
        zeroed  == {b \in RB : b \notin DOMAIN leaders \/
                      (Replaces(leaders[b], R[b], fc) /\ leaders[b].cv = 0)}
        BH1 == [b \in zeroed \ DOMAIN branch_hits |-> 0] @@ branch_hits
    IN  /\ IF isNoBranch
           THEN /\ energys' = [E EXCEPT ![1].w = @ - 1]
                /\ leaders' = IF fc > ReplaceAfter /\ ":" \notin DOMAIN leaders
                              THEN (":" :> NewLeader(t, 0)) @@ leaders
                              ELSE leaders
                /\ UNCHANGED branch_hits
           ELSE /\ leaders' = [b \in upd |-> NewLeader(t, R[b])] @@ leaders
                /\ energys' = [i \in DOMAIN E |->
                                 IF E[i].id \in RB
                                 THEN [E[i] EXCEPT !.w = Drain(@, R[E[i].id])]
                                 ELSE E[i]]
                /\ branch_hits' =
                      [b \in DOMAIN BH1 \cup drained |->
                          (IF b \in DOMAIN BH1 THEN BH1[b] ELSE 0)
                          + (IF b \in drained THEN R[b] ELSE 0)]
        /\ replaced' = (replaced \/ (~isNoBranch /\ cur # NoCur /\ cur.key \in upd))

(***************************************************************************)
(* The save lambda after saveIfInterest (lines 1001-1064): analyze every   *)
(* call executed since the last analyze, each flagged call incrementing    *)
(* the uint16 counter; a testcase is recorded for kind k when the counter *)
(* grew since the last save; then the stop check: speed (slow, a choice),  *)
(* energy drained, or duration exceeded.                                   *)
(***************************************************************************)
Analyze(t) ==
    LET c == [k \in Kinds |-> (vulns[k] + pending[k] + Found[t][k]) % CounterMod]
    IN  /\ vulns' = c
        /\ vulnerCase' = [k \in Kinds |->
                            IF c[k] > vulns[k] THEN vulnerCase[k] \cup {t}
                            ELSE vulnerCase[k]]
        /\ pending' = ZeroCounts

\* Mutant: the stop check without the duration.
MustStopNoDuration(slow) ==
    \/ slow
    \/ Remaining(energys') = 0

\* Lines 1042-1046: speed <= 10, remaining energy 0, or duration exceeded.
MustStop(slow) ==
    \/ slow
    \/ Remaining(energys') = 0
    \/ saves' >= DurationSaves

\* The fuzzedCount read through leaderIt: after its node was erased, the
\* freed node (unchanged) or the node reused for the new leader.
ReadFuzzed ==
    IF replaced THEN {cur.fuzzed, leaders[cur.key].fuzzed}
    ELSE {leaders[cur.key].fuzzed}

-----------------------------------------------------------------------------
Init ==
    /\ phase = "init"
    /\ energys = <<>>
    /\ enIt = 1
    /\ leaders = [b \in {} |-> NewLeader(CHOOSE t \in Tests : TRUE, 0)]
    /\ branch_hits = [b \in {} |-> 0]
    /\ cur = NoCur
    /\ replaced = FALSE
    /\ vulns = ZeroCounts
    /\ pending = ZeroCounts
    /\ vulnerCase = [k \in Kinds |-> {}]
    /\ saves = 0

\* Lines 964-966: data0Len = leaders.find(enIt->branchId)->second...;
\* a max-energy branch without a leader dereferences end().
AfterStart ==
    /\ enIt' = FirstMax(energys')
    /\ phase' = IF energys'[FirstMax(energys')].id \in DOMAIN leaders'
                THEN "pick" ELSE "crashed"

\* Lines 952-968: no valid JUMPI or no weights: a ":" energy of weight 128,
\* one save of a random testcase (no analyze, no stop check), then ":"
\* becomes a leader.
StartNoBranch(t) ==
    /\ phase = "init"
    /\ \E valid \in ValidJumpiCases : ~valid \/ WeightTable = <<>>
    /\ energys = <<>>
    /\ LET E0 == WeightTable \o <<[id |-> ":", w |-> NoBranchWeight]>>
           isNB == E0[1].id = ":"
           R == Reach[t]
       IN  /\ energys' = IF isNB THEN [E0 EXCEPT ![1].w = @ - 1]
                         ELSE [i \in DOMAIN E0 |->
                                 IF E0[i].id \in DOMAIN R
                                 THEN [E0[i] EXCEPT !.w = Drain(@, R[E0[i].id])]
                                 ELSE E0[i]]
           /\ leaders' = (":" :> NewLeader(t, 0)) @@
                         IF isNB THEN leaders
                         ELSE [b \in DOMAIN R |-> NewLeader(t, R[b])]
           /\ branch_hits' = IF isNB THEN branch_hits
                             ELSE [b \in DOMAIN R |->
                                     IF b \in EnergyIds(E0) THEN R[b] ELSE 0]
    /\ pending' = Found[t]
    /\ AfterStart
    /\ UNCHANGED <<cur, replaced, vulns, vulnerCase, saves>>

\* Lines 970-971: readLeaders, every leader with comparisonValue 0.
StartWithBranches ==
    /\ phase = "init"
    /\ TRUE \in ValidJumpiCases /\ WeightTable # <<>>
    /\ energys' = WeightTable
    /\ leaders' = [b \in DOMAIN LeaderTable |-> NewLeader(LeaderTable[b], 0)]
    /\ AfterStart
    /\ UNCHANGED <<branch_hits, cur, replaced, vulns, pending, vulnerCase,
                   saves>>

\* Lines 975-981: a branch without a leader is skipped, cyclically.
SkipNoLeader ==
    /\ phase = "pick"
    /\ energys[enIt].id \notin DOMAIN leaders
    /\ enIt' = IF enIt = Len(energys) THEN 1 ELSE enIt + 1
    /\ UNCHANGED <<phase, energys, leaders, branch_hits, cur, replaced, vulns,
                   pending, vulnerCase, saves>>

\* Lines 983-1070: the leader's copy; fresh leaders get the walks.
Pick ==
    /\ phase = "pick"
    /\ energys[enIt].id \in DOMAIN leaders
    /\ LET key == energys[enIt].id
           l   == leaders[key]
       IN  /\ cur' = [key |-> key, item |-> l.item, fuzzed |-> l.fuzzed]
           /\ phase' = IF l.fuzzed = 0 THEN "det" ELSE "havoc"
    /\ replaced' = FALSE
    /\ UNCHANGED <<energys, enIt, leaders, branch_hits, vulns, pending,
                   vulnerCase, saves>>

\* One call of the save lambda from a stage; last ends the stage.
Save(t) ==
    /\ phase \in {"det", "havoc"}
    /\ saves < DurationSaves
    /\ \E fc \in ReadFuzzed : SaveIfInterest(t, fc)
    /\ Analyze(t)
    /\ saves' = saves + 1
    /\ \E slow, last \in BOOLEAN :
          phase' = IF MustStop(slow) THEN "stopped"
                   ELSE IF ~last THEN phase
                   ELSE IF phase = "det" THEN "advance"
                   ELSE IF cur.fuzzed = 0 THEN "advance" ELSE "splice"
    /\ UNCHANGED <<enIt, cur>>

(***************************************************************************)
(* Lines 1108-1124 and Mutation.cpp 740-755: a fuzz-mode execution      *)
(* records no tracebits, so every item's cksum is "" and count_if finds    *)
(* no differing checksum: splice returns false without a save.             *)
(***************************************************************************)
SpliceFail ==
    /\ phase = "splice"
    /\ phase' = "advance"
    /\ UNCHANGED <<energys, enIt, leaders, branch_hits, cur, replaced, vulns,
                   pending, vulnerCase, saves>>

\* Lines 1128-1135: fuzzedCount += 1 through leaderIt (lost or landing on
\* the reused node when it was erased), then the max-energy branch again.
Advance ==
    /\ phase = "advance"
    /\ \E reuse \in IF replaced THEN BOOLEAN ELSE {TRUE} :
          leaders' = IF reuse
                     THEN [leaders EXCEPT ![cur.key].fuzzed = NatMin(@ + 1, ReplaceAfter + 1)]
                     ELSE leaders
    /\ enIt' = FirstMax(energys)
    /\ phase' = "pick"
    /\ UNCHANGED <<energys, branch_hits, cur, replaced, vulns, pending,
                   vulnerCase, saves>>

Next ==
    \/ \E t \in Tests : StartNoBranch(t)
    \/ StartWithBranches
    \/ SkipNoLeader
    \/ Pick
    \/ \E t \in Tests : Save(t)
    \/ SpliceFail
    \/ Advance

\* One thread, always taking its next step until stop() or a crash.
Spec == Init /\ [][Next]_vars /\ WF_vars(Next)

-----------------------------------------------------------------------------
TypeOK ==
    /\ phase \in {"init", "pick", "det", "havoc", "splice", "advance", "stopped", "crashed"}
    /\ \A i \in DOMAIN energys : energys[i].id \in Ids /\ energys[i].w \in Nat
    /\ DOMAIN leaders \subseteq Ids
    /\ \A b \in DOMAIN leaders :
          leaders[b].item \in Tests /\ leaders[b].fuzzed \in 0..(ReplaceAfter + 1)
    /\ DOMAIN branch_hits \subseteq Ids
    /\ vulns \in [Kinds -> 0..(CounterMod - 1)]
    /\ saves \in 0..DurationSaves
    /\ \A k \in Kinds : vulnerCase[k] \subseteq Tests /\ pending[k] \in Nat

(***************************************************************************)
(* The energy of a weighted branch is what weight.json gave it, less the  *)
(* hits branch_hits has counted for it over all saves, floored at 0: the   *)
(* per-save max(0, weight - hits) of line 569 accumulates into the floor  *)
(* of the total (spec: weights are non-negative and only decrease).        *)
(***************************************************************************)
InitialWeight(b) == LET i == CHOOSE i \in DOMAIN WeightTable : WeightTable[i].id = b
                    IN WeightTable[i].w
Hits(b) == IF b \in DOMAIN branch_hits THEN branch_hits[b] ELSE 0

EnergyAccountsHits ==
    \A i \in DOMAIN energys :
        energys[i].id # ":" =>
            energys[i].w = NatMax(0, InitialWeight(energys[i].id) - Hits(energys[i].id))

(***************************************************************************)
(* The fuzz loop ends: stop() is reached through the energy, the duration  *)
(* or the speed check.  In particular the loop skipping branches without   *)
(* leaders (lines 975-981) does not spin forever.                          *)
(***************************************************************************)
Termination == <>(phase = "stopped")

(***************************************************************************)
(* Start never dereferences leaders.end(): the branch with the most energy *)
(* has a leader when data0Len is read (line 966).                          *)
(***************************************************************************)
NoCrash == phase # "crashed"
====
