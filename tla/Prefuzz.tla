------------------------------- MODULE Prefuzz -------------------------------
(***************************************************************************)
(* The prefuzz (branch discovery) loop of Fuzzer::start and                *)
(* Fuzzer::saveIfInterest in src/sFuzz/libfuzzer/Fuzzer.cpp.               *)
(*                                                                         *)
(* A testcase is a model value of Tests; Run[t] is the sequence of hook    *)
(* events its execution produces, and SpliceRun[<<p, t>>] the events       *)
(* recorded when t's calls run after the calls of partner p (the splice    *)
(* stage).  Every mutation stage is abstracted to "save some testcase":    *)
(* what the mutated bytes are does not matter, only what their execution  *)
(* reports.  Time is abstracted to saves: the stall timeout fires after    *)
(* StallSaves saves without a new path.                                    *)
(***************************************************************************)
EXTENDS ExecResult, FiniteSets, SequencesExt

CONSTANTS
    Tests,        \* the testcases the mutation stages can produce
    Run,          \* Run[t]: the hook events of one execution of t
    SpliceRun,    \* SpliceRun[<<p, t>>]: events of t's calls run after p's calls
    StallSaves,   \* saves without a new path after which the duration is exceeded
    FuzzCap,      \* fuzzedCount saturates here (only 0 and order matter)
    CycleCap      \* queueCycle saturates here (only > 0 matters)

ASSUME /\ StallSaves \in Nat \ {0}
       /\ FuzzCap \in Nat \ {0}
       /\ CycleCap \in Nat \ {0}

\* branchSize: two branch ids per valid JUMPI.  The early exit for a
\* contract without valid JUMPI (branchSize = 0) happens before any state.
BranchSize == 2 * Cardinality(DOMAIN JumpDest)
ASSUME BranchSize > 0

VARIABLES
    phase,        \* where Fuzzer::start is: init, select, det, havoc, splice, advance, stopped
    tracebits,    \* Fuzzer::tracebits, branch ids covered so far
    predicates,   \* Fuzzer::predicates, untaken branch ids not yet covered
    leaders,      \* Fuzzer::leaders, branch id -> Leader (item, ck = item.res.cksum, cv, fuzzed)
    queues,       \* Fuzzer::queues, the round-robin order of leader ids
    idx,          \* fuzzStat.idx, 0-based position in queues
    queueCycle,   \* fuzzStat.queueCycle (saturating at CycleCap)
    sinceNewPath, \* saves since fuzzStat.lastNewPath (saturating at StallSaves)
    cur,          \* the leader of the current round: leaderIt->first and a copy of curItem
    replaced      \* the node leaderIt points to was erased during this round

vars == <<phase, tracebits, predicates, leaders, queues, idx, queueCycle,
          sinceNewPath, cur, replaced>>

Phases == {"init", "select", "det", "havoc", "splice", "advance", "stopped"}
LeaderRec == [item : Tests, ck : SUBSET Branches, cv : Word, fuzzed : 0..FuzzCap]
NoCur == [key |-> "none"]

NatMin(a, b) == IF a < b THEN a ELSE b

-----------------------------------------------------------------------------
(* saveIfInterest, lines 394-498                                            *)

\* Leaders of the newly covered tracebits: comparison value 0.
NewTraceLeaders(t, res) ==
    [b \in res.tracebits \ tracebits |->
        [item |-> t, ck |-> res.tracebits, cv |-> 0, fuzzed |-> 0]]

\* Mutant: every new tracebit appended, queued or not.
TraceAppendsAll(newT) == newT

\* New tracebits are appended to queues unless already queued.
TraceAppends(newT) == newT \ Range(queues)

\* Mutant: the distance comparison dropped.
ImprovesAny(l, v) == l.cv > 0

\* An existing uncovered leader is replaced when the new distance is smaller.
Improves(l, v) == l.cv > 0 /\ l.cv > v

\* Mutant: the covered ids are not erased.
UpdatePredicatesKeepCovered(p, res, tb) == p \cup DOMAIN res.predicates

\* updatePredicates: add the new untaken ids, then erase every covered id.
UpdatePredicates(p, res, tb) == (p \cup DOMAIN res.predicates) \ tb

(***************************************************************************)
(* One saveIfInterest of testcase t whose execution produced run: the      *)
(* tracebit loop, then the predicate loop over the leaders it left, then   *)
(* updateTracebits and updatePredicates.  Ids are appended to queues in    *)
(* the iteration order of the unordered containers: any order.  Sets       *)
(* sinceNewPath, and replaced when the node of cur.key was erased.         *)
(***************************************************************************)
SaveIfInterest(t, run) ==
    LET res    == ExecPrefuzz(run)
        newT   == res.tracebits \ tracebits
        L1     == NewTraceLeaders(t, res) @@ leaders
        better == {b \in DOMAIN res.predicates \cap DOMAIN L1 :
                      Improves(L1[b], res.predicates[b])}
        fresh  == DOMAIN res.predicates \ DOMAIN L1
        L2     == [b \in better \cup fresh |->
                      [item |-> t, ck |-> res.tracebits,
                       cv |-> res.predicates[b], fuzzed |-> 0]] @@ L1
    IN  /\ leaders' = L2
        /\ \E s1 \in SetToSeqs(TraceAppends(newT)), s2 \in SetToSeqs(fresh) :
              queues' = queues \o s1 \o s2
        /\ tracebits' = tracebits \cup res.tracebits
        /\ predicates' = UpdatePredicates(predicates, res, tracebits')
        /\ sinceNewPath' = IF newT \cup better \cup fresh # {} THEN 0
                           ELSE NatMin(sinceNewPath + 1, StallSaves)
        /\ replaced' = (replaced \/ (cur # NoCur /\ cur.key \in newT \cup better))

MustStopNoCoverage(slow) ==   \* mutant: "!predicates.size()" dropped
    \/ sinceNewPath' = StallSaves /\ queueCycle > 0
    \/ slow

(***************************************************************************)
(* The stop check of the save lambda, lines 813-839: duration exceeded     *)
(* since the last new path once a queue cycle is complete, a speed of at   *)
(* most 10 execs/s (slow, a choice), or no predicate left.                 *)
(***************************************************************************)
MustStop(slow) ==
    \/ sinceNewPath' = StallSaves /\ queueCycle > 0
    \/ slow
    \/ predicates' = {}

\* The stage that follows a stage's last save.
NextStage(ph) ==
    IF ph = "det" THEN "havoc"
    ELSE IF cur.fuzzed = 0 THEN "advance" ELSE "splice"

-----------------------------------------------------------------------------
Init ==
    /\ phase = "init"
    /\ tracebits = {}
    /\ predicates = {}
    /\ leaders = [b \in {} |-> NoCur]
    /\ queues = <<>>
    /\ idx = 0
    /\ queueCycle = 0
    /\ sinceNewPath = 0
    /\ cur = NoCur
    /\ replaced = FALSE

Uncovered(L) == {b \in DOMAIN L : L[b].cv # 0}

\* Lines 747-771: the first save of a random testcase, without the stop
\* check of the lambda; stop when no leader, or no uncovered leader, exists.
FirstSave(t) ==
    /\ phase = "init"
    /\ SaveIfInterest(t, Run[t])
    /\ phase' = IF Uncovered(leaders') = {} THEN "stopped" ELSE "select"
    /\ UNCHANGED <<idx, queueCycle, cur>>

\* Lines 774-782: leaderIt = leaders.find(queues[idx]), curItem a copy; an
\* uncovered leader gets the deterministic stages when never fuzzed, else
\* havoc and splice; a covered one goes straight to the bookkeeping.
Select ==
    /\ phase = "select"
    /\ LET key == queues[idx + 1]
           l   == leaders[key]
       IN  /\ cur' = [key |-> key, item |-> l.item, ck |-> l.ck,
                      cv |-> l.cv, fuzzed |-> l.fuzzed]
           /\ phase' = IF l.cv = 0 THEN "advance"
                       ELSE IF l.fuzzed = 0 THEN "det" ELSE "havoc"
    /\ replaced' = FALSE
    /\ UNCHANGED <<tracebits, predicates, leaders, queues, idx, queueCycle,
                   sinceNewPath>>

\* One call of the save lambda (lines 789-841) from a flip or havoc stage;
\* last says whether it is the stage's last save.
Save(t) ==
    /\ phase \in {"det", "havoc"}
    /\ SaveIfInterest(t, Run[t])
    /\ \E slow, last \in BOOLEAN :
          phase' = IF MustStop(slow) THEN "stopped"
                   ELSE IF last THEN NextStage(phase) ELSE phase
    /\ UNCHANGED <<idx, queueCycle, cur>>

\* Mutation::splice, Mutation.cpp 749-768: more than one item and two
\* differing checksums; the partner's checksum differs from curItem's.
SplicePartners ==
    IF /\ Cardinality(DOMAIN leaders) > 1
       /\ \E a, b \in DOMAIN leaders : leaders[a].ck # leaders[b].ck
    THEN {leaders[b].item : b \in {c \in DOMAIN leaders : leaders[c].ck # cur.ck}}
    ELSE {}

\* The one save of a successful splice (Mutation.cpp 769-806): partner calls
\* then curItem's calls; saveIfInterest keeps the bytes after data0Len.
Splice(p) ==
    /\ phase = "splice"
    /\ p \in SplicePartners
    /\ SaveIfInterest(cur.item, SpliceRun[<<p, cur.item>>])
    /\ \E slow \in BOOLEAN :
          phase' = IF MustStop(slow) THEN "stopped" ELSE "advance"
    /\ UNCHANGED <<idx, queueCycle, cur>>

\* splice returns false: no partner, or locateDiffs rejects all 15 cycles.
SpliceFail ==
    /\ phase = "splice"
    /\ phase' = "advance"
    /\ UNCHANGED <<tracebits, predicates, leaders, queues, idx, queueCycle,
                   sinceNewPath, cur, replaced>>

\* idx = (idx + 1) % leaders.size(), queueCycle++ when it wraps.
NextIdx(i, n) == (i + 1) % n
CycleStep(qc, i) == IF i = 0 THEN NatMin(qc + 1, CycleCap) ELSE qc

(***************************************************************************)
(* Lines 906-923.  fuzzedCount += 1 through leaderIt.  When the node was   *)
(* erased during the round this is a use after free: the allocator may     *)
(* have given the memory to the new node of the same id (reuse) or not.    *)
(* Then idx advances, and when it lands on leaderIt again while more than  *)
(* one branch is uncovered (unsigned branchSize - tracebits.size() > 1)    *)
(* it jumps to some uncovered leader fuzzed less often (find_if order).   *)
(***************************************************************************)
Advance ==
    /\ phase = "advance"
    /\ \E reuse \in IF replaced THEN BOOLEAN ELSE {TRUE} :
        LET key  == cur.key
            L    == IF reuse
                    THEN [leaders EXCEPT ![key].fuzzed = NatMin(@ + 1, FuzzCap)]
                    ELSE leaders
            curF == IF reuse THEN L[key].fuzzed ELSE NatMin(cur.fuzzed + 1, FuzzCap)
            i1   == NextIdx(idx, Len(queues))
            gap  == Cardinality(tracebits) > BranchSize
                    \/ BranchSize - Cardinality(tracebits) > 1
            cand == {b \in DOMAIN L : L[b].fuzzed < curF /\ L[b].cv > 0}
        IN  /\ leaders' = L
            /\ queueCycle' = CycleStep(queueCycle, i1)
            /\ IF reuse /\ queues[i1 + 1] = key /\ gap /\ cand # {}
               THEN \E b \in cand : idx' = SelectInSeq(queues, LAMBDA q : q = b) - 1
               ELSE idx' = i1
    /\ phase' = "select"
    /\ UNCHANGED <<tracebits, predicates, queues, sinceNewPath, cur, replaced>>

Next ==
    \/ \E t \in Tests : FirstSave(t)
    \/ Select
    \/ \E t \in Tests : Save(t)
    \/ \E p \in Tests : Splice(p)
    \/ SpliceFail
    \/ Advance

\* The loop is one thread that always takes its next step until exit.
Spec == Init /\ [][Next]_vars /\ WF_vars(Next)

-----------------------------------------------------------------------------
(* Properties                                                               *)

\* Every result an execution of a save can report.
Results == {ExecPrefuzz(Run[t]) : t \in Tests}
           \cup {ExecPrefuzz(SpliceRun[pt]) : pt \in DOMAIN SpliceRun}

\* The coverage summary: tracebits, and the distance of each predicate's leader.
BS == INSTANCE BranchSearch
        WITH covered <- tracebits,
             best    <- [b \in predicates |->
                           IF b \in DOMAIN leaders THEN leaders[b].cv ELSE 0],
             done    <- (phase = "stopped")

TypeOK ==
    /\ phase \in Phases
    /\ tracebits \subseteq Branches
    /\ predicates \subseteq Branches
    /\ DOMAIN leaders \subseteq Branches
    /\ \A b \in DOMAIN leaders : leaders[b] \in LeaderRec
    /\ queues \in Seq(Branches)
    /\ idx \in Nat
    /\ queueCycle \in 0..CycleCap
    /\ sinceNewPath \in 0..StallSaves
    /\ replaced \in BOOLEAN

(***************************************************************************)
(* The round-robin queue names every leader exactly once and idx points    *)
(* into it: leaders.find(queues[idx]) in Select never returns end and the  *)
(* modulo in Advance is never by zero.  It depends on the tracebit loop   *)
(* skipping ids already queued and the predicate loop queueing exactly    *)
(* the ids it inserts, across saves that cover queued predicates.          *)
(***************************************************************************)
QueueMatchesLeaders ==
    phase \notin {"init", "stopped"} =>
        /\ IsInjective(queues)
        /\ Range(queues) = DOMAIN leaders
        /\ idx < Len(queues)

(***************************************************************************)
(* A branch is covered exactly when its leader has comparison value 0:     *)
(* the scheduler treats cv = 0 as covered (it skips the round and counts   *)
(* the branch in the stop check), so an untaken branch must never be      *)
(* stored with distance 0 -- the wrap of |l - r| + 1 at 2^w - 1.          *)
(***************************************************************************)
CoveredIffZero ==
    \A b \in Branches :
        b \in tracebits <=> (b \in DOMAIN leaders /\ leaders[b].cv = 0)

(***************************************************************************)
(* The stop condition "!predicates.size()" means what it is meant to:     *)
(* predicates holds exactly the uncovered leaders.                         *)
(***************************************************************************)
PredicatesAreUncovered ==
    phase # "init" => predicates = Uncovered(leaders)

(***************************************************************************)
(* The scheduler implements BranchSearch: across the erase and re-insert   *)
(* of leaders in saveIfInterest and updatePredicates, tracebits is the     *)
(* union of the taken ids observed, and each predicate's leader keeps the  *)
(* smallest distance any save observed for it.                             *)
(***************************************************************************)
ImplementsBranchSearch == BS!Spec

(***************************************************************************)
(* The prefuzz loop terminates: every path ends in stop(), through the    *)
(* stall timeout after a full queue cycle, slowness, or full coverage.     *)
(***************************************************************************)
Termination == <>(phase = "stopped")

(***************************************************************************)
(* A leader whose item was installed during the round of its own branch    *)
(* (a testcase closer to the branch found while fuzzing it) is a new,     *)
(* never fuzzed FuzzItem, and should get the deterministic stages when it  *)
(* is next selected ("if (!curItem.fuzzedCount)").  The increment through  *)
(* the stale leaderIt at line 906 must not land on it.                     *)
(***************************************************************************)
ReplacedLeaderUnfuzzed ==
    (phase = "select" /\ replaced /\ leaders[cur.key].cv > 0)
        => leaders[cur.key].fuzzed = 0
=============================================================================
