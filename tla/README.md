# TLA+ models of IR-Fuzz (sFuzz)

This directory holds TLA+ models of the fuzzer under `src/sFuzz`, together
with the TLC configurations that check them. Each definition is translated
from the C++ source, and `PROJECT.json` maps every definition to the lines it
models.

## 1. The system

IR-Fuzz is a coverage-guided fuzzer for Ethereum contracts. A campaign runs
twice:

* **Prefuzz** (`-p`) discovers branches.
  - It saves every new branch and every closer approach to an untaken branch.
  - At the end it writes `leaders.json` (one testcase per covered branch) and
    `prefix.json` (the pcs leading to each branch).
* **Fuzz mode** loads the leaders and a weight table. It then fuzzes the
  branch with the most remaining energy and runs the vulnerability oracles.

| Part | Source | State | Operations |
|---|---|---|---|
| Prefuzz scheduler | `Fuzzer.cpp` 30-67, 394-498, 732-925 | `tracebits`, `predicates`, `leaders`, `queues`, `fuzzStat.idx/queueCycle/lastNewPath`, `data0Len` | first save; leader selection; the stages' saves; splice save; fuzzedCount/idx bookkeeping; stop check |
| Executor hook | `TargetExecutive.cpp` 22-550 | `prevInst`, `lastpc`, `lastCompValue`, `jumpDest1/2`, `pclist`, the run's `tracebits/predicates/prefix_map/reached_branch`, `transactionNum` | `onOp` per instruction; constructor call; each function call; splice opt-out |
| Fuzz-mode scheduler | `Fuzzer.cpp` 115-156, 508-578, 926-1137 | `energys`, `branch_hits`, `leaders`, `vulnerabilities` | pick the max-energy branch; saves; energy decrement; stop check |
| Oracles | `OracleFactory.cpp` | `function`, `functions`, `vulnerabilities` (uint16), `distinctions`, `freezing_transfer` | `initialize`, `save`, `finalize`, `analyze` (10 analyzers) |
| Mutation engine | `Mutation.cpp` | the buffer, the effector map, `fds` | flips, interest, address dictionary, havoc, splice (the arith, dictionary and random stages are never called) |
| Branch classifier | `BytecodeBranch.cpp` | the valid JUMPI sets and the sets used by the oracles | `decodeBytecode`, `decompressSourcemap`, the constructor's passes |
| Container, CLI, Logger, hex | `TargetContainer.cpp`, `main.cpp`, `Logger.cpp`, `CommonData.cpp` | | deployment and I/O |

How the parts interact:
* The schedulers call the mutation stages with a `save` callback.
* `save` executes the testcase: `TargetExecutive::exec`, with the hook on
  every instruction.
* `save` then folds the run's result into the global state.
* The hook's branch sets come from the classifier.
* In fuzz mode the hook also feeds the oracles, which `analyze` after each run.

What is hard about this code:
* Everything runs in one thread, so there are no races between threads. The
  hazards are different:
  - state that a step carries from one call or instruction to the next;
  - iterators kept across saves that erase map nodes;
  - unsigned and u256 arithmetic at its boundaries;
  - the order in which the hook applies its updates;
  - whether the loops terminate.
* `PROJECT.json` lists each hazard at its line.

## 2. Modules

| Module | Models | Kind |
|---|---|---|
| `ExecResult` | What one prefuzz run reports. Holds the hook's branch bookkeeping as a fold over the run's events (comparisons and valid JUMPI crossings). | pure operators |
| `BranchSearch` | The abstract promise of the coverage state. It summarises the executions observed: the taken ids, and for each untaken id the least distance reported. | abstract spec |
| `Prefuzz` | The prefuzz loop, built on `ExecResult` for each save. It refines `BranchSearch` (`ImplementsBranchSearch`). | state machine |
| `ExecutorHook` | The hook step by step, over the constructor and the function calls, in prefuzz and in fuzz mode. The VM is the environment. It refines `ExecResult` (`MatchesExecResult`) and builds the oracle's per-call traces. | state machine |
| `FuzzMode` | The fuzz-mode loop of `start`, its `saveIfInterest` overload, and the oracle counters as the loop reads them. | state machine |
| `Oracle` | `OracleFactory` driven by the fuzz-mode executor's calls, with the ten classifiers as folds over a call's trace, next to the spec's per-call rules. | state machine and operators |
| `Hex` | `fromHexChar`, `isHex`, `fromHex` (non-throwing) and `asNibbles` of `libdevcore/CommonData.cpp`, with `fromHex`'s pair loop as a RECURSIVE operator. | pure operators |
| `Bytecode` | `BytecodeBranch`: `decodeBytecode` (RECURSIVE) and `decompressSourcemap` as operators, and the constructor's walk over the deployment and runtime programs as a state machine, next to the spec's selection rules. | state machine and operators |
| `Mutation` | One `Mutation` object run through the stage sequences `Fuzzer.cpp` calls on it: bit and byte flips with the effector map, interest values, the address dictionary, havoc and splice. Each callback is recorded with the ABI descriptor list it sees. | state machine |
| `MCPrefuzz`, `MCExecutorHook`, `MCFuzzMode`, `MCOracle`, `MCBytecode`, `MCMutation` | The model values and small programs TLC checks. | MC modules |

### Prefuzz

The variables are the scheduler's members:
* `tracebits` and `predicates` are sets of branch ids `<<jumpi_pc, successor_pc>>`.
* `leaders` maps an id to `[item, ck, cv, fuzzed]`:
  - `item` is the testcase;
  - `ck` is `item.res.cksum`, abstracted to the set of taken ids;
  - `cv` is `comparisonValue`;
  - `fuzzed` is `item.fuzzedCount`.
* `queues`, `idx` and `queueCycle` are as in the code.
* `phase` is where `start()` is:
  `init -> select -> (det -> havoc | havoc -> splice) -> advance -> select ...`, or `stopped`.
* `cur` is `leaderIt->first` plus the copy `curItem`.
* `replaced` records that the node `leaderIt` points to was erased during the round.

The actions:
* `FirstSave` is lines 747-771.
* `Select` is 774-782.
* `Save(t)` is one call of the `save` lambda (789-841): the whole of
  `saveIfInterest`, including `updateTracebits`/`updatePredicates`, then the
  stop check.
* `Splice(p)` and `SpliceFail` are `Mutation::splice`.
* `Advance` is 906-923.

The abstractions:
* Every mutation stage is abstracted to the saves it makes. A save runs some
  testcase `t` of `Tests`, whose execution is the constant event sequence `Run[t]`.
* `SpliceRun[<<p, t>>]` gives the events recorded when `t`'s calls run after
  partner `p`'s.
* Time is abstracted to saves. The duration is exceeded after `StallSaves`
  saves without a new path.
* "speed <= 10" is a free choice at every save.
* `fuzzedCount` and `queueCycle` saturate at `FuzzCap`/`CycleCap`. The code only
  tests them for 0 and compares them with each other.
* The `fuzzedCount += 1` through a `leaderIt` whose node was erased is
  undefined behaviour. It is modelled by its two outcomes:
  - the allocator gave the freed node to the new leader of the same id, so the
    increment lands on it;
  - it did not, so the increment is lost and `nextldIt == leaderIt` is false.

The refinement mapping sends:
* `covered` to `tracebits`;
* `best` to the `cv` of the leader of each id in `predicates`;
* `done` to `phase = "stopped"`.

Every save is one abstract `Observe` of its execution's result. Every other
step stutters. The refinement therefore checks three things across
`saveIfInterest`'s erase-and-insert of leaders:
* the leaders of untaken ids hold the least distance observed;
* nothing observed is lost;
* nothing is observed after `stop()`.

### ExecutorHook

`Hook(pc, l, r)` is the whole prefuzz path of `onOp`, in the code's order:
1. a comparison sets `lastCompValue`;
2. a valid JUMPI sets `jumpDest1/2`;
3. pc goes on `pclist`;
4. the crossing `lastpc:pc` is recorded with the other side taken from
   `jumpDest1/2` as they are now;
5. `prevInst` and `lastpc` advance.

The rest of the module:
* `EndCall` is the end of the constructor call or of a function call. It
  increments `transactionNum` and clears `pclist` after function calls only.
* The environment runs each call from pc 0. After a valid JUMPI it continues at
  the target or at pc+1, and it may end a call at any instruction.
  `JumpiMayFault` says whether a call may end right at a JUMPI: out of gas, or a
  bad jump destination. The hook runs before the instruction, so that JUMPI is
  still hooked.
* The history variable `log` records the events the hook applied. From it,
  `MatchesExecResult` shows that `ExecResult`'s fold, which `Prefuzz` uses, is
  exactly what the stepwise hook computes.

Fuzz mode (`is_prefuzz` false, chosen in `Init` from `PrefuzzModes`) runs the
other half of `onOp`:
* `SwitchEvents` is the `switch` on the opcode (lines 71-243): TIMESTAMP and
  NUMBER events, CALL/DELEGATECALL events with `IsChecked`, the ADD overflow
  test after an AND mask (`truncates`), and INVALID.
* `FuzzEvents` adds the gasless event, the comparison and the valid-JUMPI
  events (lines 244-312). They go on `function`, the current call's trace.
* `reached_branch` counts the crossings of each id; prefuzz's `tracebits`,
  `predicates` and `prefix_map` stay empty.
* A gasless or INVALID step sets the VM to `Halt`: the call ends with an
  exception.
* `EndCall` is `exec`'s end of a call (lines 445-536): on an exception it
  appends the INVALID event at `lastpc` (at pc 0 for the constructor, where a
  shadowed local holds the payload), hands the trace to the oracle
  (`functions`, with `excepted` as a history), starts the next trace with the
  root CALL event, and adds `lastpc` to `uniqExceptions`.

`OracleTraceWellFormed` says that each trace handed to the oracle starts with
the root CALL and ends with a depth-0 INVALID exactly when its call threw.

### FuzzMode

The variables are the members and locals of the fuzz-mode `start`:
* `energys` is the vector of `[id, w]`, in `weight.json` order, and `enIt` is
  an index into it.
* `leaders` maps an id to `[item, cv, fuzzed]`. In fuzz mode `cv` counts hits.
* `branch_hits` is as in the code.
* `vulns` holds the uint16 counters as `analyze` returns them, modulo
  `2^CounterWidth`.
* `pending` holds the flags of calls finalized but not yet analyzed.
* `vulnerCase` is as in the code.

The actions:
* `StartWithBranches` is `readWeight`/`readLeaders`.
* `StartNoBranch(t)` is the `":"` energy plus one save of a random testcase,
  made outside the lambda.
* Both end in `AfterStart`: `max_element`, then `data0Len`. When the heaviest
  branch has no leader, this dereferences `end()`, which is the `crashed` phase.
* `SkipNoLeader` is the `enIt++; continue` loop.
* `Pick` takes `curItem`.
* `Save(t)` is the whole save lambda: the `saveIfInterest` overload, then
  `analyze` and `vulnerCase`, then the stop check.
* `SpliceFail` is splice in fuzz mode. A fuzz-mode execution never fills
  `tracebits`, so every `cksum` is empty and `splice` returns before saving.
  The spec says fuzz mode runs "havoc + splice"; the code runs havoc only.
* `Advance` increments `fuzzedCount` through `leaderIt`. As in prefuzz, this
  has two outcomes after the node was erased.

The oracles are abstracted to `Found[t][k]`: how many calls of `t`'s
execution analyzer `k` flags. Here only the counting and its attribution to
testcases are modelled; `Oracle` models the analyzers themselves.

### Oracle

The variables are the members of `OracleFactory`: `function`, `functions`,
`vulnerabilities`, `distinctions` and `freezing_transfer`. The executor adds
`phase` and `calls`. Two history variables apply the spec's rules (spec 4.6)
to each finalized call: `specCount` counts the calls each rule flags, and
`specGaslessPcs` holds the pcs the gasless rule names.

The actions follow one fuzz-mode execution and its save callback:
* `Initialize` is `oracleFactory->initialize()` at the start of `exec`.
* `BeginCall(root)` saves the root CALL event (level 0, pc 0) before a
  constructor or function call.
* `Save(ctx)` is a save from the hook, with `ctx` from the `Events` constant.
* A call ends either with `EndCall`, which finalizes it, or with
  `EndCallExcepted(pc)`. The second saves an INVALID event at level 0 first,
  with pc `recordParam.lastpc`, or 0 for the constructor, whose fault event
  keeps pc 0 because of the shadowed `payload` at line 454.
* `EndExec` and `Analyze` are the save lambda's `analyze()`:
  - every buffered trace goes through `Classify`, in order;
  - `freezing_transfer` is carried from one call to the next;
  - the counters wrap at `2^CounterWidth`;
  - `functions` is cleared.

Each classifier is translated case by case:
* the `lastpc1/lastpc2` shift of GASLESS;
* `rootException` read from the last event;
* the u256 pc distances as `PcDistLess`, where a negative difference wraps
  and never counts;
* the uint8 `overflow_num`;
* the nibble-wise `toHex(data).find(toHex(callee))`.

An address is one byte wide in the model, so its hex is two digits.

TIME_DEPENDENCY, NUMBER_DEPENDENCY, DELEGATE_CALL and UNEXPECTED_ETH have no
reference rule here:
* The spec measures the dependency distance in instructions. The trace
  records only some events, so it cannot count instructions.
* The delegatecall rule is the code's condition word for word.

### Hex

`fromHex` is the conversion `Fuzzer.cpp` applies to a contract's `bin` and
`binRuntime` before `BytecodeBranch` decodes them. The parity it tests is that
of the whole text, prefix included, so an odd text reads one single digit
after `0x` and then pairs. Any bad digit makes the whole result empty; this is
the `DontThrow` policy the fuzzer calls it with. A text is a sequence of
one-character strings.

### Bytecode

`Bytecode` EXTENDS `Hex`: a contract's code is given as hex text, `HexCode`
takes the runtime's substring of `bin` as `Fuzzer.cpp` does, and `Code` is
`fromHex` of it. `FromHexMatchesReference` compares `fromHex` over all short
texts (`HexTexts`) with a reference written from the digit alphabet: a valid
text decodes to the nibbles it spells, anything else to nothing.

The constructor of `BytecodeBranch` walks each program twice: first the
classifying loop (lines 37-215), then the conditional-call scan (lines
217-253). The variables are its members (the ten sets and `snippets`) and
its locals (`candidates`, `inOnlyOwnerFunction`, the index `i`), with
`prog` and `phase` for the loop being run. Each loop iteration is one
action, chosen by the instruction's opcode:
* `WalkTimestamp`, `WalkNumber`, `WalkCalldata` and `WalkDelegateCall` run
  only in fuzz mode (`isPrefuzz` false);
* `WalkJumpiCondition` handles a JUMPI whose snippet starts with
  if/while/for/require/assert. It records the candidates strictly inside it
  and outside constant functions, then itself, then clears the candidates;
* `WalkJumpiCandidate` queues any other JUMPI;
* `ScanCall` records a `.transfer(` call, or a call whose snippet lies inside
  any snippet of the map that mentions a condition word;
* `EndProgram` moves to the runtime program with fresh locals. The new
  `inOnlyOwnerFunction` is uninitialized, as at the start, so its value is
  chosen freely.

Data is abstracted:
* a byte is its opcode name;
* the source is a sequence of tokens, and offsets and lengths count tokens;
* `TokenPrefixes` and `TokenWords` say which words a token starts with or
  contains, so that `forward` starts with `for` as text does;
* a source-map row is its list of fields, each a number or the model value
  `Empty`.

`SpecJumpis` and `SpecDelegates`/`FromOnlyOwner` state spec 4.3 over the
whole decoded program: a candidate belongs to the next condition JUMPI,
without the walk's list. The per-program rule for conditional calls is not
checked: the code's shared `snippets` map disagrees with it (see below).

### Mutation

The variables are the object's members and the stage loops' locals:
* `buf` is `curFuzzItem.data`, a sequence of bytes. `dataSize`, `eff` and
  `effCount` are the members.
* `plan` is the sequence of stages still to run. `Init` picks one of the
  three sequences `Fuzzer.cpp` runs:
  - a prefuzz leader never fuzzed: bit flips 1/2/4, byte flips 1/2/4, havoc;
  - a fuzz-mode leader never fuzzed: byte flips, interest 1/2/4, the address
    dictionary, havoc;
  - a leader fuzzed before: havoc, then splice.
* `i`, `j` and `orig` are the running stage's loop counters and saved word.
  `data`, `stacking` and `cycle` are havoc's and splice's locals.
* `fds` and `txLen` are `pca->fds` and `pca->transactionLength`.
* `queue` is the leaders' items given to splice, chosen from `Queues`.
* `sent` records the callback calls of the last step: the buffer, the stage,
  the offset, and the descriptor list and transaction length at the call.
* Two history variables serve the properties. `changed` holds the unmarked
  blocks where a byte flip changed the checksum. `skipped` holds the bytes
  whose window the last step skipped on the effector map.

One action is one iteration of a stage's loop. It does the iteration's
writes, the callback and the restore in the code's order:
* `WalkingBit`, `SingleWalkingByte` and `WalkingByte` are the flip stages.
  `SingleWalkingByte` marks the byte's block when the callback's checksum
  differs, which is a free choice. `EndSingleWalkingByte` applies the
  density rule.
* `InterestSkip`, `SingleInterest`, `WordInterest` and `InterestNext` are the
  interest stages. `WordInterest` writes the plain value and then the swapped
  one, each only when the deterministic skip tests of `Util.cpp` let it
  through.
* `AddressStep` writes an address into bytes 12 to 31 of a word unless the
  slot already holds it. `AddressNext` copies the word back from the copy
  taken before the loop.
* `HavocOp` applies one stacked case of the switch, for all fifteen cases.
  A deletion (cases 11-12) moves the tail down and lowers `dataSize`, and
  the copy keeps its length, as in the code. `HavocCall` sends the copy and
  resets it.
* `SpliceEnter`, `SpliceMiss`, `SpliceHit` and `SpliceGiveUp` are splice's
  entry tests, a partner too close, the spliced call, and the loop's end.

`Util.cpp` is not in the repository. Its helpers are modelled as the AFL
originals compute them and are marked `spec_modelled`. These are the
effector-map arithmetic, `couldBeBitflip`, `couldBeArith`, `couldBeInterest`,
`locateDiffs` and the byte swaps.

Words are little-endian byte sequences, because a u32 does not fit TLC's
integers. Four-byte arithmetic is done in 16-bit halves.

The resize in `splice` frees the block that `outBuf` still points to. That
read is undefined behaviour, modelled by its outcomes:
* the first `c` bytes of the freed block hold what `free()` stored there;
* bytes read past the end of a block hold any value of `FreedBytes`.

A fuzz-mode execution never fills `tracebits`, so the leaders' checksums are
all equal and splice returns at its entry test. The splice calls therefore
happen in prefuzz.

## 3. Runs

| Run | Checks | Result |
|---|---|---|
| `prefuzz_core` | `TypeOK`, `QueueMatchesLeaders`, `CoveredIffZero`, `PredicatesAreUncovered`, `ImplementsBranchSearch` (refinement), `Termination` (liveness) | pass, about 2.1k states |
| `prefuzz_stale_leader_iterator` | `ReplacedLeaderUnfuzzed` | violation: the increment through the stale `leaderIt` lands on a never-fuzzed replacement leader, which then skips the deterministic stages |
| `hook_core` | `TypeOK`, `MatchesExecResult`, `OracleTraceWellFormed` | pass, about 1.7M states, both modes |
| `hook_loop_both_sides` | `DisjointResult` (spec invariant 3.2) | violation: a loop puts an id in both tracebits and predicates |
| `fuzz_core` | `TypeOK`, `EnergyAccountsHits`, `Termination` (liveness), on contracts with and without valid JUMPIs | pass, about 6.7k states |
| `fuzz_start_without_leader` | `NoCrash` | violation: the heaviest branch of `weight.json` has no leader, and line 966 dereferences `end()` |
| `oracle_core` | `TypeOK` (every buffered trace is one call's trace), `ClassifiersMatchSpec` | pass, about 750k states |
| `bytecode_core` | `TypeOK`, `JumpisMatchSpec`, `FromHexMatchesReference`, `DelegateCallsMatchSpec` | pass, 328 states |
| `mutation_core` | `TypeOK`, `BufferRestored` (spec invariant 5), `CallbacksStayInWindow`, `SkipsOnlyInertBytes`, `SpliceRestoresAbi` (spec invariant 6), `PartnerExists` | pass, about 36.5k states |
| `mutation_splice_freed_read` | `SplicedIsPartnerThenSelf` (spec 4.7) | violation: the leader's half of a spliced buffer is read through `outBuf` after `resize` freed it, so the executed testcase carries what `free()` left there |
| `mutation_havoc_delete_keeps_size` | `HavocSendsDataSize` (spec 4.7 "delete block", comment at `Mutation.cpp:681`) | violation: a deletion lowers `dataSize` by `delLen`, but `data` keeps its size, so `cb(data)` gets the input's length with the deleted bytes refilled by a copy of the tail |
| `oracle_freezing_carried` | `FreezingPerFunction` (spec 4.6 "in this function") | violation: a constructor's depth-1 CALL silences the freezing report of the next call's DELEGATECALL, since `freezing_transfer` is never reset |

Thirteen further disagreements were seen while modelling. They are listed as
hazards in `PROJECT.json`, not as runs:
* **Splice leader.** A splice save stores only the self half as the leader of
  what partner||self covered (`Fuzzer.cpp:408`). The property "a persisted
  leader covers its branch when replayed alone" fails on `Prefuzz` after a
  splice save and `writeLeaders`.
* **Shared snippet map.** `snippets` serves both programs, and `insert` keeps
  the first entry for a pc. In contract C1 of `MCBytecode`, the deployment
  require JUMPI at pc 9 hides the runtime `if (x.send(..))` JUMPI at pc 9, so
  the runtime CALL at pc 8 is not recorded as guarded. The executor then
  marks it unchecked. Spec 4.3 takes the guarding condition from the same
  program.
* **JUMPI after JUMPI.** A valid JUMPI at `pc + 1` of another overwrites
  `jumpDest1/2` before the first crossing uses them. The second JUMPI's target
  is then recorded as the first one's untaken side. `ExecResult` computes the
  same id, and `hook_core` reaches it, so `Prefuzz` inherits it.
* **A call ending at a JUMPI.** `prevInst` and `lastpc` survive from one call
  to the next (`TargetExecutive.cpp:373`). A call that ends with an exception
  at a valid JUMPI (out of gas, bad jump destination) makes the next call's
  pc 0 recorded as the branch `lastpc:0`. Spec 6.4 says a branch id is
  `jumpi_pc:successor_pc`. TLC showed it on `ExecutorHook` with
  `JumpiMayFault = TRUE`.
* **Counter wrap.** The oracle counters are cumulative uint16 values that are
  never reset. The fuzzer records a testcase for a vulnerability only when its
  counter increased (`Fuzzer.cpp:1014`), so the save that carries a counter
  past 65535 is not written to the report. `FuzzMode` keeps the counters
  modulo `2^CounterWidth`, but no run checks the recorded cases.
* **Splice opt-out.** The hook skips the first half of a splice run's calls.
  Spec 4.5 says the instructions beyond the first half are not instrumented.
* **Misattributed first case.** In the no-branch start, the random testcase's
  calls are analyzed with the next save. That next testcase is then recorded
  for the vulnerability in its place.
* **Constructor pcs in prefixes.** `pclist` is not cleared after the
  constructor call. The first function's prefixes therefore begin with
  deployment pcs. `ExecutorHook` reproduces this, and it only affects
  `prefix.json`.
* **The `":"` leader is never refreshed.** `leaders.empty()` clears nothing,
  and `insert` keeps the old key.
* **Unlinked libraries.** Spec 234 says library placeholders are linked. The
  code passes a `bin` with a `__Lib__` placeholder to `fromHex`, which returns
  no bytes, so the contract runs as empty code (`Fuzzer.cpp:713`). Contract C3
  of `MCBytecode` has such a placeholder.
* **MUL overflow.** Spec 120 says a MUL overflow is reported, but the
  overflow test (lines 176-179) only looks at ADD after AND; the MUL branch is
  dead.
* **Early stop without persisting.** When the first random testcase covers
  every branch it reaches (a loop that takes both sides of its JUMPI),
  prefuzz stops at `Fuzzer.cpp:770` without `writePrefix` and `writeLeaders`.
  Spec 179 says termination persists the prefix map and a leader per covered
  branch. `Prefuzz`'s `FirstSave` takes this exit; the files are not modelled.
* **`isChecked` across programs.** `isExit` tests a CALL's pc against all ten
  valid-pc sets, those of the other program included, and `isChecked` then
  against the current program's guarded calls only (`TargetExecutive.cpp:117`).
  A runtime CALL whose pc is in a deployment set is therefore marked
  unchecked, and an unguarded CALL at a pc in no set keeps `isChecked = true`
  and is never reported.

Each property of a passing run has a mutant in `PROJECT.json`: a plausible bug
in the mapped code that TLC catches with that property.

### Bounds, and why they suffice

**`MCPrefuzz`:**
* Two valid JUMPIs give four branch ids.
* 2-bit words make the u256 wrap of `|l - r| + 1` reachable (operands 0 and 3).
* There are five testcases:
  - one takes both jumps;
  - two take the fall-through sides at different distances, one of which wraps;
  - one crosses nothing, which exercises the "No branch" exit;
  - one loops over the first JUMPI and takes both its sides, so a first save
    of it covers all it reaches and takes the early exit of line 770.
* One splice pair reaches a branch that neither half reaches alone.
* These reach every action and the situations the properties are about:
  - a predicate leader covered later, whose queue entry must not be duplicated;
  - a leader improved during its own round;
  - full coverage, which ends the run through the predicates check;
  - stall after a full cycle.
* `StallSaves = 2`, `FuzzCap = 2` and `CycleCap = 1` are enough, because the
  code only distinguishes 0 from more for `queueCycle` and `fuzzedCount`.

**`MCExecutorHook`:**
* One valid JUMPI in the deployment code, two in the runtime code, each
  with a comparison before it. The second runtime JUMPI is the first one's
  fall-through, and a comparison is the second one's fall-through, so the
  jumpDest overwrite and the late comparison (see the disagreements) happen.
* The runtime also has CALLDATALOAD, PUSH, AND (so the ADD-overflow path can
  be taken), CALL, DELEGATECALL and TIMESTAMP; the deployment code an INVALID.
  `Valids` gives each kind the pcs `BytecodeBranch` would record.
* Two function calls, so that there are first and second halves for splice.
* 6 instructions per run, which allows a loop and several calls. Both modes
  (`PrefuzzModes = {TRUE, FALSE}`) make the state space grow fast: 8 steps
  took more than ten minutes.
* `JumpiMayFault = TRUE`, so a call may throw at any instruction.
* 1-bit words, which make the distance wrap reachable.
* `PcLimit = 9`, so that runtime pc 11 is above the prefix limit.

**`MCFuzzMode`:**
* Three weighted branches. `c` has no leader at start, so the skip loop runs.
* Three testcases:
  - one hits a branch less often than its leader, which tests replacement;
  - one hits a branch more than its remaining weight, which tests the floor.
* `ReplaceAfter = 2` stands for the code's 16. Only "more than" is tested, so
  the value only changes how many rounds it takes.
* `NoBranchWeight = 8` stands for 128.
* `DurationSaves` is 6.
* `ValidJumpiCases` (whether `branchSize # 0`) is read only at the start.
  `fuzz_core` takes both values. The no-branch start, where only the
  duration stops the loop, is therefore checked in the same run.
* `CounterWidth` is the code's 16, which a bounded run cannot wrap. The
  counter wrap and the misattributed first case are listed among the
  disagreements; no run property compares the recorded cases with the flags.

**`MCBytecode`:**
* One source of 21 tokens with two functions:
  - `f1` is onlyOwner, has parameters, and holds `require(a && b)` and
    `if (x.send(..))`;
  - `f2` has no parameters and holds `forward(lib.delegatecall(..))`, `now`
    and `a.transfer(..)`.
* The constant range covers `a`, so one short-circuit candidate is rejected
  and the other (`b`) promoted.
* The runtime code starts with a PUSH1 whose immediate byte is JUMPI, and ends
  with a PUSH2 cut short past the last source-map row. Its rows use every
  inheritance form: an empty row, empty fields and a missing length.
* Contract C1 has deployment code whose require JUMPI has the pc of a
  runtime JUMPI. C2 has none, enters `f2` instead of `f1`, and narrows
  `require` so that `b` ends where it ends, which is not strictly inside.
* Both modes (`isPrefuzz`) and both initial values of the uninitialized flag.
* The code is hex text: C1 in lower case, C2 in upper case, and C3 with a
  library placeholder in `bin`.
* `HexTexts` holds every text of up to three characters over `0 7 c F x _`,
  with and without a `0x` prefix: odd and even lengths, both cases, a
  misplaced `x` and a bad digit.
  In both contracts a function entry comes before the DELEGATECALL, so the
  uninitialized read is not observed (see hazards).

**`MCMutation`:**
* The input is two 32-byte ABI words, four effector blocks. Word 0 holds the
  first attacker address in its address slot, so the address stage both
  skips and writes.
* Two addresses; one code-dictionary entry, so havoc's cases 13 and 14 exist.
* Three splice queues, all of 64-byte items:
  - the leader alone, which returns at the size test;
  - the leader and a partner with the same checksum, which returns at the
    checksum test;
  - a partner that differs from the leader in one byte, the leader, and a
    partner that differs over 11 bytes. The first is always too close and
    the last is spliced. The leader is not first here, so the entry test and
    the partner draw compare with different items.
* `Fds` ends with the nameless constructor descriptor, which splice moves.
* Havoc runs `HavocMin = 2` iterations of 2 stacked cases. The offsets are 0
  and 40, and the block lengths 1 and 16. A 16-byte delete at offset 40
  moves the tail down and leaves its last 16 bytes duplicated.
* `ClobberLens = {0, 16}` and `FreedBytes = {255}`: the freed block is either
  intact or has its first 16 bytes overwritten.
* The effector density rule needs at least 11 blocks (176 bytes) before it
  can fire without a full map, because `effCount` never counts block 0. That
  is out of reach: the deterministic stages make one state per byte and
  value, and 176 bytes make the run too long.

**`MCOracle`:**
* Two roots. One has calldata `0f10`, whose hex contains the victim's `f1` at
  an odd digit, and one does not.
* Nine hook events, one of each shape a classifier tells apart:
  - gasless, overflowing ADD, underflowing SUB;
  - INVALID at depth 1, an unchecked CALL at depth 1;
  - an unguarded DELEGATECALL, a call ten frames deep by the victim;
  - TIMESTAMP, JUMPCI.
* Fault pcs 0 (the constructor) and 33.
* Two calls of up to two events each, with `analyze` after any execution:
  - two events make a gasless event's "two steps before" differ from "one
    step before";
  - two calls make `freezing_transfer` cross a call boundary, within one
    execution and across two.
* `CounterWidth = 16` and `OverflowNumWidth = 8` are the code's widths. The
  uint8 wrap would need 256 events in one call, which this bound does not
  reach (see hazards).

### Fairness

`Oracle` and `Mutation` assume no fairness and check only invariants.
`Mutation`'s stages are bounded loops, and its splice draw is covered by
`PartnerExists`: whenever the loop runs, a partner exists, so the do-while
ends with probability 1. A liveness check of the whole object was too slow
for TLC with the deterministic stages' state space. Its runs stop when
`MaxCalls` calls have run, as a campaign stops when its time is up.
`Prefuzz` and `FuzzMode` assume `WF_vars(Next)`. The loop is a single thread that always
takes its next step until `stop()` ends the process. Nothing else is assumed:
* the speed stop is never forced;
* saves may keep finding nothing.

`Termination` therefore holds because of the stall timeout and the predicates
check, not because of fairness. Deadlock checking is off because `stop()` exits
the process, so `stopped` and the end of `exec` really are final states.

## 4. What is modelled, and what is not

Modelled:
1. The prefuzz scheduler.
2. The executor hook's branch instrumentation, in both modes. The checked
   runtime program puts a valid JUMPI right after another and a comparison
   right after a JUMPI, so the two orderings that overwrite the hook's state
   between a JUMPI and its crossing are checked.
3. The fuzz-mode scheduler and the oracle counters. The skip loop turned out
   not to spin: start needs a leader for the heaviest branch, and leaders are
   never lost, so `Termination` holds.
4. The abstract coverage specification `BranchSearch`, which `Prefuzz`
   refines through `INSTANCE ... WITH`.
5. The oracle: `OracleFactory` with its ten classifiers, driven by the
   executor's calls. It is compared with the spec's per-call rules.
6. The branch classifier `BytecodeBranch`: the decoder, the source-map
   decompressor and the constructor's walk, compared with spec 4.3's
   selection rules.
7. The mutation engine: every stage `Fuzzer.cpp` calls, with the effector
   map, splice's descriptor bookkeeping and its read of freed memory.
8. Hex decoding of the contract code, composed into `Bytecode`.

Not modelled, and why:
* **Dead code.** `singleArith`, `twoArith`, `fourArith`,
  `overwriteWithDictionary` and `random` of `Mutation.cpp` are never called,
  and neither is the linking overload of `fromHex`: their callers are
  commented out. Putting them in a model would give it behaviours the fuzzer
  cannot have. This is why the Mutation engine and Hex components are only
  partly modelled.
* **File output.** `writePrefix`, `writeLeaders`, `writeStats`, `showStats`
  and `updatePrefixrecorder` format and write the state that the models hold.
  The one finding about them is the early stop that skips them (section 3).
  `weight.json`, the input fuzz mode reads next to `leaders.json`, is made by
  a tool outside this repository. So a composition of prefuzz's output with
  fuzz mode's input could not say what the weights are.
* **Bytecode feeding the hook.** The hook's valid-pc sets are constants that
  match the checked programs. The hook run already has about 1.7M states;
  running the classifier's walk in front of it would multiply that, and the
  classifier is checked on its own against spec 4.3.
* **Mutation feeding Prefuzz.** `Prefuzz` abstracts every stage to "save
  some testcase" over a set of runs. Composing it with the byte-level
  `Mutation` model would need the EVM to map bytes to runs, and the EVM is
  the environment.
* **I/O.** The CLI (`main.cpp`), the logger, hex formatting (`toHex`,
  `escaped`) and the JSON files.
* **`ContractABI`.** It has no implementation under `src`. Testcases are model
  values.
* **The EVM.** It is the environment of the hook.
* **The container.** `TargetContainer` only deploys contracts at fixed
  addresses.
