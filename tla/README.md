# Formal models of SolidityDefend

SolidityDefend is a static analyser for Solidity: a command line tool and a
language server over one set of detectors. These TLA+ modules model the parts of
it whose correctness depends on order, concurrency, failure, caching or an
iteration that has to come to rest. TLC checks them on small instances and TLAPS
proves the main results for every instance. Paths below are relative to
`src/crates/` unless they say otherwise.

## 1. The system

| Part | State it keeps | Operations | Talks to | Modelled in |
|---|---|---|---|---|
| Language server (`lsp/src/server.rs`) | document store (`DashMap` of text, version, findings), settings | did_open, did_change, did_save, did_close; hover and code_action read | editor (notifications in, diagnostics out), registry | `LspServer` |
| Parallel executor (`performance/src/parallel.rs`) | bounded task channel, result channel, workers, counters | submit_task, submit_batch, execute_parallel, shutdown, drop | its worker threads | `ParallelExecutor`, `TaskPool` |
| Run over files (`cli/src/app.rs`: analyze_files, analyze_file) | summary, findings, cache | read, ask the cache, parse, analyse, store, filter; report, exit code | registry, cache, engine, output | `AnalysisRun`, `ExitCode` |
| Run over a project (`cli/src/app.rs`: analyze_project) | file lists, import graph, order, summary, three lists of findings | list, build the graph, order, analyse, cross-contract, report, exit code | project, resolver, analyze_file, output | `ProjectRun`, `ExitCode` |
| Detector registry (`detectors/src/registry.rs`) | detectors, enabled identifiers, configuration | run_analysis | detectors | in `AnalysisRun` |
| Analysis cache (`cache/src/analysis_cache.rs`) | entries by key, memory estimate | get_analysis, store_analysis, eviction | run over files | in `AnalysisRun` |
| Deduplication (`output/src/lib.rs`) | none | deduplicate_findings | both runs | in `AnalysisRun`, `ProjectRun` |
| Import graph (`resolver/src/graph.rs`, `resolver.rs`) | nodes, edges | build, has_cycles, topological_order | run over a project | in `ProjectRun` |
| Analysis engine (`analysis/src/engine.rs`) | the results of a file | analyze_source_file, over each function | the next four; called by analyze_file | `AnalysisEngine`, `FlowSuite` |
| Lowering (`ir/src/lowering.rs`) | blocks, current block, two counters | one per kind of statement | engine | `Lowering` |
| Control flow graph (`cfg/src/builder.rs`, `graph.rs`, `analysis.rs`) | blocks, edges, loops | build, eliminate, validate, loops, measures | engine | `FlowGraph`, `ControlFlow` |
| Dominators (`cfg/src/dominance.rs`) | immediate dominators | passes to a fixpoint | engine | `Dominance` |
| Data flow (`dataflow/src/*.rs`) | states per block, worklist | analyze, transfer, chains | engine | `DataFlow`, `FlowAnalyses` |
| Fix engines (`fixes/src/lib.rs`, `replacements.rs`) | none between calls | resolve conflicts, sort, apply | constructed by the language server, not called | `TextReplacements`, `FixEngine`, `StableSort` |
| Incremental analyzer (`performance/src/incremental.rs`) | sharded map of files, queue, dependents | track, check, queue, batch, complete, fail, clear | its callers' threads | `IncrementalAnalyzer` |
| Dependency tracker (`performance/src/dependency.rs`) | two sharded graphs, cache of imports | analyze, statistics, targets, clear | its callers' threads | `DependencyTracker` |
| Memory manager (`performance/src/memory.rs`) | pools, usage counter, peak | allocate, deallocate, force_gc | its callers' threads | `MemoryManager` |
| Streaming analyzer (`performance/src/streaming.rs`) | position, chunk number, carry-over | analyze_file, reset | a chunk processor | `StreamingAnalyzer` |
| File cache (`cache/src/file_cache.rs`) | sharded map of texts, memory estimate | get_file, invalidate, clear, eviction | file system | `FileCache` |
| Query cache, source database, semantic analysis, parser, detectors, formatters, configuration, URL fetching, editor extensions | none that several steps share, or nobody uses it | | | section 7 |

What is hard about each part, and what makes it correct:

- *Language server.* tower-lsp runs several handlers at once and each gives way
  at every `.await`. did_change edits the stored text, then sleeps, then later
  inserts the copy it took. Correct would be: the store has the editor's texts,
  findings belong to the text next to them, closed files show nothing.
- *Executor.* Callers and workers race for two channels of which one is bounded;
  shutdown and drop come at any time. Correct is: no task lost, run twice or
  handed out twice; calls and shutdown return; the counters agree.
- *Runs.* Sequential, but any file may be unreadable, broken or edited between
  two reads, any detector may fail, an import graph may be cyclic, the same file
  has several paths, and the cache answers in place of an analysis. Correct is:
  the report is complete, the cache invisible, each file analysed once and after
  its imports, and exit code "success" never wrong.
- *Engine.* Two iterations to a fixpoint, in the order a hash map happens to
  list its keys in, over a graph whose ids stand in for an order they do not
  have. Correct is: they end, whatever the order, and what they end with is
  what paths through the function say.
- *Fix engines.* Positions refer to the original text while it changes. Correct
  is: what is kept does not overlap, nothing is dropped without need, and
  replacing one by one is replacing all at once.
- *Performance and cache crates.* Sharded maps whose entries are locked one by
  one or while another is asked for; counters read, compared and added to in
  separate steps; work queued while it is being done; a file system that changes
  between two looks at it. Correct is: no call waits for itself, no request is
  lost, counters say what they stand for, no stale text goes unnoticed.
  These parts are libraries no command uses yet; their models say what a caller
  may rely on.

`PROJECT.json` lists the hazards at their lines, each with the properties about it.

## 2. Modules

| Module | Purpose |
|---|---|
| `LspServer` | document store and handlers; one action per stretch of code between two awaits |
| `TaskPool` | what a pool of workers promises: an abstract specification |
| `ParallelExecutor` | the executor; implements `TaskPool` by the substitution `Pool` |
| `ExitCode` | AnalysisSummary, exit configuration, determine_exit_code; shared by the two runs |
| `AnalysisRun` | run over files, with registry, cache and deduplication |
| `ProjectRun` | run over a project, with the import graph |
| `FlowGraph` | graphs of blocks, paths and dominance by definition |
| `Lowering`, `ControlFlow`, `Dominance`, `DataFlow`, `FlowAnalyses` | the stages of the engine, the second and the last as operators, the solver as a specification of its own |
| `FlowResults` | what the converged analyses say, compared to the paths |
| `FlowSuite` | the analyses a graph goes through one after the other, and the chains read off them |
| `AnalysisEngine` | the stages composed, over the functions of a file |
| `StableSort` | slice::sort_by |
| `TextReplacements`, `FixEngine` | ranges of a text and their replacement; the two fix engines |
| `IncrementalAnalyzer`, `DependencyTracker`, `FileCache` | sharded maps used by several threads, one action per lock or shard |
| `MemoryManager`, `StreamingAnalyzer` | counters and pools; chunks |
| `LspServer_proofs`, `IncrementalAnalyzer_proofs`, `DependencyTracker_proofs`, `FileCache_proofs` | theorems about the module they are named for |
| `Performance_proofs` | theorems about `ParallelExecutor` and `MemoryManager` |
| `Algorithms_proofs` | theorems about `DataFlow`, `FlowResults` and `FlowSuite`, `FixEngine`, `StreamingAnalyzer` |
| `CommandLine_proofs` | theorems about `ProjectRun` and `AnalysisRun` |
| `SumTheorems` | induction, sums over functions and remainders, for all of them |
| `MC_*` | values of the constants for TLC |

### State and actions against the code

**LspServer.** `docs` is `documents`, `shown` the diagnostics last published per
file, `task` what each of the transport's handler slots is running and where it
stands. A text is the sequence of the edits that made it: two texts are equal
exactly when they have the same edits, and losing, doubling or swapping edits is
visible. `DidOpen`, `DidChange`, `DidSave`, `DidClose` are the code up to the first
await; `Debounce`, `Analyze`, `Publish`, `ReportFailure`, `Store` are
did_change/handle_document_change after each await; `SaveAnalyze`, `SaveUpdate`,
`SaveFailure`, `SavePublish` are did_save; `ClosePublish` is did_close. The editor
(external) sends notifications in order. `crowded` and `saveRaced` are history: which
documents ever had two notifications in flight, and with a didSave among them.

**ParallelExecutor.** Task <<c, i>> is the i-th of caller c's batch. `queue` and
`results` are the channels, `wpc`/`wtask` the place in worker_thread_main and the task in
hand. Counting a task and sending it are two actions, as in submit_task;
likewise taking, starting, executing, reporting and finishing. `owner` is the value
itself: shutdown consumes it, so it happens when no call is running. `stats` are the
totals get_stats reads, of which the code adds to one, and `wstats` each worker's own.
get_stats reads all of them one by one; the properties compare them in one state.

**ExitCode.** `HasFindingsAtOrAbove` goes up the severities from the level asked for
and takes Info to mean any finding; `ExitConfig` is how run_with_args turns flags
into a configuration (`--exit-code-level` wins over `--no-exit-code`). The module
declares what both runs have, `options`, `summary` and `exit`, and deduplication.

**AnalysisRun.** One action per way analyze_file ends (`Unreadable`,
`AnswerFromCache`, `ParseError`, `NoContracts`, `Analyze`) with what analyze_files does
with the answer, then `Finish`; `EditFile` is somebody else changing the disk.
The constant `Source` says what parser, engine and detectors make of a text; how
detectors are chosen, ordered, run and filtered is computed (`DetectorsToRun`,
`RunSequential`, `RunAnalysis`; the order is that of a stable sort), as is eviction
(`Kept`, `Stored`). A content hash is taken to identify a text.

**ProjectRun.** `Collect` lists the files, `ScanImports`/`ScanFails` are
DependencyGraph::build, `ChooseOrder` the cycle test and the order, `AnalyzeNext`
one turn of the loop, `CrossContract` and `FinishProject` the rest. A path is a file and
a form: canonical or as listed. A file may fail because it cannot be read or because it
does not parse; its imports are found in the text in the second case. Graph nodes are canonical (add_node), listed paths are
only if the project directory was given so.

**Lowering, ControlFlow, Dominance, DataFlow, FlowAnalyses, FlowSuite, AnalysisEngine.** A
function is a tree of statements, each with its place in the source; an
expression is what it defines and uses. `Lowering` makes blocks of instructions of
it as LoweringContext does, with its counters: both start at 0, so the first block
made takes the entry block's place, instructions and all. `ControlFlow` builds and
prunes the graph and finds loops. `Dominance` has one action per pass of
compute_dominators over the blocks; `DataFlow` one per turn of the worklist, for a
problem of either direction whose transfer treats facts one by one;
`FlowAnalyses` has the four analyses with their transfer over whole states, and
`FlowResults` says the two agree and that what comes out is what the paths say.
The crate reads an instruction in two ways, and so does the model (`AsRead`): framework.rs,
whose analyses the engine runs, knows what an assignment defines and uses; analysis.rs
(353-420), which the crate's full analyses ask, knows additions, stores, conditional
branches and returns, and takes an assignment for an instruction that does neither.
`FlowSuite` hands the solver one analysis of a suite after the other (`Solve`,
`Solving`, `Solved`) and keeps each result with whether the solver converged: it may
also stop at its limit of turns, and the engine asks. The suite "engine" has what the
engine runs, def_use_chains' second pair included; the suite "full" runs the data flow
crate's own analyses, which the engine does not, over the same graphs and over graphs a
caller makes himself (`Given`), in which several blocks define one value: a lowered
function assigns its variables, so the full analyses see few definitions there. `AnalysisEngine`
takes the functions of a file through all of it, one action per stage (`Lower`,
`Build`, `Dominators`, `DominatorsDone`, `DataFlows`, `NextFunction`; a function that
cannot be lowered or built is dropped there, by `Drop`). Each is an action of `FlowSuite` with something added: `Build` takes a new graph
(`TakeGraph`), `DataFlows` is `Analyse`, the others go on beside it (`Beside`).

**TextReplacements, FixEngine.** A text is lines of symbols, of which one is the line
break. `way` is which of the four entry points runs. Looking at one candidate after
the other and keeping it or not is a step each, so is each replacement applied.
`AtOnce` is what the replacements should come to: the source read as one sequence,
each text at the offset where its range begins, and what no range covers.

**IncrementalAnalyzer.** `states` is `file_states`, `shard` where the hash puts
each file, `holder` who holds each shard's lock: `LockEntry`, `Attach` and
`UnlockEntry` are get_mut and the references' ends, and a thread that asks for a held
lock does not move. check_file_changes goes through the map with iter_mut, which
takes a shard's lock while it still holds the one before (dashmap 5.5; `NextShard`).
get_statistics, which only reads, goes through it with iter in the same manner and is
left out; so are paths: a file has one. `pending` is history: files queued and not yet analysed.

**DependencyTracker.** A search for circles is a stack of files whose shards are
read-locked until the call that has them returns; writers need the shard free. The graphs
are over paths, and `FileAt` says to which file a path leads: resolve_import_path joins a
directory with what the import says and leaves an interior `..` as it is, so one file may be known by two paths.
`quiet` and `disturbed` are history: no import changed during the search; a clear
overlapped an analysis.

**MemoryManager.** `stage` is where a thread's call stands. `usage` wraps at `Wrap`; the check of the threshold, its second
look after a collection, the pool and the addition are steps of their own.
`excess` is history: by how much returned blocks were larger than what was asked for.

**StreamingAnalyzer.** `doing` is what the call does with the file. Chunks are the ranges of the file they cover and the place they
are said to have. A read may come back short and the processor may fail.

**FileCache.** A file is its text and whole-second time, or gone; who writes it may
move an older one in its place. The entries are added up, collected and cleared
shard by shard; the map's iterator keeps a shard until it has the next, which the
model does not, and has more behaviours for it. Nobody stands in another's way there: who writes holds
one shard and waits for none. `raced` is history: the file was written between the reading of its
text and of its metadata; `overlapped`: two calls were ever under way at once.

## 3. Runs

| Run | What it checks | Bounds |
|---|---|---|
| `lsp` | EditsInOrder, StaleOnlyWhileRunning, DocumentsInSync, EveryNotificationHandled | 2 documents, 2 slots, 5 notifications, 3 in flight, the third edit does not parse |
| `executor` | AtMostOnce, NoTaskLost, ShutdownRunsEverything, CountersAgree, ImplementsPool, EveryCallReturns | a collector with 2 tasks, a submitter with 1, 2 workers, channel of 1 |
| `analysis` | CacheBounded, CacheHidesNothing, ReportComplete, ExitCodeFaithful | 2 paths, 4 texts, 2 detectors, up to 3 arguments, 2 cache entries, 1 edit, 1 second |
| `project` | EveryFileOnce, DependenciesFirst, ProjectExitFaithful, DependenciesCategorized | 2 sources, a library file, a file that is only imported; 72 import graphs; either of two files does not parse |
| `engine` | LaterStatementsKept, DominatorsImmediate, LoopsAreEnteredAtHeaders, ConvergedIsSolved, DefinitionsExact, LivenessExact, ChainsExact, EveryFileEnds | functions with one or two branches or loops, nested or in sequence, braced or not; a file of two functions; every hash order of up to 3 blocks, two orders of more; 864 graphs given to the full analyses: a diamond and a loop of 4 blocks with additions, reads and assignments of 2 values |
| `fixes` | KeptApart, DroppedForBetter, AppliedAtOnce | texts of 2 and 3 lines, one of them empty, every two of their ranges, ends of lines and of the text, one range out of order; up to 3 fixes |
| `incremental` | NoRequestLost, DependentsExact, EveryCallReturns | 2 threads, 3 calls, 2 files in one shard or in two, imports of nothing, of the other and of itself, 1 write, batches of 2 |
| `dependencies` | ImportersInvalidated, CirclesFound | 2 threads, 2 calls, 3 files of which one has a second path, 2 shards, 5 import graphs, 1 write |
| `memory` | UsageAccounted, PoolsAddUp | 2 threads, 5 calls, sizes 1, 2 and 4, pools of 1 and 3 in either order, threshold 3, a counter that wraps at 32, every switch |
| `streaming` | NothingLostInChunks, EveryAnalysisEnds | 2 files of 0 to 5 bytes, chunk size and overlap 0 to 3, mapped or read, short reads and failures; chunk numbers wrap after 1 |
| `file_cache` | StaleIsNoticed, CacheSettles | 2 threads, 3 calls, 3 files, 3 texts of which 2 have one length, 2 entries, 1 write, 1 second |
| `lsp_changes_applied` | ChangesApplied, violated | 1 document, 2 slots, 4 notifications |

Why the bounds are enough:

- *lsp*: the interesting interleavings need two handlers of one document and a
  notification that waits behind them, a third in flight; five notifications
  cover open, edit, edit, save, close and re-opening. The second document shows that
  one document's races do not disturb another.
- *executor*: the channel is smaller than the demand, so sends block; a task is left
  over for shutdown; both callers compete with both workers.
- *analysis*: naming a file twice is the only way a run meets its own cache; the
  edit may come between; with entries of one to five units, 2 entries and 12 units
  each limit is exceeded first in some behaviour. Options vary analysis flags with
  default exit flags and exit flags with a default analysis.
- *project*: cycles of one and two files, imports of files not listed, a library that
  imports a source, unreadable source and library.
- *engine*: a loop in a loop, a branch in a loop and two in sequence are the shapes
  in which ids and postorder disagree; the first of them replaces the entry block,
  the second shows what comes after. MaxIterations is never reached.
  The given graphs have values with a definition on either way into a block, which is
  where sites, dead definitions and links can go wrong.
- *fixes*: two lines are enough for ranges within a line, over a line break, up to the
  end of a line and past the text; every pair of them occurs in both orders. A third
  line, and an empty one, show what is left of a text when a range of lines becomes
  no line at all.
- *incremental*, *dependencies*: one shard or two decide who waits for whom, and with two
  one can be held while the other is asked for; one write
  makes the difference between a text that was read and the text that is there. A
  batch never has to leave a task behind here (at most two files are queued): the
  theorem covers every batch size.
- *memory*: size 2 fits the pool of 3 only and 4 fits none; two allocations that were
  checked together pass the threshold by more than one.
- *streaming*: overlaps below, of and beyond the chunk size, and files that are
  multiples of neither; the wrap of the chunk number keeps the loop that never
  ends finite and visible as a cycle.
- *file_cache*: three files exceed two entries without exceeding the memory, a long
  text exceeds the memory alone with another entry.

TLC explores each of these instances completely. Stopping is legal (an editor that
sends nothing more, a run that is over, a thread that makes no more calls), so
deadlock is not checked; that nothing gets stuck is said by the liveness
properties, which is where a thread that waits for itself shows.

**Fairness.** `LspServer`: a slot whose handler can go on does (the async runtime
polls what is ready), and some free slot takes a waiting notification; the editor owes
nothing. `ParallelExecutor`, `IncrementalAnalyzer`: each caller and each worker
thread runs when it can, as the operating system schedules threads; nobody owes a
new call, a drop or a shutdown, but a shutdown that began goes on.
`AnalysisEngine`, `StreamingAnalyzer`: one thread that goes on while it can; the
engine's is written out as a disjunction, which says the same without ENABLED. The
other specifications are checked for safety only and state none.

### Disagreements

The code does not keep all that its comments, docs and tests say. `ChangesApplied`
has a run that ends in a counterexample; the others are exceptions written into
a property that holds, and without the exception the same run has a counterexample.

| Run, property | What is said | What happens |
|---|---|---|
| `lsp_changes_applied`, ChangesApplied | server.rs:379 "Get current document content and apply changes" | A handler inserts its old copy over a newer edit, or an edit comes before did_open's insert and is dropped. |
| `lsp`, DocumentsInSync | server.rs:460 "Clear diagnostics" | An analysis still running publishes for the closed file, and stores it again; nothing clears it. |
| `lsp`, StaleOnlyWhileRunning | server.rs:434 "Update document state" | did_save writes the findings of the text it cloned into an entry that has another by then, and they stay. |
| `executor`, CountersAgree | parallel.rs:212 "Total tasks completed", 214 "Total tasks failed" | get_stats reads two counters nobody adds to: both are always 0. The property adds up the workers' own. |
| `engine`, LivenessExact | live_variables.rs:172 "variables that are defined but never used" | analysis.rs knows no use in an assignment: the sum of `x = x + c` is reported dead although the assignment reads it. Likewise a use of `x` is flagged as uninitialised although another block assigns `x`. |
| `incremental`, EveryCallReturns | incremental.rs:201 "Check for file changes and update states" | The iterator holds a shard while it waits for the next, whose holder waits for an import's entry in the first: both threads stand for ever. |
| `dependencies`, ImportersInvalidated | dependency.rs:507 "Get files that should be invalidated when a file changes" | Paths are compared as they are spelled: who imports `src/../lib/x.sol` is not invalidated with `lib/x.sol`. |
| `streaming`, NothingLostInChunks | streaming.rs:37 "Enable overlap between chunks" | After a short read, taken for the last, there is no step back: what lies across its end is in no chunk. |
| `executor`, AtMostOnce | parallel.rs:229 "All task results" | Concurrent calls return each other's results: nobody looks at task_id. |
| `analysis`, CacheHidesNothing | app.rs:1710 "...filter by severity and confidence" | Cached findings all become High confidence before the filter. |
| `analysis`, ExitCodeFaithful | app.rs:335 "Always exit with code 0, regardless of findings" | `--exit-code-level` and `--exit-on-analysis-error` are read after `--no-exit-code` and win: the exit code may be another. |
| `project`, DependenciesCategorized | docs/USAGE.md:201 "output is categorized" | Canonical paths are looked for among the listed ones, so a library's findings appear under source findings. |
| `project`, ProjectExitFaithful | app.rs:328 "Exit with non-zero code when findings at or above this severity are found" | Cross-contract findings are in the report but not in the summary: exit code success. |
| `engine`, LaterStatementsKept | tests/unit/test_cfg.rs:33 "Should have 4 blocks: entry, then, else, merge" | The first block of a function replaces the entry block (lowering.rs:60): what comes before the first branch or loop is lost, and after a leading `if` the else branch is unreachable. |
| `fixes`, DroppedForBetter | replacements.rs:70 "keep the first one encountered" | The one that stands last in the text is kept. |
| `fixes`, AppliedAtOnce | replacements.rs:31 "reverse order to avoid offset issues" | A column past the end of a line means the end it has by then: what add_line_after adds behind a line goes when replace_line replaces it, although their ranges do not overlap. |
| `incremental`, EveryCallReturns | incremental.rs:226 | check_file_changes queues a changed file with that file's shard locked, and waits for itself; tracking a file that imports one of its own shard does, too (362). |
| `dependencies`, CirclesFound | dependency.rs:454 "Detect circular dependencies using DFS" | A found circle leaves its path in rec_stack; the next file that imports one of it makes the search panic. |
| `dependencies`, ImportersInvalidated | dependency.rs:445 "Update reverse dependencies" | They are only added to: a file that no longer imports another is invalidated with it for ever. |
| `memory`, UsageAccounted | memory.rs:94 "Current memory usage" | A pool's block is counted with the size asked for and taken off with its own: the counter wraps below zero, and every further allocation is refused. |
| `streaming`, EveryAnalysisEnds | streaming.rs:304 "Use memory mapping for large files" | With an overlap, as by default, the mapped loop steps back from the end of the file, too, and never returns. |
| `streaming`, NothingLostInChunks | streaming.rs:148 "Start position in file" | The position is not set back between files: a second file's chunks are placed behind the first. |
| `file_cache`, StaleIsNoticed | file_cache.rs:39 "Check if file has been modified since cache entry" | The text is read before the metadata: a change in between is never noticed, nor is one of the same length in the same second. |
| `file_cache`, CacheSettles | file_cache.rs:63 "Current memory usage estimate" | Two overlapping counts may be stored in the wrong order, and stay. |

The properties say exactly how far the damage goes: edits are lost but never
reordered or doubled (`EditsInOrder`); stale findings exist only while a handler
runs (`StaleOnlyWhileRunning`); documents handled one notification at a time are
right (`DocumentsInSync`); each result reaches some caller once (`AtMostOnce`,
`ImplementsPool`); the cache loses confidences, but hides no finding unless only
confirmed ones are asked for (`CacheHidesNothing`); what short reads lose lies across
the end of what they returned and nowhere else (`NothingLostInChunks`); success is right about every
file's own findings (`ProjectExitFaithful`); statements after a loop are kept
(`LaterStatementsKept`); the engine's live variables, whose transfer goes through
a block forwards although the analysis goes backwards, miss none where no block
redefines what it read (`LivenessExact`); the full analyses are right about the
definitions and uses analysis.rs knows (`DefinitionsExact`, `LivenessExact`,
`ChainsExact`); no call blocks while imports lead to lower shards, from later ones to
earlier ones only when nobody checks for changes, and check_file_changes meets no
changed file (`EveryCallReturns`); a reported circle is a circle (`CirclesFound`); who
imports a file by the path that changed is invalidated (`ImportersInvalidated`).

## 4. Theorems

All are proved for arbitrary constants that satisfy the modules' ASSUMEs: any files,
texts, imports and graphs, any number of threads, callers, workers, shards and
documents, any capacity or limit, 0 workers included. What the ASSUMEs ask for:

- that callers, workers, threads or files are finitely many, where counters, sums or
  lengths of paths range over them;
- that constants have the types their comments say (imports are sets of files, a
  priority is a u8, an option is one of the levels there are, the registered
  detectors are a sequence), and that `None` is nothing else;
- `TextsAssumption`, `AdviceAssumption` (FixEngine): lines have no break in them, since
  str::lines makes them, and positions count from 1; a range ends at most one line
  before the one it begins in, since Vec::splice panics further back;
- `CounterAssumption` (MemoryManager): the threshold and one request of each thread
  add up to less than the counter can count. The counter is a usize, the threshold an
  amount of memory;
- `AnalysesAssumption` (FlowResults): the problems the solver is run with are the four
  analyses of `FlowAnalyses`, over a finite graph of blocks of any instructions.

TLC evaluates each of them with the values of its run.

**SumTheorems.** The library's induction theorems take an operator, which the provers
cannot instantiate. Here an induction is over a set: `LeastNatural` says that a
nonempty set of naturals has a least element, `NaturalsIn` that a set with 0 and with
every successor has all of them, `LeastFiniteSet` the same for finite sets. The
lemmas about `SumFunction` say what changing, adding or taking away one summand does,
those about remainders what a wrapped counter holds, those about `FlattenSeq` that it
is the last of the concatenations of its first sequences.

**Performance_proofs: the executor**

1. `TypeCorrect`. TypeOK alone is not inductive: a worker writes the status of the task it
   holds. `TypeInv` adds that it holds one exactly where the code has one in hand
   (`HoldsTask`) and that callers stay within their batch (`SendsOwnBatch`).
2. `NoDuplicates` and `NoLoss` (AtMostOnce, NoTaskLost), from one invariant, `PlacedInv`:
   queue, workers, result channel and callers partition the tasks submitted. Both are
   needed together, since a move is only free of duplicates if what is moved was in one place.
   One lemma for each action that moves a task; the others keep the four places (`PlacedFrame`).
3. `ShutdownDrains` (ShutdownRunsEverything), from `DrainInv`: a task without status is
   queued or in a worker that has not run it, and a stopped worker means an
   empty queue and no running call.
4. `StatisticsExact` (CountersAgree), from `CountInv`: each counter is the number of
   tasks or workers at the places it stands for, a caller between counting and sending
   included, and the workers' own counters add up to the numbers of tasks with a status. It
   is about tasks_submitted, active_tasks and the workers' counters; the totals of
   completed and failed tasks are not counted at all.
5. `Implementation` (ImplementsPool): initial states map to initial states, each action to a
   step of TaskPool or a stutter, under the invariants above.

**Performance_proofs: the memory manager**

6. `UsageStaysAccounted` (UsageAccounted) is inductive with the types: it sums, over the
   threads, what each has counted, is about to give back or was let through with. A
   step moves one thread's summands (`SumsMove`); the steps that move none share one
   lemma. The bound over the threshold is why `CounterAssumption` is needed: without
   it the counter could wrap while nothing went wrong.
7. `PoolsStayAdded` (PoolsAddUp): for each size, blocks in the pools, with threads and on
   their way in between add up.

**LspServer_proofs**

8. `TypeCorrect`: with `FoundIsText`, the error of a failed analysis is gone before
   anything is stored or published.
9. `EditsStayInOrder` (EditsInOrder), from `OrderInv`: texts in the store *and in
   the handlers* are ascending, and every notification still in the inbox is later
   than every edit of every text. The handlers' copies must be part of it because any
   may be stored at any time.
10. `StaleFindingsBeingReplaced` (StaleOnlyWhileRunning), from `FindingsInv`: for a
    document no save has raced with, the stored findings are those of the stored text,
    or the handler of an edit has yet to insert its own; what a handler found is of
    the text it will be stored with, and a save has the document to itself.
11. `StoreFollowsEditor` (DocumentsInSync), from `SyncInv`: a document handled one
    notification at a time is in sync, or one notification away from it, which is in
    the inbox or in hand. Both need `Alone`: what nobody else handles stays as it is.

**Algorithms_proofs: data flow**

12. `FlowTypeCorrect`, and `FlowInvariant` behind the next two: a block that is not
    in the worklist satisfies its equations (`WorklistCovers`), and no state exceeds that
    of any solution.
13. `Convergence` (ConvergedIsSolved): whatever the graph, the direction, the transfer and
    the order of the worklist, a solver that says it converged has solved its
    equations. The step that matters: a block whose outcome changes queues exactly
    those that read it, so nobody outside the worklist reads an old state.
14. `Precision`: it is the least solution. With 13, two runs of one analysis agree whatever
    order they took, which def_use_chains relies on.
15. `DefinitionsFound` and `LivenessFound` (DefinitionsExact, LivenessExact), in three
    parts. Going through a block instruction by instruction gives what the solver's
    transfer gives fact by fact (`FlowTransferIs`, an induction over the block). What
    the ways through the graph give solves the equations, so the least solution is below
    it; and whatever solves them has each fact wherever some way carries it, so it is
    below the least solution (`ForwardExact`, `BackwardExact`). All of it is over the graph as
    the analysis reads it (`AsRead`), so what is proved of the full analyses is about the
    definitions and uses analysis.rs knows, assignments not among them. Reachability, defined by
    growing a set as often as there are blocks, is the least set closed under edges
    (`ReachableIs`). The engine's own live variables are only shown to miss nothing, under
    the condition in the property.

16. `ChainsFound` (ChainsExact), from `SuiteInvariant`: each result that is kept and
    converged is the least solution of its analysis over the graph at work, and what is
    started later does not change it. Two least solutions are one (`LeastIsUnique`), so
    the second run of an analysis has the states of the first in whatever order it went.
    What the problem calls definitions, uses and paths is what the graph has
    (`SameNotions`), so the least solution says what reaches each block (`AnswerIsExact`)
    and the chains are read off it. Of an analysis that did not converge nothing is said.
    The crate's links and uninitialised uses are those of the graph as analysis.rs reads it.
    `SuiteSolves`: as the solver sees it, the suite's behaviours are `FlowSpec`'s, which is
    why 12 to 15 hold of it. `AnalysisEngine` is not proved about: that its steps are
    `FlowSuite`'s is read off its actions, and that its problems are in `Problems` off
    the run, which takes for them what the graphs of its functions give.

**Algorithms_proofs: fixes**

17. `KeptFixesApart`, `DroppedOnlyForBetter` (KeptApart, DroppedForBetter), from
    `ResolutionInvariant`: candidates stand in order and those looked at were kept,
    or conflict with one kept. The order comes from lemmas about stable sorting.
18. `ReplacedAtOnce` (AppliedAtOnce), from `InPlaceInvariant`: after each replacement the text,
    read as one sequence, is what putting in all texts so far at once makes of the source
    (`Applying`), and up to where the replacement applied last begins it is the source, line
    by line (`AsSourceBefore`). Separate ranges in the order of the plan then lie where
    they lay (`Agreement`), what was skipped in the source is still skipped (`SkippedStays`), and
    one replacement changes the sequence between two offsets only (`ReplacedIs`), before
    all that the earlier ones changed (`AtOnceMore`). ReplacementEngine splits a line it
    put together again; that this gives the same sequence, but for a break at its end, is
    `SplitIs`, an induction over the line. `Promising` names what the property asks for;
    the attempt at the proof, and then TLC with a third line, showed that ranges that do not
    overlap are not enough (`EndMoves`).

**Algorithms_proofs: chunks**

19. `StreamingInvariant` and `NothingLost` (NothingLostInChunks): the property does not
    say where the next chunk begins. The invariant adds that it begins at the start, at
    least an overlap before the end of what was handed over, where a short read ended, or
    at the end of the file: what lies across that place and is not in a chunk is too long,
    or was cut by the read.

**CommandLine_proofs: the run over a project**

20. `FilesAnalysedOnce`, `DependenciesComeFirst` (EveryFileOnce, DependenciesFirst). The
    invariant `GraphBuilt` says that nodes and edges are those of the files scanned so far.
    Listed files that do not import each other in a circle make a graph without one,
    since what is not listed has no edges (`StraightSorted`); that such a graph can be
    ordered at all, and what an order of it has, are lemmas about finite graphs.
21. `SuccessIsFaithful`, `DependenciesTold` (ProjectExitFaithful, DependenciesCategorized),
    from `Counted` and `Told`: the summary has counted a failure if a file so far failed,
    and the severity of each of its findings if it did not; and a finding is in the
    section its path was put in.

**CommandLine_proofs: the run over files**

22. `NothingHidden` (CacheHidesNothing), from `CacheSound`: an entry holds what the
    detectors find in the text its key names, but for the confidence. `AnalyzedHas` says
    that is everything expected: sorting loses no detector, the concatenation of their
    findings no finding, the last filter nothing that is wanted.
23. `ReportHasAll`, `ExitCodeSound` (ReportComplete, ExitCodeFaithful), from `RunSound`:
    what was found is what was answered, the summary its count, the report it without
    duplicates.
24. `CacheStaysBounded` (CacheBounded): eviction by number and by memory leaves a cache
    within both limits, whichever of equally old entries go.

**IncrementalAnalyzer_proofs**

25. `HandedInvariant` and `RequestsKept` (NoRequestLost): a task leaves the queue only
    for a batch that has it. The batch is a copy taken before its tasks are removed one by
    one, by path: a removal may take a newer request of the same file with it, which
    the batch stands for as long as the analysis has not begun. The invariant says
    that those yet to be removed are in hand.
26. `DependentsReverse` (DependentsExact), from `EntryInv` (who holds a shard's lock) and
    `EdgesInv`: an import is drawn, or the thread that tracks the file is about to draw it
    and holds the entry. A file tracked once has no edges to take back, so it is among no
    other dependents.

**DependencyTracker_proofs**

27. `SearchInvariant`: what a search is on is a path of the graph *now*, because every
    file on it is read-locked; without the locks the invariant fails.
28. `CirclesAreFound` (CirclesFound), with `Searches`: while the imports stand still and no
    circle was found, what a finished file imports is finished, what was looked at from
    the path is finished or next on it, and the roots of earlier shards were visited. A
    file is left when all its imports are finished; it is not one of them, so there is
    no way back to it (`NoWayBack`). At the end every file is finished, hence on no circle.
    Conversely a circle that was found has at most as many files as there are, since
    no file is on a path twice, and is what the definition of a circle asks for.
29. `ImportsNoted` (ImportersInvalidated): an import recorded by nobody who is still updating
    is in the reverse graph (`Noted`), which a clear that overlaps nothing empties second
    (`Emptied`). Who imports a file over others is reached by get_all_dependents: an
    induction along the way, then over its rounds (`TreeComplete`). It speaks of paths: who
    imports a file by another path than the one that changed is not reached.

**FileCache_proofs**

30. `CachingInvariant` and `StaleNoticed` (StaleIsNoticed). The property does not
    say where the time and the length an entry is compared by come from. The invariant
    follows them from the disk through the thread that reads them into the cache:
    unless the file was written in between, they are those of one text the file has had.
    The steps that neither read nor insert share one lemma.
31. `Settles` (CacheSettles), from `Settling`: too many entries mean a thread that will evict
    enough of them with all entries in its list; and as long as no two calls have overlapped,
    what the one thread at work has counted, removed or put in says how the stored
    usage and the entries' compare.

Only model-checked:

- Liveness (EveryNotificationHandled, EveryFileEnds, EveryAnalysisEnds and EveryCallReturns,
  twice): no backend reasons about fairness and ENABLED.
- LaterStatementsKept, DominatorsImmediate, LoopsAreEnteredAtHeaders: they
  speak of lowering, dominance and paths, which are defined by RECURSIVE operators over
  trees and graphs; a module that reaches one cannot be proved about.

## 5. Conventions

A definition named for another with a suffix and the comment "Mutant" is a
plausible bug. It is not used by the specification; substituted for the
definition it is named after, it makes one property fail, which shows that the property
depends on that code. Bounds are constants named `Max...`. Variables that only
remember (`crowded`, `pending`, `quiet`, `raced`, ...) are commented "history" and
guard nothing. Modules that are proved about use no RECURSIVE operator.

## 6. What could come next

1. `Dominance` without RECURSIVE operators, and DominatorsImmediate as a theorem about
   its fixpoint.
2. The refinement of `IncrementalAnalyzer` with two batches in flight by a queue that
   hands out each request once.
3. Taint analysis, which the engine does not run yet.

## 7. Not modelled

- Parser and syntax tree: a translation of data from solang-parser's tree into an arena. Whether a
  text parses is an input.
- The detectors: about 130 000 of the 164 000 lines of the crates. They are independent
  heuristics over one contract's text or tree, without state, order or
  interaction; what they find is an input. A model of one would repeat its patterns.
  For that reason the modules map about 5 000 lines, 3% of all. Of the files named
  in section 1 they map between a tenth and a half: the rest is tests, data types,
  statistics, reports and what this section names.
- Semantic analysis and the source database: maps filled by one pass and used by one
  thread.
- Query cache: the file cache's eviction again; nothing stores in it or reads from it.
- Dominance frontiers, post-dominators, statistics and exports of graphs; taint, register
  pressure and interference of the data flow crate: nothing reads them, or only their
  sizes.
- Which replacements the fix generators suggest: mostly none. Any may be in `FixEngine`.
- Pressure history, callbacks and background monitoring of the memory manager; metrics of
  all the performance crate.
- Formatters, configuration files, URL fetching, project discovery: input and output.
- The arithmetic of one text edit in the language server (positions to offsets): edits are
  opaque.
- A detector's time limit: the code compares it after the fact and only logs.
- Cross-contract analysis: `ProjectRun` lets it find nothing or one finding of any severity
  when there are two contracts to look at.
