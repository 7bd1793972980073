------------------------------ MODULE AnalysisRun ------------------------------
(***************************************************************************)
(* A run of the command line tool over a list of files: CliApp's           *)
(* analyze_files and analyze_file (crates/cli/src/app.rs), the detector    *)
(* registry (crates/detectors/src/registry.rs), the analysis cache         *)
(* (crates/cache/src/analysis_cache.rs) and the deduplication of the       *)
(* report (crates/output/src/lib.rs).                                      *)
(*                                                                         *)
(* The files are analysed one after the other; meanwhile someone may edit  *)
(* them.  A text is named by a model value; what parsing, the analysis     *)
(* engine and the detectors make of it is the constant Source.  A finding  *)
(* keeps its detector, place, severity (0 Info .. 4 Critical) and          *)
(* confidence (0 Low .. 3 Confirmed).                                      *)
(***************************************************************************)
EXTENDS ExitCode, Sequences, FiniteSets, SequencesExt, StableSort

CONSTANTS
  Paths,            \* files that may be named on the command line
  TestPaths,        \* those is_test_file takes for tests
  Texts,            \* file contents
  Source,           \* what a text holds, see SourceOf
  Registered,       \* the enabled detectors, in the order they were registered
  Priority,         \* priority of each detector
  Selected,         \* detectors should_run_detector lets run: category, lint
  NeedsCfg,         \* detectors that require the engine's results
  CommandLines,     \* file arguments to choose from
  MaxEntries,       \* CacheConfig.max_entries
  MaxMemory,        \* CacheConfig.max_memory_usage, in units of EntrySize
  MaxClock,         \* bound: seconds a run takes
  MaxEdits          \* bound: edits of the files during a run

Confidences == 0 .. 3
Detectors == ToSet(Registered)

RawFinding == [line : Nat, severity : Severities, confidence : Confidences]
Contract == [functions : SUBSET STRING,
             reports : [Detectors -> [ok : BOOLEAN, findings : Seq(RawFinding)]]]
(* analysed is the set of functions AnalysisEngine has results for: those  *)
(* of every contract, or none when one function of the file fails.         *)
SourceOf == [parses : BOOLEAN, contracts : Seq(Contract), analysed : SUBSET STRING]

ASSUME RunAssumption ==
  /\ Registered \in Seq(ToSet(Registered))
  /\ Source \in [Texts -> SourceOf]
  /\ Priority \in [Detectors -> 0 .. 255]
  /\ TestPaths \subseteq Paths
  /\ CommandLines \subseteq Seq(Paths)
  /\ \A o \in OptionSets : /\ {o.minSeverity, o.registrySeverity} \subseteq Severities
                          /\ {o.minConfidence, o.registryConfidence} \subseteq Confidences
                          /\ {o.useCache, o.includeTests, o.failFast} \subseteq BOOLEAN
                          /\ o.exitConfig \in ExitConfigs
  /\ MaxEntries \in Nat /\ MaxMemory \in Nat
  /\ None \notin Texts

VARIABLES
  disk,      \* the text of each file, None if it cannot be read
  todo,      \* files still to analyse
  cache,     \* AnalysisCache.cache: entries by key
  memory,    \* AnalysisCache.memory_usage
  clock,     \* SystemTime::now, in seconds
  found,     \* all_findings
  report,    \* the deduplicated findings written out
  edits,     \* edits of the files so far
  answers    \* history: what analyze_file returned, call by call

vars == <<disk, options, todo, cache, memory, clock, summary, found, report,
          exit, edits, answers>>

-----------------------------------------------------------------------------
(* DetectorRegistry::run_analysis on one contract.                         *)

(* can_run_with_context: the context has CFGs when the engine has results  *)
(* for a function with the name of one of the contract's.                  *)
CanRun(d, c, src) == d \in NeedsCfg => c.functions \cap src.analysed # {}

(* A stable sort, highest priority first.                                  *)
Ahead(ds) ==
  {e \in (DOMAIN ds) \X (DOMAIN ds) : Priority[ds[e[1]]] > Priority[ds[e[2]]]}
ByPriority(ds) == CHOOSE s \in Sorted(ds, Ahead(ds)) : TRUE

DetectorsToRun(c, src) ==
  ByPriority(Selection(Registered, {i \in DOMAIN Registered :
                                      Registered[i] \in Selected /\ CanRun(Registered[i], c, src)}))

(* Mutant: an error always ends the run.                                   *)
RunSequentialGivesUp(c, ds, failFast) ==
  IF \E i \in DOMAIN ds : ~c.reports[ds[i]].ok THEN << >>
  ELSE [i \in DOMAIN ds |-> c.reports[ds[i]].findings]

(* run_sequential: with fail_fast the first error ends the run, and        *)
(* run_analysis keeps nothing; else a failed detector just has no findings. *)
RunSequential(c, ds, failFast) ==
  IF failFast /\ \E i \in DOMAIN ds : ~c.reports[ds[i]].ok
  THEN << >>
  ELSE [i \in DOMAIN ds |->
          IF c.reports[ds[i]].ok THEN c.reports[ds[i]].findings ELSE << >>]

AtLeast(f, severity, confidence) == f.severity >= severity /\ f.confidence >= confidence

RunAnalysis(path, c, src) ==
  LET ds == DetectorsToRun(c, src)
      all == RunSequential(c, ds, options.failFast)
      named(i) == [j \in DOMAIN all[i] |->
                     [detector |-> ds[i], path |-> path, line |-> all[i][j].line,
                      severity |-> all[i][j].severity,
                      confidence |-> all[i][j].confidence]]
      flat == FlattenSeq([i \in DOMAIN all |-> named(i)])
  IN Selection(flat, {i \in DOMAIN flat :
                        AtLeast(flat[i], options.registrySeverity, options.registryConfidence)})

-----------------------------------------------------------------------------
(* AnalysisCache.                                                          *)

(* Mutant: the key leaves the content hash out.                            *)
CacheKeyOfPath(path, text) ==
  [path |-> path, text |-> None, config |-> <<options.minSeverity, options.minConfidence>>]

CacheKey(path, text) ==
  [path |-> path, text |-> text, config |-> <<options.minSeverity, options.minConfidence>>]

(* CachedFinding has no confidence; cached_finding_to_finding makes it High. *)
ToCached(f) == [detector |-> f.detector, line |-> f.line, severity |-> f.severity]
HighConfidence == 2
FromCached(path, f) ==
  [detector |-> f.detector, path |-> path, line |-> f.line,
   severity |-> f.severity, confidence |-> HighConfidence]

(* estimate_analysis_entry_size: an overhead and a part for each finding.  *)
EntrySize(entry) == 1 + Len(entry.data)
MemoryOf(c) == SumFunction([k \in DOMAIN c |-> EntrySize(c[k])])

(* evict_lru_entries.  The loop compares memory_usage(), which nothing     *)
(* updates before the loop is over: over the memory target it removes      *)
(* every entry.  Entries accessed in the same second go in any order.      *)
Kept(c, mem) ==
  LET number == (MaxEntries * 80) \div 100
      oldestFirst(S) == \A k \in S : \A r \in DOMAIN c \ S : c[r].accessed <= c[k].accessed
  IN IF mem > (MaxMemory * 80) \div 100 THEN {{}}
     ELSE {S \in SUBSET DOMAIN c : Cardinality(S) = number /\ oldestFirst(S)}

Over(c, mem) == mem > MaxMemory \/ Cardinality(DOMAIN c) > MaxEntries

(* Mutant: room is made before the entry is inserted.                      *)
StoredAfterEviction(key, entry) ==
  LET add(c) == [k \in DOMAIN c \cup {key} |-> IF k = key THEN entry ELSE c[k]]
  IN IF Over(cache, memory)
     THEN {add([k \in S |-> cache[k]]) : S \in Kept(cache, memory)}
     ELSE {add(cache)}

(* store_analysis: insert, update_memory_usage, evict_if_needed.           *)
Stored(key, entry) ==
  LET c == [k \in DOMAIN cache \cup {key} |-> IF k = key THEN entry ELSE cache[k]]
  IN IF Over(c, MemoryOf(c))
     THEN {[k \in S |-> c[k]] : S \in Kept(c, MemoryOf(c))}
     ELSE {c}

-----------------------------------------------------------------------------
(* analyze_file.                                                           *)

Filter(fs) ==
  Selection(fs, {i \in DOMAIN fs : AtLeast(fs[i], options.minSeverity, options.minConfidence)})

Analyzed(path, text) ==
  LET src == Source[text]
  IN FlattenSeq([i \in DOMAIN src.contracts |-> RunAnalysis(path, src.contracts[i], src)])

(* What analyze_files does with an answer: count it and go on.             *)
Count(findings) ==
  [s \in Severities |-> Cardinality({i \in DOMAIN findings : findings[i].severity = s})]

Succeed(path, text, findings, fromCache) ==
  /\ summary' = [summary EXCEPT
                   !.successful = @ + 1,
                   !.total = @ + Len(findings),
                   !.bySeverity = [s \in Severities |-> @[s] + Count(findings)[s]]]
  /\ found' = found \o findings
  /\ answers' = Append(answers, [path |-> path, text |-> text, findings |-> findings,
                                 fromCache |-> fromCache])
  /\ todo' = Tail(todo)

Fail ==
  /\ summary' = [summary EXCEPT !.failed = @ + 1]
  /\ todo' = Tail(todo)
  /\ UNCHANGED <<found, answers>>

Working == exit = "running" /\ todo # << >>
AtHand == Head(todo)
Hit(path, text) == options.useCache /\ CacheKey(path, text) \in DOMAIN cache

Tick == clock' \in {clock, clock + 1} /\ clock' <= MaxClock

Unreadable ==
  /\ Working
  /\ disk[AtHand] = None
  /\ Fail
  /\ UNCHANGED <<disk, options, cache, memory, clock, report, exit, edits>>

(* get_analysis and the conversion of what it returns.                     *)
AnswerFromCache ==
  /\ Working
  /\ disk[AtHand] # None
  /\ Hit(AtHand, disk[AtHand])
  /\ Tick
  /\ LET text == disk[AtHand]
         key == CacheKey(AtHand, text)
         data == cache[key].data
     IN /\ Succeed(AtHand, text,
                   Filter([i \in DOMAIN data |-> FromCached(AtHand, data[i])]), TRUE)
        /\ cache' = [cache EXCEPT ![key].accessed = clock']
  /\ UNCHANGED <<disk, options, memory, report, exit, edits>>

ParseError ==
  /\ Working
  /\ disk[AtHand] # None
  /\ ~Hit(AtHand, disk[AtHand])
  /\ ~Source[disk[AtHand]].parses
  /\ Fail
  /\ UNCHANGED <<disk, options, cache, memory, clock, report, exit, edits>>

NoContracts ==
  /\ Working
  /\ disk[AtHand] # None
  /\ ~Hit(AtHand, disk[AtHand])
  /\ Source[disk[AtHand]].parses
  /\ Source[disk[AtHand]].contracts = << >>
  /\ Succeed(AtHand, disk[AtHand], << >>, FALSE)
  /\ UNCHANGED <<disk, options, cache, memory, clock, report, exit, edits>>

Analyze ==
  /\ Working
  /\ disk[AtHand] # None
  /\ ~Hit(AtHand, disk[AtHand])
  /\ Source[disk[AtHand]].parses
  /\ Source[disk[AtHand]].contracts # << >>
  /\ Tick
  /\ LET text == disk[AtHand]
         all == Analyzed(AtHand, text)
         entry == [data |-> [i \in DOMAIN all |-> ToCached(all[i])], accessed |-> clock']
     IN /\ Succeed(AtHand, text, Filter(all), FALSE)
        /\ IF options.useCache
           THEN /\ cache' \in Stored(CacheKey(AtHand, text), entry)
                /\ memory' = MemoryOf(cache')
           ELSE UNCHANGED <<cache, memory>>
  /\ UNCHANGED <<disk, options, report, exit, edits>>

-----------------------------------------------------------------------------
(* The end of analyze_files.                                               *)

FindingKey(f) == <<f.detector, f.path, f.line>>

KeysOf(fs) == [i \in DOMAIN fs |-> FindingKey(fs[i])]

Finish ==
  /\ exit = "running"
  /\ todo = << >>
  /\ report' = Deduplicated(found, KeysOf(found))
  /\ exit' = DetermineExitCode(summary, options.exitConfig)
  /\ UNCHANGED <<disk, options, todo, cache, memory, clock, summary, found, edits, answers>>

(* Someone edits, breaks or removes a file while the run goes on.          *)
EditFile ==
  /\ exit = "running"
  /\ edits < MaxEdits
  /\ edits' = edits + 1
  /\ \E p \in Paths : \E t \in (Texts \cup {None}) \ {disk[p]} : disk' = [disk EXCEPT ![p] = t]
  /\ UNCHANGED <<options, todo, cache, memory, clock, summary, found, report, exit, answers>>

(* run_with_args leaves test files out unless --include-tests is given.    *)
FilesToAnalyze(args, o) ==
  IF o.includeTests THEN args ELSE Selection(args, {i \in DOMAIN args : args[i] \notin TestPaths})

Init ==
  /\ disk \in [Paths -> Texts \cup {None}]
  /\ options \in OptionSets
  /\ \E args \in CommandLines : todo = FilesToAnalyze(args, options)
  /\ cache = [k \in {} |-> None]
  /\ memory = 0
  /\ clock = 0
  /\ summary = EmptySummary
  /\ found = << >>
  /\ report = << >>
  /\ exit = "running"
  /\ edits = 0
  /\ answers = << >>

AnalyzeFile == Unreadable \/ AnswerFromCache \/ ParseError \/ NoContracts \/ Analyze

Next == AnalyzeFile \/ Finish \/ EditFile

Spec == Init /\ [][Next]_vars
-----------------------------------------------------------------------------
(* Properties.                                                             *)

(* After every store the cache is within its two limits, and the estimate  *)
(* it compares them with is that of the entries it holds: eviction runs    *)
(* last in store_analysis and recomputes what it compares.                 *)
CacheBounded ==
  /\ Cardinality(DOMAIN cache) <= MaxEntries
  /\ memory <= MaxMemory
  /\ memory = MemoryOf(cache)

(* What a text's detectors have to say, contract by contract, without the  *)
(* order, the cache and the duplicates: a detector that fails costs its    *)
(* own findings, or with fail_fast those of its contract, and nothing else. *)
Expected(path, text) ==
  LET src == Source[text]
      ran(c) == {d \in Selected \cap Detectors : CanRun(d, c, src)}
      gaveUp(c) == options.failFast /\ \E d \in ran(c) : ~c.reports[d].ok
  IN UNION {UNION {{[detector |-> d, path |-> path, line |-> f.line,
                     severity |-> f.severity, confidence |-> f.confidence] :
                      f \in ToSet(src.contracts[i].reports[d].findings)} :
                    d \in {e \in ran(src.contracts[i]) : src.contracts[i].reports[e].ok}} :
            i \in {j \in DOMAIN src.contracts : ~gaveUp(src.contracts[j])}}
Wanted(path, text) ==
  {f \in Expected(path, text) :
     /\ AtLeast(f, options.registrySeverity, options.registryConfidence)
     /\ AtLeast(f, options.minSeverity, options.minConfidence)}

(* An answer from the cache hides nothing: it has every finding, at its    *)
(* severity, that a fresh analysis of the text just read would report.     *)
(* It has lost their confidences and every one passes for High: asked for  *)
(* confirmed findings only it has none.                                    *)
Unconfident(fs) == {ToCached(f) : f \in fs}
CacheHidesNothing ==
  options.minConfidence < 3 =>
    \A i \in DOMAIN answers :
      answers[i].fromCache =>
        Unconfident(Wanted(answers[i].path, answers[i].text))
          \subseteq Unconfident(ToSet(answers[i].findings))

(* The report names every place something was found at, once, whichever    *)
(* files failed, whatever detectors failed and however often a file or a   *)
(* contract repeats a finding.                                             *)
ReportComplete ==
  exit # "running" =>
    /\ IsInjective([i \in DOMAIN report |-> FindingKey(report[i])])
    /\ LET places == {FindingKey(f) : f \in ToSet(report)}
       IN \A i \in DOMAIN answers :
            ~answers[i].fromCache =>
              {FindingKey(f) : f \in Wanted(answers[i].path, answers[i].text)} \subseteq places

(* Success is never wrong: no reported finding is as severe as the flags   *)
(* ask about and no file failed, unless the flags say not to mind.  And    *)
(* an exit code other than success has its cause in some file.             *)
ExitCodeFaithful ==
  /\ exit = "success" => /\ \A f \in ToSet(report) : f.severity < Threshold(options.exitConfig)
                         /\ options.exitConfig.errorOnAnalysisFailure => summary.failed = 0
  /\ exit = "security issues" =>
       \E i \in DOMAIN answers : \E f \in ToSet(answers[i].findings) : f.severity >= Threshold(options.exitConfig)
  /\ exit = "analysis error" => summary.failed > 0 /\ options.exitConfig.errorOnAnalysisFailure

=============================================================================
