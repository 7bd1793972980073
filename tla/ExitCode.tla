-------------------------------- MODULE ExitCode --------------------------------
(***************************************************************************)
(* What the two kinds of run of the command line tool share                *)
(* (crates/cli/src/app.rs): their options, what AnalysisSummary counts,    *)
(* the exit configuration run_with_args reads off the flags,               *)
(* determine_exit_code, and the deduplication of a report                  *)
(* (crates/output/src/lib.rs).  Severities are numbered from 0 (Info) to   *)
(* 4 (Critical).                                                           *)
(***************************************************************************)
EXTENDS Integers, FiniteSets

CONSTANTS
  None,        \* an option that was not given
  OptionSets   \* command line options to choose from

Severities == 0 .. 4
High == 3

Codes == {"success", "security issues", "analysis error"}

ASSUME NoneAssumption == None \notin Severities /\ None \notin Codes

VARIABLES
  options,     \* the options of this run
  summary,     \* AnalysisSummary
  exit         \* the exit code, once there is one

Summary == [successful : Nat, failed : Nat, total : Nat, bySeverity : [Severities -> Nat]]

EmptySummary ==
  [successful |-> 0, failed |-> 0, total |-> 0, bySeverity |-> [s \in Severities |-> 0]]

(* Mutant: a severity does not look at those above it.                     *)
HasFindingsOf(sum, s) ==
  IF s = 0 THEN sum.total > 0 ELSE sum.bySeverity[s] > 0

(* has_findings_at_or_above goes up the severities one by one; for Info it *)
(* asks for any finding.                                                   *)
HasFindingsAtOrAbove(sum, s) ==
  IF s = 0 THEN sum.total > 0
  ELSE \E v \in Severities : v >= s /\ sum.bySeverity[v] > 0

(* ExitCodeConfig from --no-exit-code, --exit-code-level and the two       *)
(* --[no-]exit-on-analysis-error flags; error_on_no_files stays false.     *)
ExitConfig(noExitCode, level, analysisError) ==
  [errorOnSeverity |-> level,
   errorOnHighSeverity |-> ~noExitCode /\ level = None,
   errorOnAnalysisFailure |-> IF analysisError = None THEN ~noExitCode ELSE analysisError]

ExitConfigs ==
  [errorOnSeverity : Severities \cup {None}, errorOnHighSeverity : BOOLEAN,
   errorOnAnalysisFailure : BOOLEAN]

DetermineExitCode(sum, config) ==
  IF config.errorOnAnalysisFailure /\ sum.failed > 0 THEN "analysis error"
  ELSE IF \/ /\ config.errorOnSeverity # None
             /\ HasFindingsAtOrAbove(sum, config.errorOnSeverity)
          \/ /\ config.errorOnSeverity = None
             /\ config.errorOnHighSeverity
             /\ HasFindingsAtOrAbove(sum, High)
       THEN "security issues"
       ELSE "success"

(* The severity from which findings make the run fail, 5 if none does.     *)
Threshold(config) ==
  IF config.errorOnSeverity # None THEN config.errorOnSeverity
  ELSE IF config.errorOnHighSeverity THEN High ELSE 5

-----------------------------------------------------------------------------
(* The numbers in K in ascending order.                                    *)
Ascending(K) ==
  [n \in 1 .. Cardinality(K) |->
     CHOOSE i \in K : Cardinality({j \in K : j < i}) = n - 1]

(* The entries of s at the indices K, in their order in s.                 *)
Selection(s, K) == LET kept == Ascending(K) IN [n \in DOMAIN kept |-> s[kept[n]]]

(* deduplicate_findings: of the findings with the same key the first.      *)
Firsts(keys) == {i \in DOMAIN keys : \A j \in 1 .. i - 1 : keys[j] # keys[i]}
Deduplicated(fs, keys) == Selection(fs, Firsts(keys))
=============================================================================
