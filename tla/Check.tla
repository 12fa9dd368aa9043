------------------------------- MODULE Check -------------------------------
(***************************************************************************)
(* The check command (cli.py: main; batch.py, regression.py): a batch of   *)
(* scenario runs, labelled against expectations.yaml and the newest batch  *)
(* with a report, and the exit code.  Checks of one project follow one     *)
(* another and share the batches on disk; any of them may be killed, in    *)
(* the middle of a write too, since report.json is written in place.       *)
(*                                                                         *)
(* A run is ScenarioRun's, seen from outside: the row it yields, or the    *)
(* exception it raises.                                                    *)
(***************************************************************************)
EXTENDS Claims, Sequences, Functions

CONSTANTS
  Entries,           \* the selected entries: name, scenario and whether it can be generated
  ExpectationFiles,  \* the states expectations.yaml may be in
  MaxChecks          \* bound: the checks started

Statuses == {"supported", "finding", "unsupported", "needs-external-psbt", "unclassified"}

(* An expectation file is missing, has a scenarios part load_expectations    *)
(* refuses, or expects a status of some scenarios.                           *)
ValidFile(f) ==
  /\ f.state \in {"missing", "invalid", "valid"}
  /\ Range(f.expects) \subseteq Statuses
  /\ f.state # "valid" => f.expects = <<>>

ASSUME CheckAssumption ==
  /\ MaxChecks \in Nat /\ Entries \in Seq(Range(Entries))
  /\ \A k \in DOMAIN Entries : Entries[k].generated => Entries[k].scenario.intent
  /\ \A j, k \in DOMAIN Entries : Entries[j].name = Entries[k].name => j = k
  /\ \A f \in ExpectationFiles : ValidFile(f)

VARIABLES
  pc,         \* where the check is
  mode,       \* "plain", "exhaustive" or "release"
  bound,      \* the entries a PSBT is bound to
  file,       \* the state of expectations.yaml
  results,    \* BatchRun.results
  labels,     \* the label of each case, empty for none
  legsOk,     \* release_legs_ok
  exit,       \* how the check ended
  disk,       \* the batches, oldest first
  finalized   \* history: the rows of the newest report finished before this check

vars == <<pc, mode, bound, file, results, labels, legsOk, exit, disk, finalized>>
chosen == <<mode, bound, file>>

Modes == {"plain", "exhaustive", "release"}
Row(name, row) == [name |-> name, status |-> row.status, reason |-> row.reason]
Unreported == [report |-> "none", html |-> FALSE, rows |-> <<>>]

Init ==
  /\ pc = "idle" /\ mode = "plain" /\ bound = {}
  /\ file \in ExpectationFiles
  /\ results = <<>> /\ labels = <<>> /\ legsOk = TRUE /\ exit = "none"
  /\ disk = <<>> /\ finalized = <<>>

End(how) == pc' = "ended" /\ exit' = how

-----------------------------------------------------------------------------
(* A check starts; what it is asked for, and the file, may differ from the   *)
(* last time.                                                               *)
Begin ==
  /\ pc \in {"idle", "ended"} /\ Len(disk) < MaxChecks
  /\ mode' \in Modes /\ file' \in ExpectationFiles
  /\ bound' \in SUBSET {k \in DOMAIN Entries : ~ Entries[k].generated}
  /\ pc' = "preflight" /\ exit' = "none"
  /\ results' = <<>> /\ labels' = <<>> /\ legsOk' = TRUE
  /\ finalized' = IF disk # <<>> /\ disk[Len(disk)].report = "whole"
                    THEN disk[Len(disk)].rows ELSE finalized
  /\ UNCHANGED disk

(* A configuration or preflight problem: nothing runs.                      *)
Refuse ==
  /\ pc = "preflight" /\ End("two")
  /\ UNCHANGED <<chosen, results, labels, legsOk, disk, finalized>>

(* A release needs the expectations, of the lock's digest.                   *)
Preflight ==
  /\ pc = "preflight"
  /\ mode = "release" => file.state # "missing"
  /\ pc' = "cases" /\ disk' = Append(disk, Unreported)
  /\ UNCHANGED <<chosen, results, labels, legsOk, exit, finalized>>

Case == Entries[Len(results) + 1]
CaseIsOpen == pc = "cases" /\ Len(results) < Len(Entries)
Runnable == Case.generated \/ (Len(results) + 1) \in bound
Add(row) ==
  /\ results' = Append(results, Row(Case.name, row))
  /\ UNCHANGED <<pc, chosen, labels, legsOk, exit, disk, finalized>>

FailedRow == [status |-> "failed", reason |-> "error"]

BlockedCase ==
  /\ CaseIsOpen /\ ~ Runnable
  /\ Add([status |-> "blocked", reason |-> "no-psbt"])

(* The PSBT named with --psbt is no file.                                   *)
MissingPsbt ==
  /\ CaseIsOpen /\ Runnable /\ ~ Case.generated
  /\ Add([status |-> "failed", reason |-> "psbt-missing"])

(* attach_bip375_validators: all of them, in an exhaustive or release check. *)
Attached(e) ==
  IF mode # "plain" /\ e.scenario.suite = "bip375"
    THEN KnownValidators ELSE Range(e.scenario.validators)

(* The run returns and its manifest gives the row.                          *)
RunCase ==
  /\ CaseIsOpen /\ Runnable
  /\ \E repaired \in (IF Case.scenario.policy = "combiner" THEN BOOLEAN ELSE {FALSE}),
        records \in [Attached(Case) -> {"passed", "short", "failed"}],
        lab \in (IF mode = "release" /\ Case.scenario.suite = "bip375"
                   THEN LabStatuses ELSE {"not-run"}) :
       Add(RunRow(Case.scenario, Case.generated, mode = "release", repaired, records, lab))

(* It raises an InteropError.                                               *)
FailCase == CaseIsOpen /\ Runnable /\ Add(FailedRow)

(* It raises anything else: the batch is abandoned.                          *)
CrashCase ==
  /\ CaseIsOpen /\ Runnable /\ End("crash")
  /\ UNCHANGED <<chosen, results, labels, legsOk, disk, finalized>>

-----------------------------------------------------------------------------
(* regression.py                                                           *)

Passing == {"passed", "completed"}
FailingLabels == {"REGRESSION", "UNCLASSIFIED", "NEW"}
NoRow == [status |-> "none", reason |-> "none"]

(* The row a report has of a case.                                          *)
RowOf(rows, name) ==
  IF \E k \in DOMAIN rows : rows[k].name = name
    THEN LET k == CHOOSE j \in DOMAIN rows : rows[j].name = name
         IN [status |-> rows[k].status, reason |-> rows[k].reason]
    ELSE NoRow

(* classify, of a case with an expectation; prior is NoRow for none.         *)
Compared(row, prior) ==
  IF prior # NoRow /\ prior # [status |-> row.status, reason |-> row.reason]
    THEN "CHANGED" ELSE "STEADY"

Classify(row, prior) ==
  IF row.name \notin DOMAIN file.expects THEN "NEW"
  ELSE IF file.expects[row.name] = "unclassified" THEN "UNCLASSIFIED"
  ELSE IF file.expects[row.name] = "supported"
    THEN CASE row.status = "failed"  -> "REGRESSION"
           [] row.status = "blocked" -> "NOT-RUN"
           [] OTHER                  -> Compared(row, prior)
  ELSE IF row.status \in Passing THEN "FIXED" ELSE Compared(row, prior)

(* The batches before this one that have a report.json.                      *)
Earlier == {k \in 1 .. Len(disk) - 1 : disk[k].report # "none"}
(* Mutant: the oldest of them.                                              *)
OldestEarlier == IF Earlier = {} THEN 0 ELSE CHOOSE k \in Earlier : \A j \in Earlier : k <= j
NewestEarlier == IF Earlier = {} THEN 0 ELSE CHOOSE k \in Earlier : \A j \in Earlier : j <= k

(* Mutant: the last case is left out.                                       *)
CasesDoneShort == pc = "cases" /\ Len(results) + 1 >= Len(Entries)
CasesDone == pc = "cases" /\ Len(results) = Len(Entries)

Judge ==
  /\ CasesDone /\ file.state = "valid"
  /\ NewestEarlier # 0 => disk[NewestEarlier].report = "whole"
  /\ labels' = [name \in {results[k].name : k \in DOMAIN results} |->
       LET row == CHOOSE r \in Range(results) : r.name = name
       IN Classify(row, IF NewestEarlier = 0 THEN NoRow
                        ELSE RowOf(disk[NewestEarlier].rows, name))]
  /\ pc' = "report"
  /\ UNCHANGED <<chosen, results, legsOk, exit, disk, finalized>>

JudgeWithoutFile ==
  /\ CasesDone /\ file.state = "missing" /\ pc' = "report"
  /\ UNCHANGED <<chosen, results, labels, legsOk, exit, disk, finalized>>

(* load_expectations raises a ConfigurationError.                            *)
JudgeRefused ==
  /\ CasesDone /\ file.state = "invalid" /\ End("two")
  /\ UNCHANGED <<chosen, results, labels, legsOk, disk, finalized>>

(* The newest report is half written: previous_results raises, and not an    *)
(* InteropError.                                                            *)
JudgeCrashes ==
  /\ CasesDone /\ file.state = "valid"
  /\ NewestEarlier # 0 /\ disk[NewestEarlier].report = "torn"
  /\ End("crash")
  /\ UNCHANGED <<chosen, results, labels, legsOk, disk, finalized>>

-----------------------------------------------------------------------------
(* BatchRun.finalize and the end                                            *)

Latest == Len(disk)

WriteBegins ==
  /\ pc \in {"report", "rewrite"}
  /\ disk' = [disk EXCEPT ![Latest].report = "torn"]
  /\ pc' = IF pc = "report" THEN "reporting" ELSE "rewriting"
  /\ UNCHANGED <<chosen, results, labels, legsOk, exit, finalized>>

(* Mutant: the report leaves out the cases that did not run.                *)
WriteEndsRunOnly ==
  /\ pc \in {"reporting", "rewriting"}
  /\ disk' = [disk EXCEPT ![Latest].report = "whole",
                          ![Latest].rows = SelectSeq(results, LAMBDA r : r.status # "blocked")]
  /\ pc' = IF pc = "reporting" THEN "html" ELSE "legs"
  /\ UNCHANGED <<chosen, results, labels, legsOk, exit, finalized>>

WriteEnds ==
  /\ pc \in {"reporting", "rewriting"}
  /\ disk' = [disk EXCEPT ![Latest].report = "whole", ![Latest].rows = results]
  /\ pc' = IF pc = "reporting" THEN "html" ELSE "legs"
  /\ UNCHANGED <<chosen, results, labels, legsOk, exit, finalized>>

(* report.html; with --baseline-lock report.json is then written again.      *)
WriteHtml ==
  /\ pc = "html" /\ disk' = [disk EXCEPT ![Latest].html = TRUE]
  /\ pc' \in {"rewrite", "legs"}
  /\ UNCHANGED <<chosen, results, labels, legsOk, exit, finalized>>

(* A release runs both MuSig2 legs; each may fail, or its script be missing. *)
RunLegs ==
  /\ pc = "legs" /\ pc' = "exit"
  /\ legsOk' \in (IF mode = "release" THEN BOOLEAN ELSE {TRUE})
  /\ UNCHANGED <<chosen, results, labels, exit, disk, finalized>>

LegsMissing ==
  /\ pc = "legs" /\ mode = "release" /\ End("two")
  /\ UNCHANGED <<chosen, results, labels, legsOk, disk, finalized>>

Some(statuses) == \E k \in DOMAIN results : results[k].status \in statuses

(* Mutant: a release is judged by its labels alone.                         *)
ExitByLabels ==
  IF ~ legsOk \/ ~ Some({"passed", "failed"}) THEN "one"
  ELSE IF labels # <<>>
    THEN IF Range(labels) \cap FailingLabels # {} THEN "one" ELSE "zero"
  ELSE IF Some({"failed"}) THEN "one" ELSE "zero"

ExitCode ==
  IF ~ legsOk \/ ~ Some({"passed", "failed"}) THEN "one"
  ELSE IF mode = "release" /\ Some({"failed"}) THEN "one"
  ELSE IF labels # <<>>
    THEN IF Range(labels) \cap FailingLabels # {} THEN "one" ELSE "zero"
  ELSE IF Some({"failed"}) THEN "one" ELSE "zero"

Finish ==
  /\ pc = "exit" /\ End(ExitCode)
  /\ UNCHANGED <<chosen, results, labels, legsOk, disk, finalized>>

(* What the process held in memory is gone.                                 *)
Kill ==
  /\ pc \notin {"idle", "ended"} /\ End("killed")
  /\ results' = <<>> /\ labels' = <<>> /\ legsOk' = TRUE
  /\ UNCHANGED <<chosen, disk, finalized>>

Next ==
  \/ Begin \/ Refuse \/ Preflight
  \/ BlockedCase \/ MissingPsbt \/ RunCase \/ FailCase \/ CrashCase
  \/ Judge \/ JudgeWithoutFile \/ JudgeRefused \/ JudgeCrashes
  \/ WriteBegins \/ WriteEnds \/ WriteHtml \/ RunLegs \/ LegsMissing
  \/ Finish \/ Kill

Spec == Init /\ [][Next]_vars

-----------------------------------------------------------------------------
(* Properties                                                              *)

Expected(k) == IF results[k].name \in DOMAIN file.expects
                 THEN file.expects[results[k].name] ELSE "none"

(* Types, and the order of the stages: the rows follow the entries, labels   *)
(* come after all of them, and only the batch being finished is half         *)
(* written, unless its check was killed.                                    *)
TypeOK ==
  /\ pc \in {"idle", "preflight", "cases", "report", "reporting", "html", "rewrite",
             "rewriting", "legs", "exit", "ended"}
  /\ mode \in Modes /\ bound \subseteq DOMAIN Entries /\ file \in ExpectationFiles
  /\ \A k \in DOMAIN results :
       /\ results[k].name = Entries[k].name
       /\ results[k].status \in {"passed", "failed", "blocked", "completed"}
       /\ results[k].reason \in Reasons \cup {"no-psbt", "psbt-missing"}
  /\ labels # <<>> => Len(results) = Len(Entries)
  /\ legsOk \in BOOLEAN
  /\ exit \in {"none", "zero", "one", "two", "crash", "killed"}
  /\ exit # "none" <=> pc = "ended"
  /\ Len(disk) <= MaxChecks
  /\ pc \in {"reporting", "rewriting"} => disk[Latest].report = "torn"
  /\ \A k \in 1 .. Latest : disk[k].report = "none" => ~ disk[k].html /\ disk[k].rows = <<>>

(* 0 says that every entry has its row and something was verified, that no   *)
(* case is without expectation or unclassified and none that is supported    *)
(* failed, and of a release that nothing failed and both legs passed,        *)
(* whatever the batches before it were.  A supported case that was blocked   *)
(* (NOT-RUN) and a finding that passed (FIXED) do not fail a run.            *)
ExitZeroMeansNoRegression ==
  exit = "zero" =>
    /\ DOMAIN results = DOMAIN Entries /\ Some({"passed", "failed"})
    /\ file.state = "valid" =>
         \A k \in DOMAIN results :
           /\ Expected(k) \notin {"none", "unclassified"}
           /\ Expected(k) = "supported" => results[k].status # "failed"
    /\ file.state = "missing" => ~ Some({"failed"})
    /\ mode = "release" => legsOk /\ ~ Some({"failed"})

(* The label table: STEADY is "as expected and unchanged" from the newest    *)
(* finalized batch, killed and crashed checks in between or not.             *)
SteadyMeansUnchanged ==
  \A k \in DOMAIN results :
    results[k].name \in DOMAIN labels /\ labels[results[k].name] = "STEADY" =>
      RowOf(finalized, results[k].name) \in {NoRow, RowOf(results, results[k].name)}

(* "Each check writes report.json and report.html": one that ends with 0 or  *)
(* 1 has, of every case, what the exit code was made of.                     *)
ExitHasReport ==
  exit \in {"zero", "one"} =>
    disk[Latest] = [report |-> "whole", html |-> TRUE, rows |-> results]

(* The same of every check: when all its cases are done and it is not        *)
(* killed, its report is written.                                           *)
DoneCasesAreReported ==
  pc = "ended" /\ exit # "killed" /\ file.state # "invalid" /\ disk # <<>>
    /\ DOMAIN results = DOMAIN Entries => disk[Latest].report = "whole"

=============================================================================
