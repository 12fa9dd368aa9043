----------------------------- MODULE CheckProofs -----------------------------
(***************************************************************************)
(* Theorems about Check: whatever is refused, crashes or is killed, and    *)
(* however many checks came before, exit 0, STEADY and the report of a     *)
(* check mean what they say.                                               *)
(***************************************************************************)
EXTENDS Check, SequenceTheorems, WellFoundedInduction, TLAPS

-----------------------------------------------------------------------------
(* The inductive invariant                                                 *)

RowType ==
  [name   : {Entries[k].name : k \in DOMAIN Entries},
   status : {"passed", "failed", "blocked", "completed"},
   reason : Reasons \cup {"no-psbt", "psbt-missing"}]
Batch == [report : {"none", "torn", "whole"}, html : BOOLEAN, rows : Seq(RowType)]

(* The stages after the cases, each with what it has done by then.           *)
Concluded == exit \in {"zero", "one"}
Judged ==
  \/ pc \in {"report", "reporting", "html", "rewrite", "rewriting", "legs", "exit"}
  \/ Concluded
Reported == pc \in {"html", "rewrite", "legs", "exit"} \/ Concluded
Shown    == pc \in {"rewrite", "rewriting", "legs", "exit"} \/ Concluded

ControlInv ==
  /\ pc \in {"idle", "preflight", "cases", "report", "reporting", "html", "rewrite",
             "rewriting", "legs", "exit", "ended"}
  /\ mode \in Modes /\ bound \subseteq DOMAIN Entries /\ file \in ExpectationFiles
  /\ legsOk \in BOOLEAN
  /\ exit \in {"none", "zero", "one", "two", "crash", "killed"}
  /\ exit # "none" <=> pc = "ended"

(* The rows follow the entries, and are all there once they are judged.      *)
ResultsInv ==
  /\ results \in Seq(RowType) /\ Len(results) <= Len(Entries)
  /\ \A k \in 1 .. Len(results) : results[k].name = Entries[k].name
  /\ pc \in {"idle", "preflight"} => results = <<>>
  /\ Judged => Len(results) = Len(Entries)

(* A label that does not fail the check says that the expectation is met.    *)
LabelFits(k) ==
  labels[results[k].name] \notin FailingLabels =>
    /\ Expected(k) \notin {"none", "unclassified"}
    /\ Expected(k) = "supported" => results[k].status # "failed"

LabelsInv ==
  /\ labels # <<>> => Len(results) = Len(Entries)
  /\ pc \in {"idle", "preflight", "cases"} => labels = <<>>
  /\ Judged => file.state \in {"valid", "missing"}
  /\ Judged /\ file.state = "missing" => labels = <<>>
  /\ Judged /\ file.state = "valid" =>
       \A k \in 1 .. Len(results) :
         results[k].name \in DOMAIN labels /\ LabelFits(k)

DiskInv ==
  /\ disk \in Seq(Batch) /\ Len(disk) <= MaxChecks
  /\ pc = "idle" => disk = <<>>
  /\ pc = "preflight" => Len(disk) < MaxChecks
  /\ pc = "cases" \/ Judged => disk # <<>>
  /\ \A k \in 1 .. Len(disk) : disk[k].report = "none" => ~ disk[k].html /\ disk[k].rows = <<>>

ReportInv ==
  /\ pc \in {"reporting", "rewriting"} => disk[Len(disk)].report = "torn"
  /\ Reported => disk[Len(disk)].report = "whole" /\ disk[Len(disk)].rows = results
  /\ Shown => disk[Len(disk)].html

(* finalized is of the newest whole report of the first n batches.           *)
FinalizedOf(n) ==
  \/ finalized = <<>> /\ \A k \in 1 .. n : disk[k].report # "whole"
  \/ \E k \in 1 .. n :
       /\ disk[k].report = "whole" /\ finalized = disk[k].rows
       /\ \A j \in 1 .. n : disk[j].report = "whole" => j <= k

(* They are all the batches, until the check appends its own; of one that    *)
(* has ended it is not known whether it did.                                *)
FinalizedInv ==
  /\ pc \in {"idle", "preflight"} => FinalizedOf(Len(disk))
  /\ pc = "cases" \/ Judged => FinalizedOf(Len(disk) - 1)
  /\ FinalizedOf(Len(disk)) \/ FinalizedOf(Len(disk) - 1)

CheckInv ==
  /\ ControlInv /\ ResultsInv /\ LabelsInv /\ DiskInv /\ ReportInv /\ FinalizedInv
  /\ SteadyMeansUnchanged

-----------------------------------------------------------------------------
(* The rows                                                                *)

LEMMA EntriesFacts ==
  /\ MaxChecks \in Nat /\ Len(Entries) \in Nat /\ DOMAIN Entries = 1 .. Len(Entries)
  /\ \A j, k \in 1 .. Len(Entries) : Entries[j].name = Entries[k].name => j = k
<1>1. Entries \in Seq(Range(Entries)) /\ MaxChecks \in Nat BY CheckAssumption
<1>2. Len(Entries) \in Nat /\ DOMAIN Entries = 1 .. Len(Entries) BY <1>1, LenProperties
<1> QED BY <1>1, <1>2, CheckAssumption

LEMMA FileFacts ==
  ASSUME file \in ExpectationFiles
  PROVE  file.state \in {"missing", "invalid", "valid"}
BY CheckAssumption DEF ValidFile

LEMMA RunClaimType ==
  ASSUME NEW sc, NEW repaired, NEW generated
  PROVE  /\ RunClaim(sc, repaired, generated).status \in {"passed", "completed"}
         /\ RunClaim(sc, repaired, generated).reason \in Reasons
BY DEF RunClaim, Claim, Reasons

LEMMA ManifestReason ==
  ASSUME NEW sc, NEW repaired, NEW records, NEW lab
  PROVE  ManifestClaim(sc, repaired, records, lab).reason \in Reasons
<1> DEFINE claim == RunClaim(sc, repaired, TRUE)
<1>1. claim.reason \in Reasons BY RunClaimType
<1>2. SkippedReason(records, lab) \in Reasons BY DEF SkippedReason, Reasons
<1>3. {"none", "validator-skipped"} \subseteq Reasons BY DEF Reasons
<1> HIDE DEF claim
<1>4. ManifestClaim(sc, repaired, records, lab) =
        IF claim.scope # "none" THEN [scope |-> claim.scope, reason |-> claim.reason]
        ELSE IF records = <<>> THEN [scope |-> "not-evidence", reason |-> "validator-skipped"]
        ELSE IF EvidenceEarned(sc, repaired, records, lab)
          THEN [scope |-> "evidence", reason |-> "none"]
        ELSE [scope |-> "not-evidence", reason |-> SkippedReason(records, lab)]
  BY DEF ManifestClaim, claim
<1> QED BY <1>1, <1>2, <1>3, <1>4

(* A row of a run that returned has a status and a reason of the report.     *)
LEMMA RunRowType ==
  ASSUME NEW sc, NEW generated, NEW release, NEW repaired, NEW records, NEW lab
  PROVE  /\ RunRow(sc, generated, release, repaired, records, lab).status
              \in {"passed", "failed", "completed"}
         /\ RunRow(sc, generated, release, repaired, records, lab).reason \in Reasons
<1> DEFINE claim    == RunClaim(sc, repaired, generated)
           manifest == ManifestClaim(sc, repaired, records, lab)
           failed   == \/ \E v \in DOMAIN records : records[v] = "failed"
                       \/ release /\ ReleaseRefuses(sc, records, lab)
           row      == RunRow(sc, generated, release, repaired, records, lab)
<1>1. claim.reason \in Reasons /\ claim.status \in {"passed", "completed"} BY RunClaimType
<1>2. manifest.reason \in Reasons BY ManifestReason
<1>3. "error" \in Reasons BY DEF Reasons
<1>4. row = IF failed THEN [status |-> "failed", reason |-> "error"]
            ELSE IF manifest.scope = "not-evidence"
              THEN [status |-> "completed", reason |-> manifest.reason]
            ELSE [status |-> claim.status, reason |-> claim.reason]
  BY Zenon DEF RunRow
<1> HIDE DEF claim, manifest, failed, row
<1>5. row.status \in {"passed", "failed", "completed"} /\ row.reason \in Reasons
  BY <1>1, <1>2, <1>3, <1>4
<1> QED BY <1>5 DEF row

(* The next row is the next entry's.                                        *)
LEMMA RowAdded ==
  ASSUME CheckInv, CaseIsOpen, NEW row, Add(row),
         row.status \in {"passed", "failed", "blocked", "completed"},
         row.reason \in Reasons \cup {"no-psbt", "psbt-missing"}
  PROVE  CheckInv'
<1> USE DEF CaseIsOpen, CheckInv
<1>1. pc = "cases" /\ ~ Judged /\ ~ Reported /\ ~ Shown /\ exit = "none"
  BY DEF ControlInv, Judged, Reported, Shown, Concluded
<1>2. /\ results' = Append(results, Row(Case.name, row)) /\ pc' = pc
      /\ UNCHANGED <<mode, bound, file, labels, legsOk, exit, disk, finalized>>
  BY DEF Add, chosen
<1>3. ~ Judged' /\ ~ Reported' /\ ~ Shown' BY <1>1, <1>2 DEF Judged, Reported, Shown, Concluded
<1>4. results \in Seq(RowType) /\ Len(results) \in Nat /\ labels = <<>>
  BY <1>1, LenProperties DEF ResultsInv, LabelsInv
<1>5. Len(results) + 1 \in DOMAIN Entries BY <1>4, EntriesFacts
<1>6. Row(Case.name, row) \in RowType BY <1>5 DEF Row, Case, RowType
<1>7. /\ results' \in Seq(RowType) /\ Len(results') = Len(results) + 1
      /\ results'[Len(results) + 1] = Row(Case.name, row)
      /\ \A k \in 1 .. Len(results) : results'[k] = results[k]
  BY <1>2, <1>4, <1>6, AppendProperties
<1>8. ResultsInv'
  <2>1. \A k \in 1 .. Len(results') : results'[k].name = Entries[k].name
    <3> TAKE k \in 1 .. Len(results')
    <3>1. CASE k = Len(results) + 1 BY <1>7, <3>1 DEF Row, Case
    <3>2. CASE k \in 1 .. Len(results) BY <1>7, <3>2 DEF ResultsInv
    <3> QED BY <1>4, <1>7, <3>1, <3>2
  <2>2. Len(results') <= Len(Entries) BY <1>5, <1>7, EntriesFacts
  <2>3. pc' = "cases" BY <1>1, <1>2
  <2> QED BY <1>3, <1>7, <2>1, <2>2, <2>3 DEF ResultsInv
<1>9. ControlInv' BY <1>2 DEF ControlInv
<1>10. LabelsInv' BY <1>1, <1>2, <1>3, <1>4 DEF LabelsInv
<1>11. DiskInv' BY <1>1, <1>2, <1>3 DEF DiskInv
<1>12. ReportInv' BY <1>1, <1>2, <1>3 DEF ReportInv
<1>13. FinalizedInv' BY <1>1, <1>2, <1>3 DEF FinalizedInv, FinalizedOf
<1>14. SteadyMeansUnchanged'
  <2>1. labels' = <<>> /\ DOMAIN <<>> = {} BY <1>2, <1>4
  <2> QED BY <2>1 DEF SteadyMeansUnchanged
<1> QED BY <1>8, <1>9, <1>10, <1>11, <1>12, <1>13, <1>14

-----------------------------------------------------------------------------
(* A check starts, stops, or goes on without touching the batches            *)

LEMMA CheckStarts == Init => CheckInv
<1> SUFFICES ASSUME Init PROVE CheckInv OBVIOUS
<1> USE DEF Init
<1>1. ~ Judged /\ ~ Reported /\ ~ Shown BY DEF Judged, Reported, Shown, Concluded
<1>2. /\ results \in Seq(RowType) /\ Len(results) = 0
      /\ disk \in Seq(Batch) /\ Len(disk) = 0
  BY EmptySeq
<1>3. ControlInv BY DEF ControlInv, Modes
<1>4. ResultsInv BY <1>1, <1>2, EntriesFacts DEF ResultsInv
<1>5. LabelsInv BY <1>1 DEF LabelsInv
<1>6. DiskInv BY <1>1, <1>2, EntriesFacts DEF DiskInv
<1>7. ReportInv BY <1>1 DEF ReportInv
<1>8. FinalizedInv BY <1>1, <1>2 DEF FinalizedInv, FinalizedOf
<1>9. SteadyMeansUnchanged BY DEF SteadyMeansUnchanged
<1> QED BY <1>3, <1>4, <1>5, <1>6, <1>7, <1>8, <1>9 DEF CheckInv

(* The newest report, whole or not, of the batches there are when a check    *)
(* starts.                                                                  *)
LEMMA BeginKeeps == CheckInv /\ Begin => CheckInv'
<1> SUFFICES ASSUME CheckInv, Begin PROVE CheckInv' OBVIOUS
<1> USE DEF CheckInv, Begin
<1>1. pc' = "preflight" /\ exit' = "none" /\ results' = <<>> /\ labels' = <<>> /\ disk' = disk
  OBVIOUS
<1>2. ~ Judged' /\ ~ Reported' /\ ~ Shown' BY <1>1 DEF Judged, Reported, Shown, Concluded
<1>3. results' \in Seq(RowType) /\ Len(results') = 0 BY <1>1, EmptySeq
<1>4. disk \in Seq(Batch) /\ Len(disk) \in Nat /\ (disk # <<>> => Len(disk) # 0)
  BY LenProperties, EmptySeq DEF DiskInv
<1>5. ControlInv'
  <2>1. mode' \in Modes /\ file' \in ExpectationFiles /\ legsOk' \in BOOLEAN
        /\ bound' \subseteq DOMAIN Entries
    OBVIOUS
  <2> QED BY <1>1, <2>1 DEF ControlInv
<1>6. ResultsInv' BY <1>1, <1>2, <1>3, EntriesFacts DEF ResultsInv
<1>7. LabelsInv' BY <1>1, <1>2 DEF LabelsInv
<1>8. DiskInv'
  <2>1. Len(disk) < MaxChecks OBVIOUS
  <2> QED BY <1>1, <1>2, <2>1 DEF DiskInv
<1>9. ReportInv' BY <1>1, <1>2 DEF ReportInv
<1>10. FinalizedInv'
  <2>1. CASE disk # <<>> /\ disk[Len(disk)].report = "whole"
    <3>1. finalized' = disk[Len(disk)].rows BY <2>1
    <3>2. Len(disk) \in 1 .. Len(disk) /\ \A j \in 1 .. Len(disk) : j <= Len(disk)
      BY <1>4, <2>1
    <3>3. FinalizedOf(Len(disk))' BY <1>1, <2>1, <3>1, <3>2 DEF FinalizedOf
    <3> QED BY <1>1, <1>2, <3>3 DEF FinalizedInv
  <2>2. CASE ~ (disk # <<>> /\ disk[Len(disk)].report = "whole")
    <3>1. finalized' = finalized BY <2>2
    <3>2. FinalizedOf(Len(disk)) \/ FinalizedOf(Len(disk) - 1) BY DEF FinalizedInv
    <3>3. \A k \in 1 .. Len(disk) :
            k \in 1 .. Len(disk) - 1 \/ disk[k].report # "whole"
      BY <1>4, <2>2, EmptySeq
    <3>4. 1 .. Len(disk) - 1 \subseteq 1 .. Len(disk) BY <1>4
    <3>5. FinalizedOf(Len(disk)) BY <3>2, <3>3, <3>4 DEF FinalizedOf
    <3>6. FinalizedOf(Len(disk))' BY <1>1, <3>1, <3>5 DEF FinalizedOf
    <3> QED BY <1>1, <1>2, <3>6 DEF FinalizedInv
  <2> QED BY <2>1, <2>2
<1>11. SteadyMeansUnchanged' BY <1>1 DEF SteadyMeansUnchanged
<1> QED BY <1>5, <1>6, <1>7, <1>8, <1>9, <1>10, <1>11

(* A check that ends with 2 or a traceback leaves everything as it is.       *)
LEMMA EndKeeps ==
  ASSUME CheckInv, NEW how \in {"two", "crash"}, End(how),
         UNCHANGED <<chosen, results, labels, legsOk, disk, finalized>>
  PROVE  CheckInv'
<1> USE DEF CheckInv
<1>1. pc' = "ended" /\ exit' = how
      /\ UNCHANGED <<mode, bound, file, results, labels, legsOk, disk, finalized>>
  BY DEF End, chosen
<1>2. ~ Judged' /\ ~ Reported' /\ ~ Shown' BY <1>1 DEF Judged, Reported, Shown, Concluded
<1>3. ControlInv' BY <1>1 DEF ControlInv
<1>4. ResultsInv' BY <1>1, <1>2 DEF ResultsInv
<1>5. LabelsInv' BY <1>1, <1>2 DEF LabelsInv
<1>6. DiskInv' BY <1>1, <1>2 DEF DiskInv
<1>7. ReportInv' BY <1>1, <1>2 DEF ReportInv
<1>8. FinalizedInv' BY <1>1, <1>2 DEF FinalizedInv, FinalizedOf
<1>9. SteadyMeansUnchanged'
  BY <1>1 DEF SteadyMeansUnchanged, RowOf, NoRow
<1> QED BY <1>3, <1>4, <1>5, <1>6, <1>7, <1>8, <1>9

LEMMA KillKeeps == CheckInv /\ Kill => CheckInv'
<1> SUFFICES ASSUME CheckInv, Kill PROVE CheckInv' OBVIOUS
<1> USE DEF CheckInv
<1>1. /\ pc' = "ended" /\ exit' = "killed"
      /\ results' = <<>> /\ labels' = <<>> /\ legsOk' = TRUE
      /\ UNCHANGED <<mode, bound, file, disk, finalized>>
  BY DEF Kill, End, chosen
<1>2. ~ Judged' /\ ~ Reported' /\ ~ Shown' BY <1>1 DEF Judged, Reported, Shown, Concluded
<1>3. results' \in Seq(RowType) /\ Len(results') = 0 BY <1>1, EmptySeq
<1>4. ControlInv' BY <1>1 DEF ControlInv
<1>5. ResultsInv' BY <1>1, <1>2, <1>3, EntriesFacts DEF ResultsInv
<1>6. LabelsInv' BY <1>1, <1>2 DEF LabelsInv
<1>7. DiskInv' BY <1>1, <1>2 DEF DiskInv
<1>8. ReportInv' BY <1>1, <1>2 DEF ReportInv
<1>9. FinalizedInv' BY <1>1, <1>2 DEF FinalizedInv, FinalizedOf
<1>10. SteadyMeansUnchanged' BY <1>1 DEF SteadyMeansUnchanged
<1> QED BY <1>4, <1>5, <1>6, <1>7, <1>8, <1>9, <1>10

(* From the judged stages a check goes on in memory alone.                   *)
LEMMA StageKeeps ==
  ASSUME CheckInv, Judged, Judged', ControlInv',
         UNCHANGED <<file, results, labels, disk, finalized>>,
         pc' # "preflight", pc' # "idle", pc' # "cases",
         ReportInv'
  PROVE  CheckInv'
<1> USE DEF CheckInv
<1>1. ResultsInv' BY DEF ResultsInv
<1>2. LabelsInv' BY DEF LabelsInv, LabelFits, Expected
<1>3. DiskInv' BY DEF DiskInv
<1>4. FinalizedInv' BY DEF FinalizedInv, FinalizedOf
<1>5. SteadyMeansUnchanged' BY DEF SteadyMeansUnchanged, RowOf, NoRow
<1> QED BY <1>1, <1>2, <1>3, <1>4, <1>5

LEMMA RunLegsKeeps == CheckInv /\ RunLegs => CheckInv'
<1> SUFFICES ASSUME CheckInv, RunLegs PROVE CheckInv' OBVIOUS
<1> USE DEF RunLegs
<1>1. Judged /\ Judged' /\ Reported /\ Shown BY DEF Judged, Reported, Shown
<1>2. ControlInv' BY DEF CheckInv, ControlInv, chosen
<1>3. ReportInv' BY <1>1 DEF CheckInv, ReportInv
<1> QED BY <1>1, <1>2, <1>3, StageKeeps DEF chosen

LEMMA FinishKeeps == CheckInv /\ Finish => CheckInv'
<1> SUFFICES ASSUME CheckInv, Finish PROVE CheckInv' OBVIOUS
<1> USE DEF Finish, End
<1>1. ExitCode \in {"zero", "one"} BY DEF ExitCode
<1>2. Judged /\ Judged' /\ Reported /\ Shown BY <1>1 DEF Judged, Reported, Shown, Concluded
<1>3. ControlInv' BY <1>1 DEF CheckInv, ControlInv, chosen
<1>4. ReportInv' BY <1>2 DEF CheckInv, ReportInv
<1> QED BY <1>2, <1>3, <1>4, StageKeeps DEF chosen

-----------------------------------------------------------------------------
(* The batches                                                             *)

(* A batch is added when the preflight has passed.                          *)
LEMMA PreflightKeeps == CheckInv /\ Preflight => CheckInv'
<1> SUFFICES ASSUME CheckInv, Preflight PROVE CheckInv' OBVIOUS
<1> USE DEF CheckInv
<1>1. /\ pc = "preflight" /\ pc' = "cases" /\ disk' = Append(disk, Unreported)
      /\ UNCHANGED <<mode, bound, file, results, labels, legsOk, exit, finalized>>
  BY DEF Preflight, chosen
<1>2. exit' = "none" BY <1>1 DEF ControlInv
<1>3. ~ Judged' /\ ~ Reported' /\ ~ Shown' BY <1>1, <1>2 DEF Judged, Reported, Shown, Concluded
<1>4. disk \in Seq(Batch) /\ Len(disk) \in Nat BY LenProperties DEF DiskInv
<1>5. Unreported \in Batch BY EmptySeq DEF Unreported, Batch
<1>6. /\ disk' \in Seq(Batch) /\ Len(disk') = Len(disk) + 1
      /\ disk'[Len(disk) + 1] = Unreported
      /\ \A k \in 1 .. Len(disk) : disk'[k] = disk[k]
  BY <1>1, <1>4, <1>5, AppendProperties
<1>7. ControlInv' BY <1>1 DEF ControlInv
<1>8. ResultsInv' BY <1>1, <1>3 DEF ResultsInv
<1>9. LabelsInv' BY <1>1, <1>3 DEF LabelsInv
<1>10. DiskInv'
  <2>1. Len(disk') <= MaxChecks BY <1>1, <1>4, <1>6, EntriesFacts DEF DiskInv
  <2>2. disk' # <<>> BY <1>4, <1>6, EmptySeq
  <2>3. ASSUME NEW k \in 1 .. Len(disk')
        PROVE  disk'[k].report = "none" => ~ disk'[k].html /\ disk'[k].rows = <<>>
    <3>1. CASE k = Len(disk) + 1 BY <1>6, <3>1 DEF Unreported
    <3>2. CASE k \in 1 .. Len(disk) BY <1>6, <3>2 DEF DiskInv
    <3> QED BY <1>4, <1>6, <3>1, <3>2
  <2> QED BY <1>1, <1>3, <1>6, <2>1, <2>2, <2>3 DEF DiskInv
<1>11. ReportInv' BY <1>1, <1>3 DEF ReportInv
<1>12. FinalizedInv'
  <2>1. FinalizedOf(Len(disk)) BY <1>1 DEF FinalizedInv
  <2>2. Len(disk') - 1 = Len(disk) BY <1>4, <1>6
  <2>3. FinalizedOf(Len(disk) - 1)' BY <1>1, <1>6, <2>1, <2>2 DEF FinalizedOf
  <2> QED BY <1>1, <1>3, <2>3 DEF FinalizedInv
<1>13. SteadyMeansUnchanged' BY <1>1 DEF SteadyMeansUnchanged, ResultsInv
<1> QED BY <1>7, <1>8, <1>9, <1>10, <1>11, <1>12, <1>13

(* What a check writes is in its own batch.                                  *)
LEMMA WriteKeeps ==
  ASSUME CheckInv, Judged, Judged', ControlInv',
         UNCHANGED <<file, results, labels, finalized>>,
         pc' # "preflight", pc' # "idle", pc' # "cases",
         NEW batch \in Batch, batch.report # "none",
         disk' = [disk EXCEPT ![Len(disk)] = batch],
         ReportInv'
  PROVE  CheckInv'
<1> USE DEF CheckInv
<1>1. disk \in Seq(Batch) /\ Len(disk) \in Nat /\ Len(disk) # 0
  BY LenProperties, EmptySeq DEF DiskInv
<1>2. /\ disk' \in Seq(Batch) /\ Len(disk') = Len(disk)
      /\ disk'[Len(disk)] = batch
      /\ \A k \in 1 .. Len(disk) : k # Len(disk) => disk'[k] = disk[k]
  BY <1>1, ExceptSeq
<1>3. \A k \in 1 .. Len(disk) - 1 : disk'[k] = disk[k]
  <2> TAKE k \in 1 .. Len(disk) - 1
  <2>1. k \in 1 .. Len(disk) /\ k # Len(disk) BY <1>1
  <2> QED BY <1>2, <2>1
<1>4. ResultsInv' BY DEF ResultsInv
<1>5. LabelsInv' BY DEF LabelsInv, LabelFits, Expected
<1>6. DiskInv'
  <2>1. disk' # <<>> BY <1>1, <1>2, EmptySeq
  <2> QED BY <1>2, <2>1 DEF DiskInv
<1>7. FinalizedInv'
  <2>1. FinalizedOf(Len(disk) - 1) BY DEF FinalizedInv
  <2>2. FinalizedOf(Len(disk) - 1)' BY <1>2, <1>3, <2>1 DEF FinalizedOf
  <2> QED BY <2>2 DEF FinalizedInv
<1>8. SteadyMeansUnchanged' BY DEF SteadyMeansUnchanged, RowOf, NoRow
<1> QED BY <1>4, <1>5, <1>6, <1>7, <1>8

LEMMA LastBatch ==
  ASSUME CheckInv, Judged
  PROVE  /\ disk \in Seq(Batch) /\ Len(disk) \in 1 .. Len(disk)
         /\ disk[Len(disk)] \in Batch
<1>1. disk \in Seq(Batch) /\ disk # <<>> BY DEF CheckInv, DiskInv
<1>2. Len(disk) \in 1 .. Len(disk) BY <1>1, LenProperties, EmptySeq
<1> QED BY <1>1, <1>2, ElementOfSeq

LEMMA WriteBeginsKeeps == CheckInv /\ WriteBegins => CheckInv'
<1> SUFFICES ASSUME CheckInv, WriteBegins PROVE CheckInv' OBVIOUS
<1> DEFINE batch == [disk[Len(disk)] EXCEPT !.report = "torn"]
<1>1. Judged /\ Judged' /\ ~ Reported' /\ (Shown' => Shown) /\ exit' = "none"
  BY DEF WriteBegins, CheckInv, ControlInv, Judged, Reported, Shown, Concluded
<1>2. batch \in Batch /\ batch.report = "torn" /\ batch.html = disk[Len(disk)].html
  BY <1>1, LastBatch DEF Batch
<1>3. disk' = [disk EXCEPT ![Len(disk)] = batch] BY DEF WriteBegins, Latest
<1> HIDE DEF batch
<1>4. Len(disk') = Len(disk) /\ disk'[Len(disk)] = batch
  BY <1>1, <1>2, <1>3, LastBatch, ExceptSeq
<1>5. ControlInv' BY DEF WriteBegins, CheckInv, ControlInv, chosen
<1>6. ReportInv' BY <1>1, <1>2, <1>4 DEF CheckInv, ReportInv
<1>7. UNCHANGED <<file, results, labels, finalized>>
      /\ pc' # "preflight" /\ pc' # "idle" /\ pc' # "cases"
  BY DEF WriteBegins, chosen
<1> QED BY <1>1, <1>2, <1>3, <1>5, <1>6, <1>7, WriteKeeps

LEMMA WriteEndsKeeps == CheckInv /\ WriteEnds => CheckInv'
<1> SUFFICES ASSUME CheckInv, WriteEnds PROVE CheckInv' OBVIOUS
<1> DEFINE batch == [disk[Len(disk)] EXCEPT !.report = "whole", !.rows = results]
<1>1. Judged /\ Judged' /\ (Shown' => Shown) /\ pc' \in {"html", "legs"} /\ exit' = "none"
  BY DEF WriteEnds, CheckInv, ControlInv, Judged, Shown, Concluded
<1>2. /\ batch \in Batch /\ batch.report = "whole" /\ batch.rows = results
      /\ batch.html = disk[Len(disk)].html
  BY <1>1, LastBatch DEF Batch, CheckInv, ResultsInv
<1>3. disk' = [disk EXCEPT ![Len(disk)] = batch]
  <2>1. disk' = [disk EXCEPT ![Len(disk)].report = "whole", ![Len(disk)].rows = results]
    BY DEF WriteEnds, Latest
  <2> QED BY <1>1, <2>1, LastBatch
<1> HIDE DEF batch
<1>4. Len(disk') = Len(disk) /\ disk'[Len(disk)] = batch
  BY <1>1, <1>2, <1>3, LastBatch, ExceptSeq
<1>5. ControlInv' BY DEF WriteEnds, CheckInv, ControlInv, chosen
<1>6. UNCHANGED <<file, results, labels, finalized>> BY DEF WriteEnds, chosen
<1>7. ReportInv' BY <1>1, <1>2, <1>4, <1>6 DEF CheckInv, ReportInv
<1> QED BY <1>1, <1>2, <1>3, <1>5, <1>6, <1>7, WriteKeeps

LEMMA WriteHtmlKeeps == CheckInv /\ WriteHtml => CheckInv'
<1> SUFFICES ASSUME CheckInv, WriteHtml PROVE CheckInv' OBVIOUS
<1> DEFINE batch == [disk[Len(disk)] EXCEPT !.html = TRUE]
<1>1. Judged /\ Judged' /\ Reported /\ pc' \in {"rewrite", "legs"} /\ exit' = "none"
  BY DEF WriteHtml, CheckInv, ControlInv, Judged, Reported, Concluded
<1>2. /\ batch \in Batch /\ batch.html = TRUE /\ batch.rows = disk[Len(disk)].rows
      /\ batch.report = disk[Len(disk)].report
  BY <1>1, LastBatch DEF Batch
<1>3. disk' = [disk EXCEPT ![Len(disk)] = batch] BY DEF WriteHtml, Latest
<1> HIDE DEF batch
<1>4. Len(disk') = Len(disk) /\ disk'[Len(disk)] = batch
  BY <1>1, <1>2, <1>3, LastBatch, ExceptSeq
<1>5. ControlInv' BY <1>1 DEF WriteHtml, CheckInv, ControlInv, chosen
<1>6. UNCHANGED <<file, results, labels, finalized>> BY DEF WriteHtml, chosen
<1>7. disk[Len(disk)].report = "whole" /\ disk[Len(disk)].rows = results
  BY <1>1 DEF CheckInv, ReportInv
<1>8. ReportInv' BY <1>1, <1>2, <1>4, <1>6, <1>7 DEF ReportInv
<1> QED BY <1>1, <1>2, <1>3, <1>5, <1>6, <1>7, <1>8, WriteKeeps

-----------------------------------------------------------------------------
(* The labels                                                              *)

(* A set of numbers that is bounded has a largest one.                      *)
LEMMA LargestOf ==
  ASSUME NEW n \in Nat, NEW S, S \subseteq 1 .. n, S # {}
  PROVE  \E k \in S : \A j \in S : j <= k
<1> DEFINE R == OpToRel(<, Nat)
           T == {n - k : k \in S}
<1>1. IsWellFoundedOn(R, Nat) BY NatLessThanWellFounded
<1>2. \A i, j \in Nat : i < j => <<i, j>> \in R BY DEF OpToRel
<1>3. T \subseteq Nat /\ T # {}
  <2>1. \A k \in S : n - k \in Nat OBVIOUS
  <2> QED BY <2>1
<1> HIDE DEF R
<1>4. PICK i \in T : \A j \in T : <<j, i>> \notin R BY <1>1, <1>3, WFMin
<1>5. PICK k \in S : i = n - k OBVIOUS
<1>6. ASSUME NEW j \in S PROVE j <= k
  <2>1. n - j \in T /\ n - j \in Nat /\ i \in Nat BY <1>3
  <2>2. <<n - j, i>> \notin R BY <1>4, <2>1
  <2>3. ~ (n - j < i) BY <1>2, <2>1, <2>2
  <2>4. j \in 1 .. n /\ k \in 1 .. n OBVIOUS
  <2> QED BY <1>5, <2>3, <2>4
<1> QED BY <1>6

(* The batch the labels compare with is the newest report, so if it can be   *)
(* read it is the one finalized is of.                                      *)
LEMMA PriorIsFinalized ==
  ASSUME CheckInv, pc = "cases",
         NewestEarlier # 0 => disk[NewestEarlier].report = "whole"
  PROVE  IF NewestEarlier = 0 THEN finalized = <<>> ELSE finalized = disk[NewestEarlier].rows
<1>1. FinalizedOf(Len(disk) - 1) BY DEF CheckInv, FinalizedInv
<1>2. disk \in Seq(Batch) /\ Len(disk) \in Nat /\ Len(disk) # 0
  BY LenProperties, EmptySeq DEF CheckInv, DiskInv
<1>3. CASE Earlier = {}
  <2>1. \A k \in 1 .. Len(disk) - 1 : disk[k].report # "whole" BY <1>3 DEF Earlier
  <2> QED BY <1>1, <1>3, <2>1 DEF FinalizedOf, NewestEarlier
<1>4. CASE Earlier # {}
  <2>1. Earlier \subseteq 1 .. Len(disk) - 1 /\ Len(disk) - 1 \in Nat BY <1>2 DEF Earlier
  <2>2. \E k \in Earlier : \A j \in Earlier : j <= k BY <1>4, <2>1, LargestOf
  <2>3. NewestEarlier = CHOOSE k \in Earlier : \A j \in Earlier : j <= k
    BY <1>4 DEF NewestEarlier
  <2>4. NewestEarlier \in Earlier /\ \A j \in Earlier : j <= NewestEarlier BY <2>2, <2>3
  <2>5. NewestEarlier \in 1 .. Len(disk) - 1 /\ NewestEarlier # 0 BY <2>1, <2>4
  <2>6. disk[NewestEarlier].report = "whole" BY <2>5
  <2>7. PICK k \in 1 .. Len(disk) - 1 :
          /\ disk[k].report = "whole" /\ finalized = disk[k].rows
          /\ \A j \in 1 .. Len(disk) - 1 : disk[j].report = "whole" => j <= k
    BY <1>1, <2>5, <2>6 DEF FinalizedOf
  <2>8. k \in Earlier BY <2>7 DEF Earlier
  <2>9. k <= NewestEarlier /\ NewestEarlier <= k BY <2>4, <2>5, <2>6, <2>7, <2>8
  <2>10. k = NewestEarlier BY <2>5, <2>9
  <2> QED BY <2>5, <2>7, <2>10
<1> QED BY <1>3, <1>4

(* The row of a case, when no other case has its name.                      *)
LEMMA RowOfResults ==
  ASSUME CheckInv, NEW k \in DOMAIN results
  PROVE  /\ RowOf(results, results[k].name) =
              [status |-> results[k].status, reason |-> results[k].reason]
         /\ (CHOOSE r \in Range(results) : r.name = results[k].name) = results[k]
<1>1. DOMAIN results = 1 .. Len(results) /\ Len(results) \in Nat
  BY LenProperties DEF CheckInv, ResultsInv
<1>2. \A j \in DOMAIN results : results[j].name = results[k].name => j = k
  <2> SUFFICES ASSUME NEW j \in DOMAIN results, results[j].name = results[k].name PROVE j = k
    OBVIOUS
  <2>1. results[j].name = Entries[j].name /\ results[k].name = Entries[k].name
    BY <1>1 DEF CheckInv, ResultsInv
  <2>2. Len(results) <= Len(Entries) BY DEF CheckInv, ResultsInv
  <2>3. j \in 1 .. Len(Entries) /\ k \in 1 .. Len(Entries) BY <1>1, <2>2, EntriesFacts
  <2> QED BY <2>1, <2>3, EntriesFacts
<1>3. (CHOOSE j \in DOMAIN results : results[j].name = results[k].name) = k BY <1>2
<1>4. \A r \in Range(results) : r.name = results[k].name => r = results[k] BY <1>2 DEF Range
<1>5. results[k] \in Range(results) BY DEF Range
<1> QED BY <1>3, <1>4, <1>5 DEF RowOf

(* A label that does not fail the check, or is STEADY, and what it says.     *)
LEMMA ClassifyFacts ==
  ASSUME NEW row, NEW prior
  PROVE  /\ Classify(row, prior) \notin FailingLabels =>
              /\ row.name \in DOMAIN file.expects
              /\ file.expects[row.name] # "unclassified"
              /\ file.expects[row.name] = "supported" => row.status # "failed"
         /\ Classify(row, prior) = "STEADY" =>
              prior \in {NoRow, [status |-> row.status, reason |-> row.reason]}
<1>1. CASE row.name \notin DOMAIN file.expects
  BY <1>1 DEF Classify, FailingLabels
<1>2. CASE row.name \in DOMAIN file.expects /\ file.expects[row.name] = "unclassified"
  BY <1>2 DEF Classify, FailingLabels
<1>3. CASE row.name \in DOMAIN file.expects /\ file.expects[row.name] = "supported"
  BY <1>3 DEF Classify, FailingLabels, Compared
<1>4. CASE row.name \in DOMAIN file.expects
           /\ file.expects[row.name] \notin {"unclassified", "supported"}
  BY <1>4 DEF Classify, FailingLabels, Compared
<1> QED BY <1>1, <1>2, <1>3, <1>4

LEMMA JudgeKeeps == CheckInv /\ Judge => CheckInv'
<1> SUFFICES ASSUME CheckInv, Judge PROVE CheckInv' OBVIOUS
<1> USE DEF CheckInv
<1> DEFINE prior(name) == IF NewestEarlier = 0 THEN NoRow
                          ELSE RowOf(disk[NewestEarlier].rows, name)
<1>1. /\ pc = "cases" /\ pc' = "report" /\ Len(results) = Len(Entries) /\ file.state = "valid"
      /\ NewestEarlier # 0 => disk[NewestEarlier].report = "whole"
      /\ UNCHANGED <<mode, bound, file, results, legsOk, exit, disk, finalized>>
  BY DEF Judge, CasesDone, chosen
<1>2. exit = "none" /\ exit' = "none" BY <1>1 DEF ControlInv
<1>3. Judged' /\ ~ Reported' /\ ~ Shown' /\ ~ Judged
  BY <1>1, <1>2 DEF Judged, Reported, Shown, Concluded
<1>4. DOMAIN results = 1 .. Len(results) BY LenProperties DEF ResultsInv
<1>5. labels' = [name \in {results[k].name : k \in DOMAIN results} |->
        Classify(CHOOSE r \in Range(results) : r.name = name, prior(name))]
  BY DEF Judge
<1>6. \A name : RowOf(finalized, name) = prior(name)
  <2>1. DOMAIN <<>> = {} OBVIOUS
  <2>2. \A name : RowOf(<<>>, name) = NoRow BY <2>1 DEF RowOf
  <2> QED BY <1>1, <2>2, PriorIsFinalized
<1> HIDE DEF prior
<1>7. ASSUME NEW k \in DOMAIN results
      PROVE  /\ results[k].name \in DOMAIN labels'
             /\ labels'[results[k].name] = Classify(results[k], prior(results[k].name))
  BY <1>5, RowOfResults
<1>8. ControlInv' BY <1>1 DEF ControlInv
<1>9. ResultsInv' BY <1>1, <1>3 DEF ResultsInv
<1>10. LabelsInv'
  <2>1. ASSUME NEW k \in DOMAIN results PROVE LabelFits(k)'
    <3>1. labels'[results[k].name] \notin FailingLabels =>
            /\ results[k].name \in DOMAIN file.expects
            /\ file.expects[results[k].name] # "unclassified"
            /\ file.expects[results[k].name] = "supported" => results[k].status # "failed"
      BY <1>7, ClassifyFacts
    <3>2. (results[k].name \in DOMAIN file.expects) => file.expects[results[k].name] # "none"
      <4>1. file \in ExpectationFiles BY DEF ControlInv
      <4>2. Range(file.expects) \subseteq Statuses BY <4>1, CheckAssumption DEF ValidFile
      <4> QED BY <4>2 DEF Range, Statuses
    <3> QED BY <1>1, <3>1, <3>2 DEF LabelFits, Expected
  <2> QED BY <1>1, <1>3, <1>4, <1>7, <2>1 DEF LabelsInv
<1>11. DiskInv' BY <1>1, <1>3 DEF DiskInv
<1>12. ReportInv' BY <1>1, <1>3 DEF ReportInv
<1>13. FinalizedInv' BY <1>1, <1>3 DEF FinalizedInv, FinalizedOf
<1>14. SteadyMeansUnchanged'
  <2>1. ASSUME NEW k \in DOMAIN results, labels'[results[k].name] = "STEADY"
        PROVE  RowOf(finalized, results[k].name) \in {NoRow, RowOf(results, results[k].name)}
    <3>1. prior(results[k].name) \in
            {NoRow, [status |-> results[k].status, reason |-> results[k].reason]}
      BY <1>7, <2>1, ClassifyFacts
    <3> QED BY <1>6, <3>1, RowOfResults
  <2> QED BY <1>1, <2>1 DEF SteadyMeansUnchanged, RowOf, NoRow
<1> QED BY <1>8, <1>9, <1>10, <1>11, <1>12, <1>13, <1>14

LEMMA JudgeWithoutFileKeeps == CheckInv /\ JudgeWithoutFile => CheckInv'
<1> SUFFICES ASSUME CheckInv, JudgeWithoutFile PROVE CheckInv' OBVIOUS
<1> USE DEF CheckInv
<1>1. /\ pc = "cases" /\ pc' = "report" /\ Len(results) = Len(Entries)
      /\ file.state = "missing"
      /\ UNCHANGED <<mode, bound, file, results, labels, legsOk, exit, disk, finalized>>
  BY DEF JudgeWithoutFile, CasesDone, chosen
<1>2. exit = "none" /\ exit' = "none" BY <1>1 DEF ControlInv
<1>3. Judged' /\ ~ Reported' /\ ~ Shown' BY <1>1, <1>2 DEF Judged, Reported, Shown, Concluded
<1>4. ControlInv' BY <1>1 DEF ControlInv
<1>5. ResultsInv' BY <1>1, <1>3 DEF ResultsInv
<1>6. LabelsInv' BY <1>1, <1>3 DEF LabelsInv
<1>7. DiskInv' BY <1>1, <1>3 DEF DiskInv
<1>8. ReportInv' BY <1>1, <1>3 DEF ReportInv
<1>9. FinalizedInv' BY <1>1, <1>3 DEF FinalizedInv, FinalizedOf
<1>10. SteadyMeansUnchanged' BY <1>1 DEF SteadyMeansUnchanged, RowOf, NoRow
<1> QED BY <1>4, <1>5, <1>6, <1>7, <1>8, <1>9, <1>10

-----------------------------------------------------------------------------
(* The exit code                                                           *)

ExitInv == ExitZeroMeansNoRegression

(* An exit code of 0 is given once, by the last step of a check.             *)
LEMMA FinishExits == CheckInv /\ Finish => ExitInv'
<1> SUFFICES ASSUME CheckInv, Finish, exit' = "zero" PROVE ExitInv'
  BY DEF ExitInv, ExitZeroMeansNoRegression
<1>1. /\ ExitCode = "zero" /\ pc = "exit"
      /\ UNCHANGED <<mode, bound, file, results, labels, legsOk>>
  BY DEF Finish, End, chosen
<1>2. Judged BY <1>1 DEF Judged
<1>3. DOMAIN results = DOMAIN Entries /\ DOMAIN results = 1 .. Len(results)
  BY <1>2, EntriesFacts, LenProperties DEF CheckInv, ResultsInv
<1>4. legsOk /\ Some({"passed", "failed"}) BY <1>1 DEF ExitCode
<1>5. mode = "release" => ~ Some({"failed"}) BY <1>1 DEF ExitCode
<1>6. labels = <<>> => ~ Some({"failed"}) BY <1>1 DEF ExitCode
<1>7. labels # <<>> => Range(labels) \cap FailingLabels = {} BY <1>1 DEF ExitCode
<1>8. file.state = "missing" => ~ Some({"failed"})
  BY <1>2, <1>6 DEF CheckInv, LabelsInv
<1>9. ASSUME file.state = "valid", NEW k \in DOMAIN results
      PROVE  /\ Expected(k) \notin {"none", "unclassified"}
             /\ Expected(k) = "supported" => results[k].status # "failed"
  <2>1. results[k].name \in DOMAIN labels /\ LabelFits(k)
    BY <1>2, <1>3, <1>9 DEF CheckInv, LabelsInv
  <2>2. labels # <<>>
    <3>1. DOMAIN <<>> = {} OBVIOUS
    <3> QED BY <2>1, <3>1
  <2>3. labels[results[k].name] \in Range(labels) BY <2>1 DEF Range
  <2> QED BY <1>7, <2>1, <2>2, <2>3 DEF LabelFits
<1>10. UNCHANGED <<Some({"passed", "failed"}), Some({"failed"})>> BY <1>1 DEF Some
<1>11. \A k \in DOMAIN results : Expected(k)' = Expected(k) BY <1>1 DEF Expected
<1> QED BY <1>1, <1>3, <1>4, <1>5, <1>8, <1>9, <1>10, <1>11
    DEF ExitInv, ExitZeroMeansNoRegression

LEMMA CheckStep ==
  ASSUME CheckInv, ExitInv, [Next]_vars
  PROVE  CheckInv' /\ ExitInv'
<1>1. ASSUME CheckInv', exit' # "zero" PROVE CheckInv' /\ ExitInv'
  BY <1>1 DEF ExitInv, ExitZeroMeansNoRegression
<1>2. CASE UNCHANGED vars
  BY <1>2 DEF vars, CheckInv, ControlInv, ResultsInv, LabelsInv, LabelFits, Expected, DiskInv,
     ReportInv, FinalizedInv, FinalizedOf, SteadyMeansUnchanged, RowOf, NoRow, Judged, Reported,
     Shown, Concluded, ExitInv, ExitZeroMeansNoRegression, Some
<1>3. pc # "ended" => exit = "none" BY DEF CheckInv, ControlInv
<1>4. CASE Begin BY <1>1, <1>4, BeginKeeps DEF Begin
<1>5. CASE Refuse BY <1>1, <1>5, EndKeeps DEF Refuse, End
<1>6. CASE Preflight BY <1>1, <1>3, <1>6, PreflightKeeps DEF Preflight
<1>7. ASSUME CaseIsOpen, NEW row, Add(row),
             row.status \in {"passed", "failed", "blocked", "completed"},
             row.reason \in Reasons \cup {"no-psbt", "psbt-missing"}
      PROVE  CheckInv' /\ ExitInv'
  BY <1>1, <1>3, <1>7, RowAdded DEF CaseIsOpen, Add
<1>8. CASE BlockedCase BY <1>7, <1>8 DEF BlockedCase
<1>9. CASE MissingPsbt BY <1>7, <1>9 DEF MissingPsbt
<1>10. CASE RunCase
  <2>1. PICK repaired \in (IF Case.scenario.policy = "combiner" THEN BOOLEAN ELSE {FALSE}),
             records \in [Attached(Case) -> {"passed", "short", "failed"}],
             lab \in (IF mode = "release" /\ Case.scenario.suite = "bip375"
                        THEN LabStatuses ELSE {"not-run"}) :
          Add(RunRow(Case.scenario, Case.generated, mode = "release", repaired, records, lab))
    BY <1>10 DEF RunCase
  <2> DEFINE row ==
        RunRow(Case.scenario, Case.generated, mode = "release", repaired, records, lab)
  <2>2. row.status \in {"passed", "failed", "completed"} /\ row.reason \in Reasons
    BY RunRowType
  <2>3. CaseIsOpen /\ Add(row) BY <1>10, <2>1 DEF RunCase
  <2> HIDE DEF row
  <2> QED BY <1>7, <2>2, <2>3
<1>11. CASE FailCase
  <2>1. FailedRow.status = "failed" /\ FailedRow.reason \in Reasons BY DEF FailedRow, Reasons
  <2> QED BY <1>7, <1>11, <2>1 DEF FailCase
<1>12. CASE CrashCase BY <1>1, <1>12, EndKeeps DEF CrashCase, End
<1>13. CASE Judge BY <1>1, <1>3, <1>13, JudgeKeeps DEF Judge, CasesDone
<1>14. CASE JudgeWithoutFile
  BY <1>1, <1>3, <1>14, JudgeWithoutFileKeeps DEF JudgeWithoutFile, CasesDone
<1>15. CASE JudgeRefused BY <1>1, <1>15, EndKeeps DEF JudgeRefused, End
<1>16. CASE JudgeCrashes BY <1>1, <1>16, EndKeeps DEF JudgeCrashes, End
<1>17. CASE WriteBegins BY <1>1, <1>3, <1>17, WriteBeginsKeeps DEF WriteBegins
<1>18. CASE WriteEnds BY <1>1, <1>3, <1>18, WriteEndsKeeps DEF WriteEnds
<1>19. CASE WriteHtml BY <1>1, <1>3, <1>19, WriteHtmlKeeps DEF WriteHtml
<1>20. CASE RunLegs BY <1>1, <1>3, <1>20, RunLegsKeeps DEF RunLegs
<1>21. CASE LegsMissing BY <1>1, <1>21, EndKeeps DEF LegsMissing, End
<1>22. CASE Finish BY <1>22, FinishKeeps, FinishExits
<1>23. CASE Kill BY <1>1, <1>23, KillKeeps DEF Kill, End
<1> QED
  BY <1>2, <1>4, <1>5, <1>6, <1>8, <1>9, <1>10, <1>11, <1>12, <1>13, <1>14, <1>15, <1>16,
     <1>17, <1>18, <1>19, <1>20, <1>21, <1>22, <1>23 DEF Next

-----------------------------------------------------------------------------
(* The theorems                                                            *)

LEMMA CheckIsInvariant == Spec => [](CheckInv /\ ExitInv)
<1>1. Init => CheckInv /\ ExitInv
  BY CheckStarts DEF Init, ExitInv, ExitZeroMeansNoRegression
<1>2. CheckInv /\ ExitInv /\ [Next]_vars => (CheckInv /\ ExitInv)' BY CheckStep
<1> QED BY <1>1, <1>2, PTL DEF Spec

(* Every variable keeps its type over any number of checks: main, BatchRun   *)
(* and regression.py.                                                       *)
THEOREM CheckTypeCorrect == Spec => []TypeOK
<1>1. CheckInv => TypeOK
  <2> SUFFICES ASSUME CheckInv PROVE TypeOK OBVIOUS
  <2>1. DOMAIN results = 1 .. Len(results) BY LenProperties DEF CheckInv, ResultsInv
  <2>2. ASSUME NEW k \in DOMAIN results
        PROVE  /\ results[k].name = Entries[k].name
               /\ results[k].status \in {"passed", "failed", "blocked", "completed"}
               /\ results[k].reason \in Reasons \cup {"no-psbt", "psbt-missing"}
    <3>1. results[k] \in RowType BY <2>1, ElementOfSeq DEF CheckInv, ResultsInv
    <3> QED BY <2>1, <3>1 DEF RowType, CheckInv, ResultsInv
  <2> QED BY <2>2 DEF TypeOK, Latest, CheckInv, ControlInv, LabelsInv, DiskInv, ReportInv
<1> QED BY <1>1, CheckIsInvariant, PTL

(* An exit code of 0 says that something was verified, that no supported     *)
(* case failed and none is unclassified or new, and of a release that        *)
(* nothing failed, however many batches, torn or whole, are on disk: main's  *)
(* last decision.  Supported cases that were blocked and findings that       *)
(* passed are let through.                                                  *)
THEOREM ExitZeroHidesNoRegression == Spec => []ExitZeroMeansNoRegression
BY CheckIsInvariant, PTL DEF ExitInv

(* STEADY compares with the newest report that was finished before the       *)
(* check, whatever was refused, crashed or killed since: label_results and   *)
(* previous_results.                                                        *)
THEOREM SteadyIsUnchanged == Spec => []SteadyMeansUnchanged
BY CheckIsInvariant, PTL DEF CheckInv

(* A check that ends with 0 or 1 has written both reports, of the rows its   *)
(* exit code was made of: BatchRun.finalize and main.                       *)
THEOREM ExitIsReported == Spec => []ExitHasReport
<1>1. CheckInv => ExitHasReport
  <2> SUFFICES ASSUME CheckInv, exit \in {"zero", "one"}
               PROVE  disk[Latest] = [report |-> "whole", html |-> TRUE, rows |-> results]
    BY DEF ExitHasReport
  <2>1. Judged /\ Reported /\ Shown BY DEF Judged, Reported, Shown, Concluded
  <2>2. /\ disk[Len(disk)].report = "whole" /\ disk[Len(disk)].rows = results
        /\ disk[Len(disk)].html
    BY <2>1 DEF CheckInv, ReportInv
  <2>3. disk[Len(disk)] \in Batch BY <2>1, LastBatch
  <2> QED BY <2>2, <2>3 DEF Batch, Latest
<1> QED BY <1>1, CheckIsInvariant, PTL

=============================================================================
