--------------------------- MODULE ScenarioProofs ---------------------------
(***************************************************************************)
(* Theorems about ScenarioRun: what a run says is what it earned, and it   *)
(* leaves no worker and always a manifest, for any scenarios, signers and  *)
(* number of interrupts.                                                   *)
(***************************************************************************)
EXTENDS ScenarioRun, FiniteSetTheorems, SequenceTheorems, TLAPS

-----------------------------------------------------------------------------
(* The inductive invariant                                                   *)

(* The workers dict is filled in the order of the scenario's signers.        *)
HeldInv ==
  /\ Len(held) <= Len(sc.signers) /\ \A k \in 1 .. Len(held) : held[k] = sc.signers[k]
  /\ pc = "record" => Len(held) < Len(sc.signers)

(* Which worker may be up: the ones held, and the one that start() returned  *)
(* just now.  An interrupt at the wrong point breaks this, no other does.    *)
WorkerInv ==
  interrupted \cap {"record", "unwind", "cleanup"} = {} =>
    /\ \A s \in Signers :
         worker[s] = "up" => s \in Range(held) \/ (pc = "record" /\ s = NextSigner)
    /\ pc = "ended" => \A s \in Signers : worker[s] # "up"

(* Where something is being raised.                                          *)
RaiseInv ==
  /\ pc \in Stages \cup {"record"} => raised = "nothing"
  /\ pc = "unwind" => raised # "nothing"
  /\ interrupted = {} => raised # "interrupt"

(* What the verification of a scenario amounts to, once it was passed.       *)
VerificationOf(s) ==
  CASE s.suite # "bip375" -> "none"
    [] ~ s.intent         -> "consistency"
    [] OTHER              -> s.verification

(* The results of the stages are there in their order, and stay.             *)
ResultInv ==
  /\ pc \in {"validate", "start", "record", "unwind", "prepare", "rounds", "verify",
             "validators"} => records = <<>>
  /\ pc \in {"validate", "start", "record", "unwind", "prepare", "rounds", "verify",
             "validators", "lab"} => lab = "not-run"
  /\ pc \in {"validators", "lab", "finalize"} => verified = VerificationOf(sc)
  /\ lab # "not-run" => verified = VerificationOf(sc)

(* A manifest is written once, with the claim of what is there.              *)
ManifestInv ==
  /\ pc \notin {"cleanup", "ended"} => manifest = NoManifest
  /\ manifest = NoManifest \/
       /\ manifest.written
       /\ manifest.scope = ManifestClaim(sc, repaired, records, lab).scope
  /\ pc \in {"cleanup", "ended"} =>
       /\ raised = "nothing" => manifest.written
       /\ interrupted = {} => manifest.written /\ (manifest.failed <=> raised # "nothing")

RunInv == TypeOK /\ HeldInv /\ WorkerInv /\ RaiseInv /\ ResultInv /\ ManifestInv

-----------------------------------------------------------------------------
(* The claims                                                                *)

LEMMA ScenarioTyped ==
  ASSUME NEW s \in Scenarios
  PROVE  /\ s.suite \in Suites /\ s.verification \in Levels /\ s.policy \in Policies
         /\ s.intent \in BOOLEAN /\ s.generated \in BOOLEAN
         /\ s.signers \in Seq(Signers) /\ s.signers # <<>> /\ IsInjective(s.signers)
         /\ s.validators \in Seq(KnownValidators) /\ IsInjective(s.validators)
<1>1. ValidScenario(s) BY RunAssumption
<1>2. Range(s.signers) \subseteq Signers BY DEF Signers
<1>3. s.signers \in Seq(Signers) BY <1>1, <1>2, SeqMonotonic DEF ValidScenario
<1> QED BY <1>1, <1>3 DEF ValidScenario

LEMMA ClaimTyped ==
  ASSUME NEW s, NEW rep, NEW recs, NEW l
  PROVE  /\ ManifestClaim(s, rep, recs, l).scope \in Scopes
         /\ ManifestClaim(s, rep, recs, l).reason \in Reasons
BY DEF ManifestClaim, RunClaim, Claim, SkippedReason, Scopes, Reasons

(* What a manifest that says evidence rests on, at the time it is written.   *)
LEMMA EvidenceClaim ==
  ASSUME NEW s, NEW rep, NEW recs, NEW l,
         ManifestClaim(s, rep, recs, l).scope = "evidence"
  PROVE  /\ AllPassed(recs) /\ l = "passed"
         /\ s.suite = "bip375" /\ s.intent /\ s.verification # "structural" /\ ~ rep
BY DEF ManifestClaim, RunClaim, Claim, EvidenceEarned, NotEvidence

(* A row that says passed and a manifest are made of the same claim.         *)
LEMMA PassedRowIsEvidence ==
  ASSUME NEW s, NEW gen, NEW rel, NEW rep, NEW recs, NEW l,
         RunRow(s, gen, rel, rep, recs, l).status = "passed"
  PROVE  ManifestClaim(s, rep, recs, l).scope = "evidence"
<1>1. ManifestClaim(s, rep, recs, l).scope # "not-evidence"
  BY DEF RunRow
<1>2. RunClaim(s, rep, gen).status = "passed"
  BY DEF RunRow
<1>3. RunClaim(s, rep, TRUE).scope = "none"
  BY <1>2 DEF RunClaim, Claim
<1> QED BY <1>1, <1>3 DEF ManifestClaim

-----------------------------------------------------------------------------
LEMMA RunStart == Init => RunInv
<1> SUFFICES ASSUME Init PROVE RunInv OBVIOUS
<1> USE DEF Init, Stages
<1>1. <<>> \in Records
  <2>1. <<>> \in [{} -> {"passed", "short", "failed"}] OBVIOUS
  <2> QED BY <2>1 DEF Records
<1>2. IsInjective(<<>>) BY DEF IsInjective
<1>3. NoManifest \in [failed : BOOLEAN, scope : Scopes, reason : Reasons, written : BOOLEAN]
  BY DEF NoManifest, Scopes, Reasons
<1>4. TypeOK BY <1>1, <1>2, <1>3, EmptySeq DEF TypeOK, LabStatuses
<1>5. HeldInv
  <2>1. Len(sc.signers) \in Nat BY ScenarioTyped, LenProperties
  <2> QED BY <2>1 DEF HeldInv
<1>6. WorkerInv /\ RaiseInv /\ ResultInv BY DEF WorkerInv, RaiseInv, ResultInv
<1>7. ManifestInv BY DEF ManifestInv
<1> QED BY <1>4, <1>5, <1>6, <1>7 DEF RunInv

(* The held worker that is stopped; no other comes up.                       *)
LEMMA StopHeldStops ==
  ASSUME TypeOK, StopHeld
  PROVE  /\ worker' \in [Signers -> {"none", "up", "stopped"}]
         /\ \A s \in Signers : worker'[s] = "up" => worker[s] = "up"
<1>1. held \in [1 .. Len(held) -> Signers] BY LenProperties DEF TypeOK
<1>2. PICK k \in DOMAIN held : worker' = [worker EXCEPT ![held[k]] = "stopped"]
  BY DEF StopHeld
<1>3. held[k] \in Signers BY <1>1, <1>2
<1> QED BY <1>2, <1>3 DEF TypeOK

(* One worker more is held: the next of the scenario.                        *)
LEMMA RecordHolds ==
  ASSUME TypeOK, HeldInv, Len(held) < Len(sc.signers), held' = Append(held, NextSigner)
  PROVE  /\ held' \in Seq(Signers) /\ IsInjective(held')
         /\ Len(held') = Len(held) + 1
         /\ \A k \in 1 .. Len(held') : held'[k] = sc.signers[k]
         /\ Range(held') = Range(held) \cup {NextSigner}
<1>1. /\ sc.signers \in Seq(Signers) /\ IsInjective(sc.signers)
      /\ Len(sc.signers) \in Nat /\ DOMAIN sc.signers = 1 .. Len(sc.signers)
  BY ScenarioTyped, LenProperties DEF TypeOK
<1>2. held \in Seq(Signers) /\ Len(held) \in Nat /\ DOMAIN held = 1 .. Len(held)
  BY LenProperties DEF TypeOK
<1>3. NextSigner \in Signers BY <1>1, <1>2, ElementOfSeq DEF NextSigner
<1>4. /\ held' \in Seq(Signers) /\ Len(held') = Len(held) + 1
      /\ \A k \in 1 .. Len(held) : held'[k] = held[k]
      /\ held'[Len(held) + 1] = NextSigner
  BY <1>2, <1>3, AppendProperties
<1>5. DOMAIN held' = 1 .. Len(held) + 1 BY <1>4, LenProperties
<1>6. \A k \in 1 .. Len(held') : held'[k] = sc.signers[k]
  BY <1>2, <1>4 DEF HeldInv, NextSigner
<1>7. IsInjective(held') BY <1>1, <1>2, <1>4, <1>5, <1>6 DEF IsInjective
<1>8. Range(held') = Range(held) \cup {NextSigner}
  BY <1>2, <1>4, <1>5 DEF Range
<1> QED BY <1>4, <1>6, <1>7, <1>8

(* One validator more has a record.                                          *)
LEMMA ValidatorFinds == TypeOK /\ Validator => found' \in Records
<1> SUFFICES ASSUME TypeOK, Validator PROVE found' \in Records OBVIOUS
<1>1. sc.validators \in Seq(KnownValidators) BY ScenarioTyped DEF TypeOK
<1> DEFINE n == Cardinality(DOMAIN found)
           v == sc.validators[n + 1]
<1>2. DOMAIN found \subseteq KnownValidators BY DEF TypeOK, Records
<1>3. n \in Nat
  <2>1. IsFiniteSet({"caravan", "spdk"})
    <3>1. IsFiniteSet({"caravan"}) BY FS_Singleton
    <3>2. IsFiniteSet({"caravan"} \cup {"spdk"}) BY <3>1, FS_AddElement
    <3>3. {"caravan"} \cup {"spdk"} = {"caravan", "spdk"} OBVIOUS
    <3> QED BY <3>2, <3>3
  <2> QED BY <1>2, <2>1, FS_Subset, FS_CardinalityType DEF KnownValidators
<1>4. v \in KnownValidators
  <2>1. n < Len(sc.validators) BY DEF Validator
  <2> QED BY <1>1, <1>3, <2>1, ElementOfSeq, LenProperties
<1>5. PICK outcome \in {"passed", "short", "failed"} :
        found' = [u \in DOMAIN found \cup {v} |->
                    IF u \in DOMAIN found THEN found[u] ELSE outcome]
  BY DEF Validator
<1> HIDE DEF v
<1>6. \A u \in DOMAIN found : found[u] \in {"passed", "short", "failed"}
  BY DEF TypeOK, Records
<1>7. found' \in [DOMAIN found \cup {v} -> {"passed", "short", "failed"}]
  BY <1>5, <1>6
<1> QED BY <1>2, <1>4, <1>7 DEF Records

LEMMA WrittenTyped ==
  ASSUME NEW failed \in BOOLEAN, WriteManifest(failed)
  PROVE  /\ manifest' \in [failed : BOOLEAN, scope : Scopes, reason : Reasons,
                          written : BOOLEAN]
         /\ manifest'.written /\ manifest'.failed = failed
         /\ manifest'.scope = ManifestClaim(sc, repaired, records, lab).scope
BY ClaimTyped DEF WriteManifest

(* Every worker that may be up is held, and none of those is: none is up.    *)
LEMMA NoneUp ==
  ASSUME WorkerInv, NoneHeldUp, pc # "record",
         interrupted \cap {"record", "unwind", "cleanup"} = {}
  PROVE  \A s \in Signers : worker[s] # "up"
BY DEF WorkerInv, NoneHeldUp

LEMMA RunStep == RunInv /\ [Next]_vars => RunInv'
<1> SUFFICES ASSUME RunInv, [Next]_vars PROVE RunInv' OBVIOUS
<1> USE DEF Go, Stages, RunInv
<1>1. ASSUME Validate PROVE RunInv'
  BY <1>1 DEF Validate, TypeOK, HeldInv, WorkerInv, NextSigner, RaiseInv,
            ResultInv, ManifestInv
<1>2. ASSUME LaunchWorker PROVE RunInv'
  BY <1>2, ScenarioTyped, LenProperties, ElementOfSeq
  DEF LaunchWorker, TypeOK, HeldInv, WorkerInv, NextSigner, RaiseInv,
            ResultInv, ManifestInv
<1>3. ASSUME RecordWorker PROVE RunInv'
  <2>1. /\ held' \in Seq(Signers) /\ IsInjective(held')
        /\ Len(held') = Len(held) + 1
        /\ \A n \in 1 .. Len(held') : held'[n] = sc.signers[n]
        /\ Range(held') = Range(held) \cup {NextSigner}
    BY <1>3, RecordHolds DEF RecordWorker, HeldInv
  <2>2. Len(held) \in Nat /\ Len(sc.signers) \in Nat
    BY ScenarioTyped, LenProperties DEF TypeOK
  <2>3. TypeOK' BY <1>3, <2>1 DEF RecordWorker, TypeOK
  <2>4. HeldInv' BY <1>3, <2>1, <2>2 DEF RecordWorker, HeldInv
  <2>5. WorkerInv' BY <1>3, <2>1 DEF RecordWorker, WorkerInv, NextSigner
  <2>6. RaiseInv' /\ ResultInv' /\ ManifestInv'
    BY <1>3 DEF RecordWorker, RaiseInv, TypeOK, ResultInv, ManifestInv
  <2> QED BY <2>3, <2>4, <2>5, <2>6
<1>4. ASSUME AllStarted PROVE RunInv'
  BY <1>4 DEF AllStarted, TypeOK, HeldInv, WorkerInv, NextSigner, RaiseInv,
            ResultInv, ManifestInv
<1>5. ASSUME UnwindOne PROVE RunInv'
  <2>1. TypeOK' BY <1>5, StopHeldStops DEF UnwindOne, TypeOK
  <2>2. WorkerInv' BY <1>5, StopHeldStops DEF UnwindOne, WorkerInv
  <2>3. HeldInv' /\ RaiseInv' /\ ResultInv' /\ ManifestInv'
    BY <1>5 DEF UnwindOne, HeldInv, RaiseInv, TypeOK, ResultInv, ManifestInv
  <2> QED BY <2>1, <2>2, <2>3
<1>6. ASSUME Unwound PROVE RunInv'
  <2>1. TypeOK'
    <3>1. <<>> \in Seq(Signers) /\ IsInjective(<<>>) BY EmptySeq DEF IsInjective
    <3> QED BY <1>6, <3>1 DEF Unwound, TypeOK, RaiseInv
  <2>2. HeldInv'
    <3>1. Len(sc.signers) \in Nat BY ScenarioTyped, LenProperties DEF TypeOK
    <3> QED BY <1>6, <3>1 DEF Unwound, HeldInv
  <2>3. WorkerInv' BY <1>6, NoneUp DEF Unwound, WorkerInv
  <2>4. RaiseInv' /\ ResultInv' /\ ManifestInv'
    BY <1>6 DEF Unwound, RaiseInv, TypeOK, ResultInv, ManifestInv
  <2> QED BY <2>1, <2>2, <2>3, <2>4
<1>7. ASSUME Prepare PROVE RunInv'
  BY <1>7 DEF Prepare, TypeOK, HeldInv, WorkerInv, NextSigner, RaiseInv,
            ResultInv, ManifestInv
<1>8. ASSUME RunRounds PROVE RunInv'
  BY <1>8 DEF RunRounds, TypeOK, HeldInv, WorkerInv, NextSigner, RaiseInv,
            ResultInv, ManifestInv
<1>9. ASSUME Verify PROVE RunInv'
  <2>1. verified' = VerificationOf(sc) BY <1>9 DEF Verify, VerificationOf
  <2>2. VerificationOf(sc) \in {"none", "consistency", "structural", "full"}
    BY ScenarioTyped DEF VerificationOf, Levels, TypeOK
  <2>3. TypeOK' BY <1>9, <2>1, <2>2 DEF Verify, TypeOK
  <2>4. ResultInv'
    <3>1. VerificationOf(sc)' = VerificationOf(sc) BY <1>9 DEF Verify, VerificationOf
    <3> QED BY <1>9, <2>1, <3>1 DEF Verify, ResultInv
  <2>5. HeldInv' /\ WorkerInv' /\ RaiseInv' /\ ManifestInv'
    BY <1>9 DEF Verify, HeldInv, WorkerInv, NextSigner, RaiseInv, TypeOK, ManifestInv
  <2> QED BY <2>3, <2>4, <2>5
<1>10. ASSUME Validator PROVE RunInv'
  <2>1. TypeOK'
    <3>1. found' \in Records BY <1>10, ValidatorFinds
    <3>2. records = <<>> BY <1>10 DEF Validator, ResultInv
    <3> QED BY <1>10, <3>1, <3>2 DEF Validator, TypeOK
  <2>2. HeldInv' /\ WorkerInv' /\ RaiseInv' /\ ResultInv' /\ ManifestInv'
    BY <1>10 DEF Validator, HeldInv, WorkerInv, NextSigner, RaiseInv, TypeOK, ResultInv, ManifestInv
  <2> QED BY <2>1, <2>2
<1>11. ASSUME ValidatorsDone PROVE RunInv'
  BY <1>11 DEF ValidatorsDone, TypeOK, HeldInv, WorkerInv, NextSigner, RaiseInv,
            ResultInv, ManifestInv
<1>12. ASSUME Lab PROVE RunInv'
  <2>1. TypeOK'
    <3>1. lab' \in LabStatuses /\ (lab' # "not-run" => release)
      BY <1>12 DEF Lab, LabStatuses
    <3> QED BY <1>12, <3>1 DEF Lab, TypeOK
  <2>2. HeldInv' /\ WorkerInv' /\ RaiseInv' /\ ResultInv' /\ ManifestInv'
    BY <1>12 DEF Lab, HeldInv, WorkerInv, NextSigner, RaiseInv, TypeOK, ResultInv, ManifestInv
  <2> QED BY <2>1, <2>2
<1>13. ASSUME Finalize PROVE RunInv'
  <2>1. /\ manifest' \in [failed : BOOLEAN, scope : Scopes, reason : Reasons, written : BOOLEAN]
        /\ manifest'.written /\ manifest'.failed = FALSE
        /\ manifest'.scope = ManifestClaim(sc, repaired, records, lab).scope
    BY <1>13, WrittenTyped DEF Finalize
  <2>2. UNCHANGED <<sc, repaired, records, lab, raised>> BY <1>13 DEF Finalize
  <2>3. TypeOK' BY <1>13, <2>1 DEF Finalize, TypeOK
  <2>4. ManifestInv'
    <3>1. ManifestClaim(sc, repaired, records, lab)' = ManifestClaim(sc, repaired, records, lab)
      BY <2>2
    <3> QED BY <1>13, <2>1, <2>2, <3>1 DEF Finalize, ManifestInv, RaiseInv, TypeOK
  <2>5. HeldInv' /\ WorkerInv' /\ RaiseInv' /\ ResultInv'
    BY <1>13 DEF Finalize, HeldInv, WorkerInv, NextSigner, RaiseInv, TypeOK, ResultInv
  <2> QED BY <2>3, <2>4, <2>5
<1>14. ASSUME Except PROVE RunInv'
  <2>1. /\ manifest' \in [failed : BOOLEAN, scope : Scopes, reason : Reasons, written : BOOLEAN]
        /\ manifest'.written /\ manifest'.failed = TRUE
        /\ manifest'.scope = ManifestClaim(sc, repaired, records, lab).scope
    BY <1>14, WrittenTyped DEF Except
  <2>2. UNCHANGED <<sc, repaired, records, lab, raised>> BY <1>14 DEF Except
  <2>3. TypeOK' BY <1>14, <2>1 DEF Except, TypeOK
  <2>4. ManifestInv'
    <3>1. ManifestClaim(sc, repaired, records, lab)' = ManifestClaim(sc, repaired, records, lab)
      BY <2>2
    <3> QED BY <1>14, <2>1, <2>2, <3>1 DEF Except, ManifestInv, RaiseInv, TypeOK
  <2>5. HeldInv' /\ WorkerInv' /\ RaiseInv' /\ ResultInv'
    BY <1>14 DEF Except, HeldInv, WorkerInv, NextSigner, RaiseInv, TypeOK, ResultInv
  <2> QED BY <2>3, <2>4, <2>5
<1>15. ASSUME CleanupOne PROVE RunInv'
  <2>1. TypeOK' BY <1>15, StopHeldStops DEF CleanupOne, TypeOK
  <2>2. WorkerInv' BY <1>15, StopHeldStops DEF CleanupOne, WorkerInv
  <2>3. HeldInv' /\ RaiseInv' /\ ResultInv' /\ ManifestInv'
    BY <1>15 DEF CleanupOne, HeldInv, RaiseInv, TypeOK, ResultInv, ManifestInv
  <2> QED BY <2>1, <2>2, <2>3
<1>16. ASSUME End PROVE RunInv'
  <2>1. WorkerInv' BY <1>16, NoneUp DEF End, WorkerInv
  <2>2. TypeOK' /\ HeldInv' /\ RaiseInv' /\ ResultInv' /\ ManifestInv'
    BY <1>16 DEF End, TypeOK, HeldInv, RaiseInv, ResultInv, ManifestInv
  <2> QED BY <2>1, <2>2
<1>17. ASSUME StageRaises PROVE RunInv'
  BY <1>17 DEF StageRaises, TypeOK, HeldInv, WorkerInv, NextSigner, RaiseInv,
            ResultInv, ManifestInv
<1>18. ASSUME Interrupt PROVE RunInv'
  <2>1. TypeOK'
    <3>1. <<>> \in Seq(Signers) /\ IsInjective(<<>>) BY EmptySeq DEF IsInjective
    <3>2. pc' \in {"unwind", "ended", "cleanup"} BY <1>18 DEF Interrupt
    <3>3. held' \in {<<>>, held} /\ raised' = "interrupt" BY <1>18 DEF Interrupt
    <3>4. UNCHANGED <<sc, release, worker, repaired, verified, found, records, lab, manifest>>
      BY <1>18 DEF Interrupt
    <3> QED BY <3>1, <3>2, <3>3, <3>4 DEF TypeOK
  <2>2. HeldInv' /\ WorkerInv' /\ RaiseInv' /\ ResultInv' /\ ManifestInv'
    BY <1>18 DEF Interrupt, HeldInv, WorkerInv, NextSigner, RaiseInv, TypeOK, ResultInv, ManifestInv
  <2> QED BY <2>1, <2>2
<1>19. CASE UNCHANGED vars
  BY <1>19 DEF vars, TypeOK, HeldInv, WorkerInv, NextSigner, RaiseInv, ResultInv, ManifestInv
<1> QED
  BY <1>1, <1>2, <1>3, <1>4, <1>5, <1>6, <1>7, <1>8, <1>9, <1>10,
     <1>11, <1>12, <1>13, <1>14, <1>15, <1>16, <1>17, <1>18, <1>19 DEF Next

LEMMA RunInvariant == Spec => []RunInv
BY RunStart, RunStep, PTL DEF Spec

-----------------------------------------------------------------------------
(* The theorems                                                              *)

(* Types, and the results of the stages in their order.                      *)
THEOREM RunTypeCorrect == Spec => []TypeOK
<1>1. RunInv => TypeOK BY DEF RunInv
<1> QED BY <1>1, RunInvariant, PTL

(* A manifest says evidence only of a run with a full verification, all      *)
(* validators and a lab that passed every snapshot, and no repair.           *)
THEOREM EvidenceWasEarned == Spec => []EvidenceIsEarned
<1>1. RunInv => EvidenceIsEarned
  <2> SUFFICES ASSUME RunInv, manifest.scope = "evidence"
               PROVE  /\ release /\ verified = "full" /\ ~ repaired /\ lab = "passed"
                      /\ \A v \in KnownValidators : v \in DOMAIN found /\ found[v] = "passed"
    BY DEF EvidenceIsEarned
  <2>1. ManifestClaim(sc, repaired, records, lab).scope = "evidence"
    BY DEF RunInv, ManifestInv, NoManifest
  <2>2. /\ AllPassed(records) /\ lab = "passed" /\ ~ repaired
        /\ sc.suite = "bip375" /\ sc.intent /\ sc.verification # "structural"
    BY <2>1, EvidenceClaim
  <2>3. verified = "full"
    BY <2>2, ScenarioTyped DEF RunInv, ResultInv, VerificationOf, TypeOK, Levels
  <2>4. records = found
    BY <2>2 DEF RunInv, TypeOK, AllPassed, KnownValidators
  <2> QED BY <2>2, <2>3, <2>4 DEF RunInv, TypeOK, AllPassed
<1> QED BY <1>1, RunInvariant, PTL

(* A batch row says passed only of a run whose manifest says evidence.       *)
THEOREM PassedMeansEvidence == Spec => []PassIsEvidence
<1>1. RunInv => PassIsEvidence
  <2> SUFFICES ASSUME RunInv, Returned, Row.status = "passed"
               PROVE  manifest.scope = "evidence"
    BY DEF PassIsEvidence
  <2>1. ManifestClaim(sc, repaired, records, lab).scope = "evidence"
    BY PassedRowIsEvidence DEF Row
  <2> QED BY <2>1 DEF RunInv, ManifestInv, Returned, NoManifest
<1> QED BY <1>1, RunInvariant, PTL

(* A run that ended left no worker running, whatever stage raised.           *)
THEOREM EveryWorkerIsStopped == Spec => []NoWorkerLeft
<1>1. RunInv => NoWorkerLeft BY DEF RunInv, WorkerInv, NoWorkerLeft
<1> QED BY <1>1, RunInvariant, PTL

(* A run that was not interrupted left a manifest that says how it ended.    *)
THEOREM ManifestIsLeft == Spec => []ManifestUnlessInterrupted
<1>1. RunInv => ManifestUnlessInterrupted
  BY DEF RunInv, ManifestInv, ManifestUnlessInterrupted
<1> QED BY <1>1, RunInvariant, PTL
=============================================================================
