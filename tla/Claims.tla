------------------------------- MODULE Claims -------------------------------
(***************************************************************************)
(* What a run may claim: the verification scope a manifest records and the *)
(* row a batch gets from it (verification.py, cli.py).                     *)
(*                                                                         *)
(* A scenario is a record of the features the claims depend on:            *)
(*   suite, verification, policy, intent (it declares inputs and outputs)  *)
(* A validator record is "passed" (every snapshot validated), "short" (it  *)
(* passed without reporting on all of them) or "failed"; records maps the  *)
(* validators that ran to theirs.                                          *)
(***************************************************************************)
EXTENDS Naturals

KnownValidators == {"caravan", "spdk"}

Suites   == {"bip375", "musig2-sp"}
Policies == {"strict", "combiner"}
Levels   == {"full", "structural"}
Records  == UNION {[V -> {"passed", "short", "failed"}] : V \in SUBSET KnownValidators}
LabStatuses == {"not-run", "passed", "failed"}
Scopes   == {"none", "not-evidence", "interop-only", "evidence"}
Reasons  == {"none", "structural", "combiner-repairs", "structural-musig2", "consistency-only",
             "transport-only", "validator-skipped", "interop-lab-failed", "interop-lab-skipped",
             "error"}

Claim(scope, reason, status) == [scope |-> scope, reason |-> reason, status |-> status]

(* _not_evidence: structural verification and repairs are not a result.      *)
NotEvidence(sc, repaired) ==
  sc.verification = "structural" \/ sc.policy = "combiner" \/ repaired

(* run_claim: what a run may claim before any validator ran.                 *)
RunClaim(sc, repaired, generated) ==
  IF NotEvidence(sc, repaired)
    THEN Claim("not-evidence",
               IF sc.verification = "structural" THEN "structural" ELSE "combiner-repairs",
               "completed")
  ELSE IF sc.suite = "musig2-sp"
    THEN Claim("interop-only", "structural-musig2", "completed")
  ELSE IF ~ sc.intent
    THEN Claim("interop-only", "consistency-only", "completed")
  ELSE IF generated THEN Claim("none", "none", "passed")
                    ELSE Claim("none", "transport-only", "completed")

AllPassed(records) ==
  \A v \in KnownValidators : v \in DOMAIN records /\ records[v] = "passed"

(* Mutant: any record counts as a check.                                     *)
EvidenceEarnedByRecords(sc, repaired, records, lab) ==
  /\ records # <<>> /\ lab = "passed"
  /\ sc.suite = "bip375" /\ ~ NotEvidence(sc, repaired) /\ sc.intent

EvidenceEarned(sc, repaired, records, lab) ==
  /\ AllPassed(records) /\ lab = "passed"
  /\ sc.suite = "bip375" /\ ~ NotEvidence(sc, repaired) /\ sc.intent

(* Why a run with validator records is not evidence.                         *)
SkippedReason(records, lab) ==
  IF ~ AllPassed(records) THEN "validator-skipped"
  ELSE IF lab = "failed" THEN "interop-lab-failed" ELSE "interop-lab-skipped"

(* manifest_claim_fields: the scope and reason a manifest records.  The      *)
(* claim is that of a generated run, whatever the run was.                   *)
ManifestClaim(sc, repaired, records, lab) ==
  LET claim == RunClaim(sc, repaired, TRUE)
  IN IF claim.scope # "none" THEN [scope |-> claim.scope, reason |-> claim.reason]
     ELSE IF records = <<>> THEN [scope |-> "not-evidence", reason |-> "validator-skipped"]
     ELSE IF EvidenceEarned(sc, repaired, records, lab)
       THEN [scope |-> "evidence", reason |-> "none"]
     ELSE [scope |-> "not-evidence", reason |-> SkippedReason(records, lab)]

(* A release row fails unless every validator and the lab checked it all.    *)
ReleaseRefuses(sc, records, lab) ==
  sc.suite = "bip375" /\ (~ AllPassed(records) \/ lab # "passed")

(* Mutant: the row does not ask the manifest's scope.                        *)
RunRowIgnoresScope(sc, generated, release, repaired, records, lab) ==
  LET claim == RunClaim(sc, repaired, generated)
  IN IF \/ \E v \in DOMAIN records : records[v] = "failed"
        \/ release /\ ReleaseRefuses(sc, records, lab)
       THEN [status |-> "failed", reason |-> "error"]
     ELSE [status |-> claim.status, reason |-> claim.reason]

(* case_result_for_run: the batch row of a run that returned.                *)
RunRow(sc, generated, release, repaired, records, lab) ==
  LET claim    == RunClaim(sc, repaired, generated)
      manifest == ManifestClaim(sc, repaired, records, lab)
      weak     == manifest.scope = "not-evidence"
  IN IF \/ \E v \in DOMAIN records : records[v] = "failed"
        \/ release /\ ReleaseRefuses(sc, records, lab)
       THEN [status |-> "failed", reason |-> "error"]
     ELSE IF weak THEN [status |-> "completed", reason |-> manifest.reason]
     ELSE [status |-> claim.status, reason |-> claim.reason]

=============================================================================
