---------------------------- MODULE ScenarioRun ----------------------------
(***************************************************************************)
(* One run of a scenario (cli.py: _run_generated_scenario,                 *)
(* _run_psbt_scenario): its workers are started one by one, the rounds,    *)
(* the verification, the validators and the Interop Lab follow, a manifest *)
(* is written, and the workers are stopped, whatever happened.             *)
(*                                                                         *)
(* Any stage may raise.  "error" is an InteropError, "crash" any other     *)
(* exception; the two differ for the caller only.  An interrupt            *)
(* (KeyboardInterrupt) may arrive at any point and is caught by neither    *)
(* except clause.  The rounds are those of Engine, a worker's start and    *)
(* stop those of WorkerTransport, each taken as one step here.             *)
(***************************************************************************)
EXTENDS Claims, Sequences, Functions, FiniteSets

CONSTANTS
  Scenarios,     \* the scenarios that may be run
  MaxInterrupts  \* bound: the points of a run at which an interrupt arrives

(* What Scenario.from_dict admits, with the features the claims depend on.    *)
ValidScenario(sc) ==
  /\ sc.suite \in Suites /\ sc.verification \in Levels /\ sc.policy \in Policies
  /\ {sc.intent, sc.generated} \subseteq BOOLEAN
  /\ sc.generated => sc.suite = "bip375" /\ sc.intent
  /\ sc.signers \in Seq(Range(sc.signers)) /\ sc.signers # <<>> /\ IsInjective(sc.signers)
  /\ sc.validators \in Seq(KnownValidators) /\ IsInjective(sc.validators)
  /\ sc.suite = "musig2-sp" => sc.validators = <<>>

ASSUME RunAssumption ==
  /\ MaxInterrupts \in Nat
  /\ \A sc \in Scenarios : ValidScenario(sc)

Signers == UNION {Range(sc.signers) : sc \in Scenarios}

VARIABLES
  sc,          \* the scenario
  release,     \* the run belongs to a release check
  pc,          \* where the run is
  raised,      \* what is being raised: "nothing", "error", "crash" or "interrupt"
  worker,      \* each signer's worker: "none", "up" or "stopped"
  held,        \* the signers in the workers dict, in order
  repaired,    \* repairs is not empty
  verified,    \* the verification the final PSBT passed
  found,       \* the records _run_validators has made so far
  records,     \* validators, empty until _run_validators returns
  lab,         \* interop_lab's status
  manifest,    \* the manifest written, or NoManifest
  interrupted  \* history: the points an interrupt arrived at

vars == <<sc, release, pc, raised, worker, held, repaired, verified, found, records, lab,
          manifest, interrupted>>

NoManifest == [failed |-> FALSE, scope |-> "none", reason |-> "none", written |-> FALSE]

Stages == {"validate", "start", "prepare", "rounds", "verify", "validators", "lab", "finalize"}

Init ==
  /\ sc \in Scenarios /\ release \in BOOLEAN
  /\ pc = "validate" /\ raised = "nothing"
  /\ worker = [s \in Signers |-> "none"] /\ held = <<>>
  /\ repaired = FALSE /\ verified = "none" /\ found = <<>> /\ records = <<>>
  /\ lab = "not-run" /\ manifest = NoManifest /\ interrupted = {}

Go(next) == pc' = next /\ UNCHANGED <<raised, interrupted>>

-----------------------------------------------------------------------------
(* _start_workers                                                          *)

NextSigner == sc.signers[Len(held) + 1]

(* The scenario is validated for its suite, and a MuSig2 descriptor built.   *)
Validate ==
  /\ pc = "validate" /\ Go("start")
  /\ UNCHANGED <<sc, release, worker, held, repaired, verified, found, records, lab, manifest>>

(* worker.start() returns.                                                  *)
LaunchWorker ==
  /\ pc = "start" /\ Len(held) < Len(sc.signers)
  /\ worker' = [worker EXCEPT ![NextSigner] = "up"]
  /\ Go("record")
  /\ UNCHANGED <<sc, release, held, repaired, verified, found, records, lab, manifest>>

RecordWorker ==
  /\ pc = "record"
  /\ held' = Append(held, NextSigner)
  /\ Go("start")
  /\ UNCHANGED <<sc, release, worker, repaired, verified, found, records, lab, manifest>>

AllStarted ==
  /\ pc = "start" /\ Len(held) = Len(sc.signers) /\ Go("prepare")
  /\ UNCHANGED <<sc, release, worker, held, repaired, verified, found, records, lab, manifest>>

(* Stop the first worker held that is still up.                              *)
StopHeld ==
  /\ \E k \in DOMAIN held :
       /\ worker[held[k]] = "up" /\ \A j \in 1 .. k - 1 : worker[held[j]] # "up"
       /\ worker' = [worker EXCEPT ![held[k]] = "stopped"]

NoneHeldUp == \A s \in Range(held) : worker[s] # "up"

(* The except clause of _start_workers, whose caller never sees the dict.    *)
UnwindOne ==
  /\ pc = "unwind" /\ StopHeld
  /\ UNCHANGED <<sc, release, pc, raised, held, repaired, verified, found, records, lab,
                 manifest, interrupted>>

(* Mutant: the workers started so far are not stopped.                       *)
UnwindNone ==
  /\ pc = "unwind" /\ held' = <<>>
  /\ Go(IF raised = "interrupt" THEN "cleanup" ELSE "except")
  /\ UNCHANGED <<sc, release, worker, repaired, verified, found, records, lab, manifest>>

Unwound ==
  /\ pc = "unwind" /\ NoneHeldUp /\ held' = <<>>
  /\ Go(IF raised = "interrupt" THEN "cleanup" ELSE "except")
  /\ UNCHANGED <<sc, release, worker, repaired, verified, found, records, lab, manifest>>

-----------------------------------------------------------------------------
(* The stages                                                              *)

(* The fixture is built or the PSBT read, and every input has a UTXO.        *)
Prepare ==
  /\ pc = "prepare" /\ Go("rounds")
  /\ UNCHANGED <<sc, release, worker, held, repaired, verified, found, records, lab, manifest>>

(* run_rounds returns; only a combiner merge repairs.                        *)
RunRounds ==
  /\ pc = "rounds" /\ Go("verify")
  /\ repaired' \in (IF sc.policy = "combiner" THEN BOOLEAN ELSE {FALSE})
  /\ UNCHANGED <<sc, release, worker, held, verified, found, records, lab, manifest>>

(* Mutant: the final PSBT is not verified.                                  *)
VerifySkipped ==
  /\ pc = "verify" /\ Go("validators") /\ UNCHANGED verified
  /\ UNCHANGED <<sc, release, worker, held, repaired, found, records, lab, manifest>>

(* verify_bip375_completion, of a bip375 run only.                          *)
Verify ==
  /\ pc = "verify" /\ Go("validators")
  /\ verified' = CASE sc.suite # "bip375" -> "none"
                   [] ~ sc.intent         -> "consistency"
                   [] OTHER               -> sc.verification
  /\ UNCHANGED <<sc, release, worker, held, repaired, found, records, lab, manifest>>

(* One validator re-checks the snapshots.                                   *)
Validator ==
  /\ pc = "validators" /\ Cardinality(DOMAIN found) < Len(sc.validators)
  /\ \E outcome \in {"passed", "short", "failed"} :
       found' = [v \in DOMAIN found \cup {sc.validators[Cardinality(DOMAIN found) + 1]} |->
                   IF v \in DOMAIN found THEN found[v] ELSE outcome]
  /\ UNCHANGED <<sc, release, pc, raised, worker, held, repaired, verified, records, lab,
                 manifest, interrupted>>

ValidatorsDone ==
  /\ pc = "validators" /\ Cardinality(DOMAIN found) = Len(sc.validators)
  /\ records' = found
  /\ Go("lab")
  /\ UNCHANGED <<sc, release, worker, held, repaired, verified, found, lab, manifest>>

(* Mutant: the lab checks every run.                                        *)
LabAlways ==
  /\ pc = "lab" /\ Go("finalize") /\ lab' \in LabStatuses
  /\ UNCHANGED <<sc, release, worker, held, repaired, verified, found, records, manifest>>

(* _interop_stage                                                           *)
Lab ==
  /\ pc = "lab" /\ Go("finalize")
  /\ lab' \in (IF release /\ sc.suite = "bip375" THEN LabStatuses ELSE {"not-run"})
  /\ UNCHANGED <<sc, release, worker, held, repaired, verified, found, records, manifest>>

WriteManifest(failed) ==
  LET claim == ManifestClaim(sc, repaired, records, lab)
  IN manifest' = [failed |-> failed, scope |-> claim.scope, reason |-> claim.reason,
                  written |-> TRUE]

Finalize ==
  /\ pc = "finalize" /\ WriteManifest(FALSE)
  /\ Go("cleanup")
  /\ UNCHANGED <<sc, release, worker, held, repaired, verified, found, records, lab>>

(* Mutant: only the errors the harness names leave a manifest.               *)
ExceptNamed ==
  /\ pc = "except"
  /\ IF raised = "error" THEN WriteManifest(TRUE) ELSE UNCHANGED manifest
  /\ Go("cleanup")
  /\ UNCHANGED <<sc, release, worker, held, repaired, verified, found, records, lab>>

(* except Exception: the manifest of a failed run, and the exception again.  *)
Except ==
  /\ pc = "except" /\ WriteManifest(TRUE)
  /\ Go("cleanup")
  /\ UNCHANGED <<sc, release, worker, held, repaired, verified, found, records, lab>>

(* finally: stop every worker held.                                         *)
CleanupOne ==
  /\ pc = "cleanup" /\ StopHeld
  /\ UNCHANGED <<sc, release, pc, raised, held, repaired, verified, found, records, lab,
                 manifest, interrupted>>

End ==
  /\ pc = "cleanup" /\ NoneHeldUp /\ Go("ended")
  /\ UNCHANGED <<sc, release, worker, held, repaired, verified, found, records, lab, manifest>>

(* A stage raises.  The artifact directory can be written: finalize() does   *)
(* not raise.  A start that fails stops the worker it began.                 *)
StageRaises ==
  /\ pc \in Stages \ {"finalize"} /\ raised' \in {"error", "crash"}
  /\ pc' = IF pc = "start" THEN "unwind" ELSE "except"
  /\ UNCHANGED <<sc, release, worker, held, repaired, verified, found, records, lab, manifest,
                 interrupted>>

(* Only an interrupt in the middle of _start_workers is handled there; one   *)
(* in a cleanup ends that cleanup.                                          *)
Interrupt ==
  /\ pc # "ended" /\ Cardinality(interrupted) < MaxInterrupts
  /\ interrupted' = interrupted \cup {pc} /\ raised' = "interrupt"
  /\ pc' = CASE pc \in {"start", "record"} -> "unwind"
             [] pc = "cleanup"             -> "ended"
             [] OTHER                      -> "cleanup"
  /\ held' = IF pc = "unwind" THEN <<>> ELSE held
  /\ UNCHANGED <<sc, release, worker, repaired, verified, found, records, lab, manifest>>

Next ==
  \/ Validate \/ LaunchWorker \/ RecordWorker \/ AllStarted \/ UnwindOne \/ Unwound
  \/ Prepare \/ RunRounds \/ Verify \/ Validator \/ ValidatorsDone \/ Lab \/ Finalize
  \/ Except \/ CleanupOne \/ End \/ StageRaises \/ Interrupt

Spec == Init /\ [][Next]_vars

-----------------------------------------------------------------------------
(* Properties                                                              *)

Returned == pc = "ended" /\ raised = "nothing"
Row == RunRow(sc, sc.generated, release, repaired, records, lab)

(* Types, and the order of the stages: no result of a stage is there before  *)
(* the ones it follows.                                                     *)
TypeOK ==
  /\ sc \in Scenarios /\ release \in BOOLEAN
  /\ pc \in Stages \cup {"record", "unwind", "except", "cleanup", "ended"}
  /\ raised \in {"nothing", "error", "crash", "interrupt"}
  /\ worker \in [Signers -> {"none", "up", "stopped"}]
  /\ held \in Seq(Signers) /\ IsInjective(held)
  /\ repaired \in BOOLEAN
  /\ verified \in {"none", "consistency", "structural", "full"}
  /\ {found, records} \subseteq Records /\ records \in {found, <<>>}
  /\ lab \in LabStatuses
  /\ lab # "not-run" => release
  /\ manifest \in [failed : BOOLEAN, scope : Scopes, reason : Reasons, written : BOOLEAN]
  /\ pc = "except" => raised \in {"error", "crash"}

(* manifest_claim_fields: "evidence" is only written for a run whose final   *)
(* PSBT passed the full verification against the scenario's intent, with     *)
(* every known validator and the lab passing every snapshot, and no repair.  *)
EvidenceIsEarned ==
  manifest.scope = "evidence" =>
    /\ release /\ verified = "full" /\ ~ repaired /\ lab = "passed"
    /\ \A v \in KnownValidators : v \in DOMAIN found /\ found[v] = "passed"

(* "Weak modes are not a pass": a batch row says passed only of a run whose  *)
(* manifest says evidence.                                                  *)
PassIsEvidence ==
  Returned /\ Row.status = "passed" => manifest.scope = "evidence"

(* "The caller never sees a partial dict, so it cannot stop these itself":   *)
(* a run that ends, by returning, by an exception of any stage or by an      *)
(* interrupt of one, leaves no worker running.  Left out are an interrupt    *)
(* between start() and the dict, and one that cuts a cleanup short.          *)
NoWorkerLeft ==
  pc = "ended" /\ interrupted \cap {"record", "unwind", "cleanup"} = {} =>
    \A s \in Signers : worker[s] # "up"

(* "Durable evidence on failure": a run that was not interrupted leaves a    *)
(* manifest, and it says failed exactly when the run raised.                 *)
ManifestUnlessInterrupted ==
  pc = "ended" /\ interrupted = {} =>
    manifest.written /\ (manifest.failed <=> raised # "nothing")

=============================================================================
