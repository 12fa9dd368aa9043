------------------------------- MODULE Engine -------------------------------
(***************************************************************************)
(* run_rounds (engine.py) over the schedule of scenario_rounds (suites.py):*)
(* the PSBT goes to one signer after another, what comes back is compared  *)
(* with what was sent, held to the contract of the phase, and merged.      *)
(*                                                                         *)
(* A signer is under test: it may return any PSBT that differs from the    *)
(* one it received by one of Changes, show a warning screen, or fail.  The *)
(* checks a step makes are conjuncts of the action that ends in each       *)
(* outcome, in the order the code makes them.                              *)
(***************************************************************************)
EXTENDS PsbtMaps, Sequences, Functions

CONSTANTS
  Signer,      \* the signer names
  NoOne,       \* the owner of an input without one, the author of an initial record
  Scenarios,   \* the scenarios and signer orders a run may be given
  InitialPsbts,\* the PSBTs a run may start from
  Stack(_),    \* the bytes of a final witness with the given items
  Changes(_)   \* the record changes a signer may make in one step of a scenario

Phase == {"contribute", "resolve-sign", "sign", "redundant-sign", "round1", "round2"}

(* Scenario.from_dict and SuiteDefinition.validate accept the scenario, and  *)
(* _resolve_signer_order the order (names itself when none is asked for).    *)
ValidScenario(sc) ==
  /\ sc.suite \in {"bip375", "musig2-sp"}
  /\ sc.mode \in {"per-input", "global"}
  /\ sc.policy \in {"strict", "combiner"}
  /\ {sc.spOutput, sc.redundant, sc.expectWarning} \subseteq BOOLEAN
  /\ \A i \in DOMAIN sc.owner : sc.owner[i] \in Signer \cup {NoOne}
  /\ sc.names \in Seq(Signer) /\ sc.names # <<>> /\ IsInjective(sc.names)
  /\ sc.order \in Seq(Signer) /\ IsInjective(sc.order)
  /\ Range(sc.order) = Range(sc.names)
  /\ sc.suite = "bip375" /\ sc.mode = "global" => Len(sc.names) = 1
  /\ sc.suite = "musig2-sp" => Len(sc.names) >= 2

ASSUME EngineAssumption ==
  /\ NoOne \notin Signer \cup [signer : Signer, phase : Phase]
  /\ \A sc \in Scenarios : ValidScenario(sc)
  /\ InitialPsbts \subseteq Psbt
  /\ \A sc \in Scenarios : \A ch \in Changes(sc) :
       /\ DOMAIN ch \subseteq Slot
       /\ \A s \in DOMAIN ch : ch[s] \in Content \cup {Absent}

VARIABLES
  scenario,  \* the scenario being run
  initial,   \* initial_psbt
  current,   \* the cumulatively merged PSBT
  round,     \* the index of the round in progress
  waiting,   \* the signers of that round whose turn is still to come
  step,      \* the number of steps merged so far
  repairs,   \* the repairs the merges made: [step, phase, signer, slot]
  author,    \* history: who added a record, and in which phase
  outcome    \* "running", "done", or the error run_rounds raised

vars == <<scenario, initial, current, round, waiting, step, repairs, author, outcome>>

-----------------------------------------------------------------------------
(* The schedule                                                            *)

AllSigners(sc)   == Range(sc.names)
LastSigner(sc)   == sc.names[Len(sc.names)]
OtherSigners(sc) == AllSigners(sc) \ {LastSigner(sc)}

OneRound(phase, signers) == [phase |-> phase, signers |-> signers]

(* Mutant: the last signer resolves before the others contribute.            *)
ResolveFirstRounds(sc) ==
  << OneRound("resolve-sign", {LastSigner(sc)}),
     OneRound("contribute", OtherSigners(sc)),
     OneRound("sign", OtherSigners(sc)) >>

(* Mutant: no signing round follows the resolution.                          *)
NoSignRounds(sc) ==
  << OneRound("contribute", OtherSigners(sc)),
     OneRound("resolve-sign", {LastSigner(sc)}) >>

(* Every owner's share is collected before the last signer resolves the      *)
(* silent-payment outputs.                                                   *)
CollectRounds(sc) ==
  << OneRound("contribute", OtherSigners(sc)),
     OneRound("resolve-sign", {LastSigner(sc)}),
     OneRound("sign", OtherSigners(sc)) >>

(* scenario_rounds                                                           *)
Rounds(sc) ==
  IF sc.suite = "musig2-sp"
    THEN << OneRound("round1", AllSigners(sc)), OneRound("round2", AllSigners(sc)) >>
    ELSE LET single == sc.mode = "global" \/ Len(sc.names) = 1 \/ ~ sc.spOutput
             passes == IF single THEN << OneRound("resolve-sign", AllSigners(sc)) >>
                                 ELSE CollectRounds(sc)
         IN IF sc.redundant
              THEN Append(passes, OneRound("redundant-sign", AllSigners(sc)))
              ELSE passes

(* Whose turn it is when S is still waiting: _reorder_rounds sorts the       *)
(* signers of a round by their place in the order.                           *)
FirstOf(sc, S) ==
  sc.order[CHOOSE k \in DOMAIN sc.order :
             /\ sc.order[k] \in S
             /\ \A j \in DOMAIN sc.order : j < k => sc.order[j] \notin S]

-----------------------------------------------------------------------------
(* The phase contract                                                      *)

SignatureFields == {"partial_signature", "tap_key_signature"}
ShareFields     == {"sp_ecdh_share", "sp_dleq"}

SecurityFields ==
  [global |-> ShareFields \cup {"tx_modifiable"},
   input  |-> SignatureFields \cup ShareFields \cup
              {"witness_utxo", "non_witness_utxo", "sighash_type",
               "final_scriptsig", "final_scriptwitness"},
   output |-> {"script", "sp_v0_info"}]

Security(s) == s.field \in SecurityFields[s.scope]

SigningPhases == {"resolve-sign", "sign"}
CheckedPhases == SigningPhases \cup {"contribute"}

Owned(sc, signer) == {i \in DOMAIN sc.owner : sc.owner[i] = signer}

(* _global_share_phase                                                      *)
GlobalShare(sc) ==
  sc.mode = "global" \/ Cardinality({sc.owner[i] : i \in DOMAIN sc.owner}) <= 1

IsSignature(s) == s.scope = "input" /\ s.field \in SignatureFields

SignatureAllowed(sc, phase, signer, s) ==
  /\ IsSignature(s)
  /\ phase \in SigningPhases /\ s.index \in Owned(sc, signer)

(* The items of the final witness that a signature record makes, with the   *)
(* content sig: the key of a partial signature is part of its witness.      *)
WitnessItems(t, sig) ==
  IF t.field = "tap_key_signature" THEN <<sig>> ELSE <<sig, t.key>>

(* _signature_witnesses: a final witness must be made of a signature added   *)
(* on the same input in the same step; any of them, if there are several.   *)
WitnessAllowed(sc, phase, signer, before, after, s) ==
  /\ s.scope = "input" /\ s.field = "final_scriptwitness"
  /\ phase \in SigningPhases /\ s.index \in Owned(sc, signer)
  /\ \E t \in Slot : /\ IsSignature(t) /\ t.index = s.index
                     /\ IsAdded(before, after, t)
                     /\ after[s] = Stack(WitnessItems(t, after[t]))

ShareAllowed(sc, phase, signer, s) ==
  /\ s.field \in ShareFields
  /\ \/ s.scope = "input" /\ phase = "contribute" /\ s.index \in Owned(sc, signer)
     \/ /\ s.scope = "input" /\ phase = "resolve-sign"
        /\ s.index \in Owned(sc, signer) /\ ~ GlobalShare(sc)
     \/ s.scope = "global" /\ phase = "resolve-sign" /\ GlobalShare(sc)

ScriptAllowed(phase, s) ==
  s.scope = "output" /\ s.field = "script" /\ phase = "resolve-sign"

(* Mutants: a signature allowed on any input; any witness on an owned one.   *)
AdditionAllowedAnyInput(sc, phase, signer, before, after, s) ==
  \/ IsSignature(s) /\ phase \in SigningPhases
  \/ WitnessAllowed(sc, phase, signer, before, after, s)
  \/ ShareAllowed(sc, phase, signer, s)
  \/ ScriptAllowed(phase, s)

AdditionAllowedAnyWitness(sc, phase, signer, before, after, s) ==
  \/ SignatureAllowed(sc, phase, signer, s)
  \/ /\ s.scope = "input" /\ s.field = "final_scriptwitness"
     /\ phase \in SigningPhases /\ s.index \in Owned(sc, signer)
  \/ ShareAllowed(sc, phase, signer, s)
  \/ ScriptAllowed(phase, s)

(* _addition_allowed                                                        *)
AdditionAllowed(sc, phase, signer, before, after, s) ==
  \/ SignatureAllowed(sc, phase, signer, s)
  \/ WitnessAllowed(sc, phase, signer, before, after, s)
  \/ ShareAllowed(sc, phase, signer, s)
  \/ ScriptAllowed(phase, s)

(* Some record of a field in F is added on input i, whatever its key.       *)
Adds(before, after, i, F) ==
  \E s \in Slot : /\ s.scope = "input" /\ s.index = i /\ s.field \in F
                 /\ IsAdded(before, after, s)

(* What a phase requires of a signer that owns inputs: while contributing,  *)
(* some share and some proof on each of them, not one for every scan key;   *)
(* while signing, a signature on one of them.                               *)
DutyDone(sc, phase, signer, before, after) ==
  LET owned == Owned(sc, signer)
  IN IF phase = "contribute"
       THEN \A i \in owned, f \in ShareFields : Adds(before, after, i, {f})
       ELSE owned # {} => \E i \in owned : Adds(before, after, i, SignatureFields)

(* _assert_phase_contract                                                   *)
ContractKept(sc, phase, signer, before, after) ==
  phase \in CheckedPhases =>
    /\ \A s \in Slot : IsAdded(before, after, s) /\ Security(s) =>
                       AdditionAllowed(sc, phase, signer, before, after, s)
    /\ DutyDone(sc, phase, signer, before, after)

-----------------------------------------------------------------------------
(* The run                                                                 *)

TurnPhase  == Rounds(scenario)[round].phase
TurnSigner == FirstOf(scenario, waiting)

Init ==
  /\ scenario \in Scenarios
  /\ initial \in InitialPsbts
  /\ current = initial
  /\ round = 1
  /\ waiting = Rounds(scenario)[1].signers
  /\ step = 0
  /\ repairs = {}
  /\ author = [s \in Slot |-> NoOne]
  /\ outcome = "running"

(* The PSBTs a signer may hand back: what it received, changed by one of     *)
(* Changes.                                                                 *)
Offers ==
  {[s \in Slot |-> IF s \in DOMAIN ch THEN ch[s] ELSE current[s]] : ch \in Changes(scenario)}

Working == outcome = "running" /\ waiting # {}

Raise(error) ==
  /\ outcome' = error
  /\ UNCHANGED <<scenario, initial, current, round, waiting, step, repairs, author>>

(* process_psbt raises: the worker reported an error, timed out or died.    *)
WorkerFails == Working /\ Raise("worker")

(* _assert_no_unexpected_warning: the story is checked before the PSBT is   *)
(* looked at, so what the signer returned does not matter.                  *)
RejectWarning == Working /\ ~ scenario.expectWarning /\ Raise("warning")

(* The checks of one step, in the order the code makes them: parse_psbt on   *)
(* the returned PSBT, the phase contract, the merge.  "ok", or the error.    *)
Verdict(returned) ==
  IF ~ WellFormed(returned) THEN "format"
  ELSE IF ~ ContractKept(scenario, TurnPhase, TurnSigner, current, returned) THEN "contract"
  ELSE IF ~ Mergeable(current, returned, scenario.policy) THEN "merge"
  ELSE "ok"

RejectStep(verdict) == verdict # "ok" /\ Raise(verdict)

(* The merge is taken and the step recorded.                                *)
TakeMerge(returned) ==
  /\ current' = Merged(current, returned)
  /\ step' = step + 1
  /\ repairs' = repairs \cup
       {[step |-> step + 1, phase |-> TurnPhase, signer |-> TurnSigner, slot |-> s] :
          s \in Repairs(current, returned)}
  /\ author' = [s \in Slot |->
                  IF IsAdded(current, current', s)
                    THEN [signer |-> TurnSigner, phase |-> TurnPhase]
                    ELSE author[s]]

(* Mutant: the round index moves past the last round.                       *)
AdvancePastEnd ==
  LET left == waiting \ {TurnSigner}
      more == left = {} /\ round < Len(Rounds(scenario))
  IN /\ round' = IF left = {} THEN round + 1 ELSE round
     /\ waiting' = IF more THEN Rounds(scenario)[round + 1].signers ELSE left

(* The loop goes on with the next signer of the round, or the next round.   *)
Advance ==
  LET left == waiting \ {TurnSigner}
      more == left = {} /\ round < Len(Rounds(scenario))
  IN /\ round' = IF more THEN round + 1 ELSE round
     /\ waiting' = IF more THEN Rounds(scenario)[round + 1].signers ELSE left

AcceptStep(verdict, returned) ==
  /\ verdict = "ok"
  /\ TakeMerge(returned)
  /\ Advance
  /\ UNCHANGED <<scenario, initial, outcome>>

(* The step ends a round of a MuSig2 run, and the check of its snapshot that *)
(* on_round_complete makes refuses the merged PSBT.                          *)
RejectRound(verdict, returned) ==
  /\ verdict = "ok"
  /\ scenario.suite = "musig2-sp" /\ waiting = {TurnSigner}
  /\ TakeMerge(returned)
  /\ outcome' = "round"
  /\ UNCHANGED <<scenario, initial, round, waiting>>

(* Every round is complete: final.psbt is written and returned.             *)
Finish ==
  /\ outcome = "running" /\ waiting = {}
  /\ outcome' = "done"
  /\ UNCHANGED <<scenario, initial, current, round, waiting, step, repairs, author>>

SignerStep(returned) ==
  /\ Working
  /\ LET verdict == Verdict(returned)
     IN RejectStep(verdict) \/ AcceptStep(verdict, returned) \/ RejectRound(verdict, returned)

Next ==
  \/ WorkerFails
  \/ RejectWarning
  \/ \E returned \in Offers : SignerStep(returned)
  \/ Finish

Spec == Init /\ [][Next]_vars

-----------------------------------------------------------------------------
(* Properties                                                              *)

(* The carried PSBT is a PSBT; the counters and the outcome stay in range.   *)
TypeOK ==
  /\ scenario \in Scenarios
  /\ initial \in Psbt
  /\ current \in Psbt
  /\ round \in 1 .. Len(Rounds(scenario))
  /\ waiting \subseteq Rounds(scenario)[round].signers
  /\ step \in Nat
  /\ repairs \subseteq [step : Nat, phase : Phase, signer : Signer, slot : Slot]
  /\ author \in [Slot -> [signer : Signer, phase : Phase] \cup {NoOne}]
  /\ outcome \in {"running", "done", "worker", "warning", "format",
                  "contract", "merge", "round"}

(* merge_psbts, "without permitting any silent mutation": whatever a signer *)
(* returns, the records the run started from are all still there, byte for  *)
(* byte, and the transaction is the one it started from.                    *)
InitialSurvives ==
  /\ \A s \in Protected : current[s] = initial[s]
  /\ \A s \in Slot : ~ IsFlags(s) /\ initial[s] # Absent => current[s] = initial[s]

(* The strict policy never repairs, and a combiner repair never stands for   *)
(* a lost record: the run still holds what the signer dropped.               *)
RepairsRestore ==
  /\ scenario.policy = "strict" => repairs = {}
  /\ \A r \in repairs : current[r.slot] # Absent

(* _assert_phase_contract with the append-only merge: whoever put a          *)
(* signature into the PSBT during a phase the contract covers owns its input,*)
(* and so does whoever put a per-input share or DLEQ proof.                  *)
OwnersSpeakForInputs ==
  \A s \in Slot :
    /\ author[s] # NoOne /\ author[s].phase \in CheckedPhases
    /\ IsSignature(s) \/ (s.scope = "input" /\ s.field \in ShareFields)
    => s.index \in Owned(scenario, author[s].signer)

(* run_rounds' promise for every step of a scenario: "a signature only on an  *)
(* owned input while signing".  The redundant round is a signing round too.  *)
SignedOnlyByOwner ==
  \A s \in Slot :
    IsSignature(s) /\ author[s] # NoOne /\ author[s].phase \in SigningPhases \cup {"redundant-sign"}
    => s.index \in Owned(scenario, author[s].signer)

(* A final witness taken from a signer in a phase with a contract.           *)
WitnessTaken(s) ==
  /\ author[s] # NoOne /\ author[s].phase \in CheckedPhases
  /\ s.scope = "input" /\ s.field = "final_scriptwitness"

(* A final witness taken from a signer is, through every later merge, made   *)
(* of a signature the PSBT still holds for that input and that the same      *)
(* signer added in the same phase (_signature_witnesses).  An owner may add  *)
(* several: verification looks at the first record, and nothing is said of   *)
(* which one the witness is of.                                              *)
WitnessIsOwnSignature ==
  \A s \in Slot : WitnessTaken(s) =>
    \E t \in Slot : /\ IsSignature(t) /\ t.index = s.index
                    /\ current[s] = Stack(WitnessItems(t, current[t]))
                    /\ author[t] = author[s]

Contributors ==
  UNION {Rounds(scenario)[k].signers :
           k \in {j \in DOMAIN Rounds(scenario) : Rounds(scenario)[j].phase = "contribute"}}

SharesCollected ==
  \A n \in Contributors : \A i \in Owned(scenario, n) : \A f \in ShareFields :
    \E s \in Slot : /\ s.scope = "input" /\ s.index = i /\ s.field = f
                    /\ author[s] # NoOne /\ author[s].signer = n

(* scenario_rounds and the contract together: an output script appears only  *)
(* once every contributing owner has put a share and a proof on each of its  *)
(* inputs.  The contract counts records, not scan keys, so a script may      *)
(* still appear while the share of one scan key is missing.                  *)
ResolvedAfterShares ==
  \A s \in Slot :
    /\ scenario.suite = "bip375"
    /\ s.scope = "output" /\ s.field = "script" /\ initial[s] = Absent
    /\ current[s] # Absent
    => SharesCollected

(* A run that returns a PSBT took from every signer that owns inputs a       *)
(* signature on one of them.                                                 *)
DoneMeansEveryOwnerSigned ==
  outcome = "done" /\ scenario.suite = "bip375" =>
    \A n \in AllSigners(scenario) : Owned(scenario, n) # {} =>
      \E s \in Slot : /\ IsSignature(s) /\ s.index \in Owned(scenario, n)
                      /\ author[s] # NoOne /\ author[s].signer = n

(* The carried PSBT only ever grows (AdditivePsbt).                          *)
Additive == INSTANCE AdditivePsbt WITH psbt <- current
OnlyGrows == Additive!Spec

=============================================================================
