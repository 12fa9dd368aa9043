--------------------------- MODULE EvidenceProofs ---------------------------
(* What stands behind "evidence" (Evidence), proved for every scenario,      *)
(* recipient, approval and number of things that differ.                     *)
EXTENDS Evidence, SequenceTheorems, TLAPS

-----------------------------------------------------------------------------
(* The claim: a manifest says evidence only of a full scenario that declares *)
(* its intent, when the lab passed.                                          *)
LEMMA ClaimNeedsLab ==
  ASSUME NEW s, NEW recs, NEW l,
         ManifestClaim(s, FALSE, recs, l).scope = "evidence"
  PROVE  s.intent /\ s.verification # "structural" /\ l = "passed"
  BY DEF ManifestClaim, RunClaim, Claim, NotEvidence, EvidenceEarned

(* The final PSBT was verified in full, against the scenario's intent.       *)
Verified == sc.intent /\ sc.verification # "structural" /\ CompletionHolds(sc, final)

VerifyInv ==
  /\ pc \in {"prepare", "author", "devices"} => lab = "not-run"
  /\ pc # "done" => manifest = NoManifest
  /\ pc \in {"validators", "lab", "finalize"} => CompletionHolds(sc, final)
  /\ lab = "passed" => CompletionHolds(sc, final)
  /\ IsEvidence => Verified

LEMMA RecordedVerified ==
  ASSUME NEW status, Recorded(status), lab = "passed" => CompletionHolds(sc, final),
         sc' = sc, final' = final, lab' = lab
  PROVE  /\ pc' = "done"
         /\ lab' = "passed" => CompletionHolds(sc, final)'
         /\ IsEvidence' => Verified'
<1>1. pc' = "done" BY DEF Recorded
<1>2. manifest'.scope = ManifestClaim(sc, FALSE, records, lab).scope BY DEF Recorded
<1>3. CompletionHolds(sc, final)' = CompletionHolds(sc, final) OBVIOUS
<1>4. IsEvidence' => Verified'
  <2> SUFFICES ASSUME IsEvidence' PROVE Verified' OBVIOUS
  <2>1. sc.intent /\ sc.verification # "structural" /\ lab = "passed"
    BY <1>2, ClaimNeedsLab DEF IsEvidence
  <2> QED BY <2>1, <1>3 DEF Verified
<1> QED BY <1>1, <1>3, <1>4

(* The steps after the verification leave the scenario and the final PSBT as *)
(* they are, and judge a file's answers.                                     *)
LEMMA JudgedVerified ==
  ASSUME NEW m, pc = "lab", Judged(m), VerifyInv, sc' = sc, final' = final,
         manifest' = manifest
  PROVE  VerifyInv'
<1> USE DEF VerifyInv
<1>1. pc' \in {"lab", "finalize"}
  BY DEF Judged, FileDone
<1>2. CompletionHolds(sc, final)' = CompletionHolds(sc, final) OBVIOUS
<1>3. IsEvidence' = IsEvidence /\ Verified' = Verified
  BY <1>2 DEF IsEvidence, Verified
<1> QED BY <1>1, <1>2, <1>3

THEOREM VerifyInvariant == Spec => []VerifyInv
<1>1. Init => VerifyInv
  BY DEF Init, VerifyInv, NoManifest, IsEvidence
<1>2. VerifyInv /\ [Next]_vars => VerifyInv'
  <2> SUFFICES ASSUME VerifyInv, [Next]_vars PROVE VerifyInv' OBVIOUS
  <2> USE DEF VerifyInv
  <2>a. ASSUME sc' = sc, final' = final
        PROVE  /\ CompletionHolds(sc, final)' = CompletionHolds(sc, final)
               /\ manifest' = manifest => (IsEvidence => Verified) = (IsEvidence => Verified)'
    BY <2>a DEF IsEvidence, Verified
  <2>b. ASSUME NEW status, Recorded(status), sc' = sc, final' = final, lab' = lab
        PROVE  VerifyInv'
    BY <2>b, RecordedVerified
  <2>c. NoManifest.scope # "evidence" BY DEF NoManifest
  <2>1. CASE Prepare BY <2>1, <2>c DEF Prepare, labVars, IsEvidence
  <2>2. CASE AuthorDiffers BY <2>2, <2>c DEF AuthorDiffers, labVars, IsEvidence
  <2>3. CASE RunRounds BY <2>3, <2>c DEF RunRounds, labVars, IsEvidence
  <2>4. CASE RequireFails BY <2>4, <2>b DEF RequireFails, labVars
  <2>5. CASE DeviceDiffers BY <2>5, <2>c DEF DeviceDiffers, labVars, IsEvidence
  <2>6. CASE Verify
    <3>1. CASE CompletionHolds(sc, final)
      BY <2>6, <3>1, <2>a, <2>c DEF Verify, labVars, IsEvidence
    <3>2. CASE ~ CompletionHolds(sc, final)
      BY <2>6, <3>2, <2>b DEF Verify, labVars
    <3> QED BY <3>1, <3>2
  <2>7. CASE RunValidators BY <2>7, <2>a DEF RunValidators, labVars
  <2>8. CASE NoLab BY <2>8, <2>a DEF NoLab, labVars
  <2>9. CASE LabUnavailable BY <2>9, <2>a DEF LabUnavailable
  <2>10. CASE LabFails BY <2>10, <2>a DEF LabFails
  <2>11. CASE LabAnswers BY <2>11, <2>a DEF LabAnswers
  <2>12. CASE ReadParsers BY <2>12, <2>a DEF ReadParsers, Reading
  <2>13. ASSUME NEW a \in Adapters,
                ReadAdapter(a) \/ AdapterRefuses(a) \/ AdapterReturnsJunk(a) \/ AdapterChanges(a)
         PROVE  VerifyInv'
    <3>1. PICK m : Judged(m)
      BY <2>13 DEF ReadAdapter, AdapterRefuses, AdapterReturnsJunk, AdapterChanges
    <3>2. pc = "lab" /\ sc' = sc /\ final' = final /\ manifest' = manifest
      BY <2>13
      DEF ReadAdapter, AdapterRefuses, AdapterReturnsJunk, AdapterChanges, Reading
    <3> QED BY <3>1, <3>2, JudgedVerified
  <2>14. ASSUME NEW a \in Adapters, AdapterAnswersHalf(a) PROVE VerifyInv'
    BY <2>14, <2>b DEF AdapterAnswersHalf, labVars
  <2>15. CASE Finalize BY <2>15, <2>b DEF Finalize, labVars
  <2>16. CASE FinalizeRaises BY <2>16, <2>b DEF FinalizeRaises, labVars
  <2>17. CASE UNCHANGED vars BY <2>17, <2>a DEF vars, labVars
  <2> QED
    BY <2>1, <2>2, <2>3, <2>4, <2>5, <2>6, <2>7, <2>8, <2>9, <2>10, <2>11, <2>12, <2>13,
       <2>14, <2>15, <2>16, <2>17 DEF Next
<1> QED BY <1>1, <1>2, PTL DEF Spec

-----------------------------------------------------------------------------
(* What the verification says of a PSBT                                      *)

LEMMA VerifiedHolds ==
  ASSUME Verified
  PROVE  /\ IntentHolds(sc, final) /\ ScriptsHold(sc, final) /\ SharesHold(sc, final)
         /\ \A i \in DOMAIN final.inputs : SignatureHolds(sc, final, i)
         /\ ModifiableClear(final)
  BY DEF Verified, CompletionHolds

(* The inputs are the owners', in the order of the scenario.                 *)
LEMMA KeysAreOwners ==
  ASSUME Verified
  PROVE  Keys(final) = [i \in DOMAIN sc.inputs |-> sc.inputs[i].owner]
<1>1. DOMAIN final.inputs = DOMAIN sc.inputs
  BY VerifiedHolds DEF IntentHolds
<1>2. \A i \in DOMAIN final.inputs : final.inputs[i].key = sc.inputs[i].owner
  BY VerifiedHolds DEF SignatureHolds
<1> QED BY <1>1, <1>2 DEF Keys

(* The outputs that carry a recipient are the scenario's, with theirs.       *)
LEMMA RecipientsAreTheScenarios ==
  ASSUME Verified, sc \in Scenarios, NEW o \in DOMAIN sc.outputs
  PROVE  final.outputs[o].info = sc.outputs[o].to
<1>1. /\ DOMAIN final.outputs = DOMAIN sc.outputs
      /\ IF sc.outputs[o].type = "silent-payment"
           THEN final.outputs[o].info = sc.outputs[o].to
           ELSE /\ sc.outputs[o].type \in {"p2wpkh", "p2tr"}
                /\ final.outputs[o].script = Plain(sc.outputs[o].type)
  BY VerifiedHolds DEF IntentHolds
<1>2. CASE sc.outputs[o].type = "silent-payment"
  BY <1>1, <1>2
<1>3. CASE sc.outputs[o].type # "silent-payment"
  <2>1. sc.outputs[o].to = NoValue
    BY <1>1, <1>3, EvidenceAssumption DEF ValidScenario
  <2>2. ~ o \in SilentOutputs(final)
    <3> SUFFICES ASSUME o \in SilentOutputs(final) PROVE FALSE OBVIOUS
    <3>1. final.outputs[o].script = ExpectedScript(final, o)
      BY VerifiedHolds DEF ScriptsHold
    <3>2. final.outputs[o].script.kind = "sp"
      BY <3>1 DEF ExpectedScript, Script
    <3>3. final.outputs[o].script.kind \in {"p2wpkh", "p2tr"}
      BY <1>1, <1>3 DEF Plain, Script
    <3> QED BY <3>2, <3>3
  <2> QED BY <1>1, <2>1, <2>2 DEF SilentOutputs
<1> QED BY <1>2, <1>3

(* Every output is paid as the scenario says.                                *)
LEMMA VerifiedPays ==
  ASSUME Verified, sc \in Scenarios
  PROVE  /\ DOMAIN final.outputs = DOMAIN sc.outputs
         /\ \A o \in DOMAIN sc.outputs :
              final.outputs[o].amount = 1 /\ final.outputs[o].script = OwedScript(o)
<1>1. /\ DOMAIN final.outputs = DOMAIN sc.outputs
      /\ \A o \in DOMAIN sc.outputs :
           /\ final.outputs[o].amount = 1
           /\ IF sc.outputs[o].type = "silent-payment"
                THEN final.outputs[o].info = sc.outputs[o].to
                ELSE /\ sc.outputs[o].type \in {"p2wpkh", "p2tr"}
                     /\ final.outputs[o].script = Plain(sc.outputs[o].type)
  BY VerifiedHolds DEF IntentHolds
<1>2. ASSUME NEW o \in DOMAIN sc.outputs PROVE final.outputs[o].script = OwedScript(o)
  <2>1. CASE sc.outputs[o].to = NoValue
    <3>1. sc.outputs[o].type \in {"p2wpkh", "p2tr"}
      BY <2>1, EvidenceAssumption DEF ValidScenario
    <3>2. final.outputs[o].script = Plain(sc.outputs[o].type)
      BY <1>1, <3>1
    <3> QED BY <2>1, <3>2 DEF OwedScript
  <2>2. CASE sc.outputs[o].to # NoValue
    <3>1. o \in SilentOutputs(final)
      BY <1>1, <2>2, RecipientsAreTheScenarios DEF SilentOutputs
    <3>2. final.outputs[o].script = ExpectedScript(final, o)
      BY <3>1, VerifiedHolds DEF ScriptsHold
    <3>3. \A q \in 1 .. o : final.outputs[q].info = sc.outputs[q].to
      <4>1. 1 .. o \subseteq DOMAIN sc.outputs
        BY EvidenceAssumption DEF ValidScenario
      <4> QED BY <4>1, RecipientsAreTheScenarios
    <3>4. {q \in 1 .. o : final.outputs[q].info = final.outputs[o].info}
            = {q \in 1 .. o : sc.outputs[q].to = sc.outputs[o].to}
      BY <3>3, RecipientsAreTheScenarios
    <3>5. final.outputs[o].info = sc.outputs[o].to
      BY RecipientsAreTheScenarios
    <3> QED BY <2>2, <3>2, <3>4, <3>5, KeysAreOwners DEF ExpectedScript, OwedScript, Position
  <2> QED BY <2>1, <2>2
<1> QED BY <1>1, <1>2

(* The owners' keys are behind every input and every recipient's shares.     *)
LEMMA VerifiedIsProven ==
  ASSUME Verified, sc \in Scenarios
  PROVE  EvidenceIsProven
<1> DEFINE owners == [i \in DOMAIN sc.inputs |-> sc.inputs[i].owner]
           Single == Cardinality(Owners(sc)) <= 1 \/ sc.mode = "global"
<1>1. Keys(final) = owners BY KeysAreOwners
<1>2. DOMAIN final.inputs = DOMAIN owners
  BY VerifiedHolds DEF IntentHolds
<1>3. ASSUME NEW i \in DOMAIN owners
      PROVE  IF final.inputs[i].type = "p2wpkh"
               THEN \E n \in DOMAIN final.inputs[i].partial :
                      /\ final.inputs[i].partial[n].key = owners[i]
                      /\ final.inputs[i].partial[n].by = owners[i]
               ELSE final.inputs[i].tap = final.inputs[i].lock
  BY <1>2, VerifiedHolds DEF SignatureHolds, PartialHolds, TapHolds
<1>4. ASSUME NEW o \in DOMAIN sc.outputs, sc.outputs[o].to # NoValue
      PROVE  LET r == sc.outputs[o].to
             IN IF Single THEN final.share[r] = owners /\ final.proof[r] = owners
                ELSE \A i \in DOMAIN owners :
                       {final.inputs[i].share[r], final.inputs[i].proof[r]} = {owners[i]}
  <2> DEFINE r == sc.outputs[o].to
  <2>1. r \in Recipients(final)
    <3>1. final.outputs[o].info = r BY RecipientsAreTheScenarios
    <3>2. o \in DOMAIN final.outputs BY VerifiedHolds DEF IntentHolds
    <3> QED BY <1>4, <3>1, <3>2 DEF Recipients, SilentOutputs
  <2>2. IF GlobalShares(sc) THEN GlobalShareHolds(sc, final, r) ELSE InputSharesHold(sc, final, r)
    BY <2>1, VerifiedHolds DEF SharesHold
  <2>3. GlobalShares(sc) <=> Single BY DEF GlobalShares
  <2>4. CASE Single
    BY <1>1, <2>2, <2>3, <2>4 DEF GlobalShareHolds, Proves
  <2>5. CASE ~ Single
    <3>1. \A i \in DOMAIN owners : final.inputs[i].key = owners[i]
      BY <1>2, VerifiedHolds DEF SignatureHolds
    <3>2. \A i \in DOMAIN owners :
            final.inputs[i].share[r] = owners[i] /\ final.inputs[i].proof[r] = owners[i]
      BY <1>2, <2>2, <2>3, <2>5, <3>1 DEF InputSharesHold, Proves
    <3> QED BY <2>5, <3>2
  <2> QED BY <2>4, <2>5
<1>5. {"inputs", "outputs"} \cap final.modifiable = {}
  BY VerifiedHolds DEF ModifiableClear
<1> QED BY <1>1, <1>3, <1>4, <1>5 DEF EvidenceIsProven

-----------------------------------------------------------------------------
(* The theorems                                                              *)

THEOREM ScenarioIsValid == Spec => [](sc \in Scenarios)
<1>1. Init => sc \in Scenarios BY DEF Init
<1>2. sc \in Scenarios /\ [Next]_vars => (sc \in Scenarios)'
  <2> SUFFICES ASSUME sc \in Scenarios, [Next]_vars PROVE sc' = sc OBVIOUS
  <2> QED
    BY DEF Next, vars, Prepare, AuthorDiffers, RunRounds, RequireFails, DeviceDiffers, Verify,
           RunValidators, NoLab, LabUnavailable, LabFails, LabAnswers, ReadParsers, ReadAdapter,
           AdapterRefuses, AdapterReturnsJunk, AdapterChanges, AdapterAnswersHalf, Finalize,
           FinalizeRaises
<1> QED BY <1>1, <1>2, PTL DEF Spec

(* A run that claims evidence pays exactly what its scenario says, whoever   *)
(* made its PSBT and whatever its signers returned.                          *)
THEOREM EvidencePaysTheScenario == Spec => []EvidencePays
<1>1. VerifyInv /\ sc \in Scenarios => EvidencePays
  <2> SUFFICES ASSUME VerifyInv, sc \in Scenarios, IsEvidence PROVE EvidencePays
    BY DEF EvidencePays
  <2>1. Verified BY DEF VerifyInv
  <2> QED BY <2>1, VerifiedPays DEF EvidencePays
<1> QED BY <1>1, VerifyInvariant, ScenarioIsValid, PTL

(* A run that claims evidence has the owners' signatures, shares and proofs. *)
THEOREM EvidenceIsTheOwners == Spec => []EvidenceIsProven
<1>1. VerifyInv /\ sc \in Scenarios => EvidenceIsProven
  <2> SUFFICES ASSUME VerifyInv, sc \in Scenarios, IsEvidence PROVE EvidenceIsProven
    BY DEF EvidenceIsProven
  <2>1. Verified BY DEF VerifyInv
  <2> QED BY <2>1, VerifiedIsProven
<1> QED BY <1>1, VerifyInvariant, ScenarioIsValid, PTL

-----------------------------------------------------------------------------
(* The lab                                                                   *)

(* The flags, the sighashes and the rest of a PSBT's meaning, one by one.    *)
FlagsOf(c) == IF TxModifiable \in DOMAIN c THEN c[TxModifiable] ELSE {}

SighashOf(psbt, c, i) ==
  LET in == psbt.inputs[i]  e == Entry("input", i, "sighash")
  IN IF in.type = "p2wpkh" \/ (e \in DOMAIN c /\ c[e] # "default")
       THEN IF e \in DOMAIN c THEN c[e] ELSE "none"
       ELSE IF HasTaprootSighashAllSignature(in) THEN "all" ELSE "default"

IdleOf(psbt, c) ==
  {e \in DOMAIN c : \/ e = TxModifiable \/ e.field = "sighash"
                    \/ /\ e.field = "script" /\ e.index \in SilentOutputs(psbt)
                       /\ c[e] = EmptyScript}

LEMMA MeaningByParts ==
  ASSUME NEW psbt, NEW c, NEW d,
         FlagsOf(c) = FlagsOf(d),
         \A i \in DOMAIN psbt.inputs : SighashOf(psbt, c, i) = SighashOf(psbt, d, i),
         DOMAIN c \ IdleOf(psbt, c) = DOMAIN d \ IdleOf(psbt, d),
         \A e \in DOMAIN c \ IdleOf(psbt, c) : c[e] = d[e]
  PROVE  Meaning(psbt, c) = Meaning(psbt, d)
<1>1. ASSUME NEW b
      PROVE  Meaning(psbt, b) =
               [flags |-> FlagsOf(b),
                sighash |-> [i \in DOMAIN psbt.inputs |-> SighashOf(psbt, b, i)],
                rest |-> [e \in DOMAIN b \ IdleOf(psbt, b) |-> b[e]]]
  BY DEF Meaning, FlagsOf, SighashOf, IdleOf
<1>2. [i \in DOMAIN psbt.inputs |-> SighashOf(psbt, c, i)]
        = [i \in DOMAIN psbt.inputs |-> SighashOf(psbt, d, i)]
  OBVIOUS
<1>3. [e \in DOMAIN c \ IdleOf(psbt, c) |-> c[e]] = [e \in DOMAIN d \ IdleOf(psbt, d) |-> d[e]]
  OBVIOUS
<1> QED BY <1>1, <1>2, <1>3

(* rust-psbt-v2's empty scripts say nothing a silent output did not say.     *)
LEMMA EmptyScriptsSayNothing ==
  ASSUME NEW psbt, NEW after, AddsEmptyScripts(psbt, after)
  PROVE  Meaning(psbt, after) = Meaning(psbt, Container(psbt))
<1> DEFINE before == Container(psbt)
<1>1. /\ Removed(before, after) = {} /\ Modified(before, after) = {}
      /\ {e.index : e \in Added(before, after)} = Unresolved(psbt)
      /\ \A e \in Added(before, after) :
           e.scope = "output" /\ e.field = "script" /\ after[e] = EmptyScript
  BY DEF AddsEmptyScripts
<1> HIDE DEF before
<1>2. /\ DOMAIN before \subseteq DOMAIN after
      /\ \A e \in DOMAIN before : after[e] = before[e]
  BY <1>1 DEF Removed, Modified
<1>3. \A e \in DOMAIN after \ DOMAIN before :
        /\ e.scope = "output" /\ e.field = "script" /\ after[e] = EmptyScript
        /\ e.index \in SilentOutputs(psbt)
  BY <1>1 DEF Added, Unresolved
<1>4. TxModifiable \in DOMAIN after => TxModifiable \in DOMAIN before
  BY <1>3 DEF TxModifiable, Entry
<1>5. \A i : Entry("input", i, "sighash") \in DOMAIN after
               => Entry("input", i, "sighash") \in DOMAIN before
  BY <1>3 DEF Entry
<1>6. FlagsOf(after) = FlagsOf(before)
  BY <1>2, <1>4 DEF FlagsOf
<1>7. \A i \in DOMAIN psbt.inputs : SighashOf(psbt, after, i) = SighashOf(psbt, before, i)
  BY <1>2, <1>5 DEF SighashOf
<1>8. IdleOf(psbt, after) = IdleOf(psbt, before) \cup (DOMAIN after \ DOMAIN before)
  BY <1>2, <1>3 DEF IdleOf
<1>9. DOMAIN after \ IdleOf(psbt, after) = DOMAIN before \ IdleOf(psbt, before)
  <2>1. IdleOf(psbt, before) \subseteq DOMAIN before BY DEF IdleOf
  <2> QED BY <1>2, <1>8, <2>1
<1>10. \A e \in DOMAIN after \ IdleOf(psbt, after) : after[e] = before[e]
  BY <1>2, <1>9
<1> QED BY <1>6, <1>7, <1>9, <1>10, MeaningByParts DEF before

(* What libwally may drop says nothing either.                               *)
LEMMA RedundantDropsSayNothing ==
  ASSUME NEW psbt, NEW after,
         Added(Container(psbt), after) = {}, Modified(Container(psbt), after) = {},
         \A e \in Removed(Container(psbt), after) : Redundant(psbt, e)
  PROVE  Meaning(psbt, after) = Meaning(psbt, Container(psbt))
<1> DEFINE before == Container(psbt)
<1>1. /\ DOMAIN after \subseteq DOMAIN before
      /\ \A e \in DOMAIN after : after[e] = before[e]
      /\ \A e \in DOMAIN before \ DOMAIN after : Redundant(psbt, e)
  BY DEF Added, Modified, Removed
<1>2. TxModifiable \in DOMAIN before => before[TxModifiable] = psbt.modifiable
  BY DEF Container, TxModifiable, Entry
<1>3. \A i : Entry("input", i, "sighash") \in DOMAIN before
               => before[Entry("input", i, "sighash")] = psbt.inputs[i].sighash
  BY DEF Container, Entry
<1> HIDE DEF before
<1>4. FlagsOf(after) = FlagsOf(before)
  <2>1. CASE TxModifiable \in DOMAIN before \ DOMAIN after
    <3>1. psbt.modifiable = {}
      BY <1>1, <2>1 DEF Redundant, TxModifiable, Entry
    <3> QED BY <1>2, <2>1, <3>1 DEF FlagsOf
  <2>2. CASE ~ TxModifiable \in DOMAIN before \ DOMAIN after
    BY <1>1, <2>2 DEF FlagsOf
  <2> QED BY <2>1, <2>2
<1>5. ASSUME NEW i \in DOMAIN psbt.inputs
      PROVE  SighashOf(psbt, after, i) = SighashOf(psbt, before, i)
  <2> DEFINE e == Entry("input", i, "sighash")
  <2>1. CASE e \in DOMAIN before \ DOMAIN after
    <3>1. /\ e # TxModifiable /\ e.index = i
      BY DEF Entry, TxModifiable
    <3>2. /\ psbt.inputs[i].type # "p2wpkh"
          /\ \/ psbt.inputs[i].sighash = "default"
             \/ /\ psbt.inputs[i].sighash = "all"
                /\ HasTaprootSighashAllSignature(psbt.inputs[i])
      BY <1>1, <2>1, <3>1 DEF Redundant, SpendsTaproot
    <3>3. before[e] = psbt.inputs[i].sighash
      BY <1>3, <2>1
    <3> QED BY <2>1, <3>2, <3>3 DEF SighashOf
  <2>2. CASE ~ e \in DOMAIN before \ DOMAIN after
    BY <1>1, <2>2 DEF SighashOf
  <2> QED BY <2>1, <2>2
<1>6. DOMAIN after \ IdleOf(psbt, after) = DOMAIN before \ IdleOf(psbt, before)
  <2>1. \A e \in DOMAIN before \ DOMAIN after : e \in IdleOf(psbt, before)
    BY <1>1 DEF Redundant, IdleOf
  <2>2. \A e \in DOMAIN after : e \in IdleOf(psbt, after) <=> e \in IdleOf(psbt, before)
    BY <1>1 DEF IdleOf
  <2> QED BY <1>1, <2>1, <2>2
<1>7. \A e \in DOMAIN after \ IdleOf(psbt, after) : after[e] = before[e]
  BY <1>1
<1> QED BY <1>4, <1>5, <1>6, <1>7, MeaningByParts DEF before

(* A change the stage knows of leaves what the PSBT says: only what it calls *)
(* unexpected can alter it.                                                  *)
THEOREM KnownChangesSayNothing ==
  ASSUME NEW adapter, NEW psbt, NEW after,
         KnownRoundtripChange(adapter, psbt, after) # "unexpected-roundtrip-change"
  PROVE  Meaning(psbt, after) = Meaning(psbt, Container(psbt))
<1>1. CASE Container(psbt) = after BY <1>1
<1>2. CASE AddsEmptyScripts(psbt, after) BY <1>2, EmptyScriptsSayNothing
<1>3. CASE /\ Added(Container(psbt), after) = {} /\ Modified(Container(psbt), after) = {}
           /\ \A e \in Removed(Container(psbt), after) : Redundant(psbt, e)
  BY <1>3, RedundantDropsSayNothing
<1> QED BY <1>1, <1>2, <1>3 DEF KnownRoundtripChange

(* What an answer adds to a file can only make it fail.                      *)
LEMMA FailureStays ==
  ASSUME NEW m, NEW n, NEW approved, ~ FilePasses(m, approved)
  PROVE  ~ FilePasses(Both(m, n), approved) /\ ~ FilePasses(Both(n, m), approved)
  BY DEF FilePasses, Both, Mark

Count == passed \in Nat /\ file \in {0, 1, 2} /\ harm \in BOOLEAN

(* Something that should not pass has made its file fail, or is about to.    *)
Caught(m) == harm => passed < file - 1 \/ ~ FilePasses(m, allowed)

LabInv ==
  /\ Count
  /\ pc \in {"prepare", "author", "devices", "validators"} => file = 0
  /\ file = 0 => ~ harm /\ passed = 0
  /\ pc = "lab" /\ file > 0 => passed <= file - 1 /\ Caught(mark)
  /\ lab = "passed" => ~ harm /\ pc \in {"finalize", "done"}
  /\ reader \in Adapters \cup {"parsers"}
  /\ reader = "parsers" => mark = Mark({}, FALSE)

(* A judged answer keeps the books, if harm it brought makes its file fail.  *)
LEMMA JudgedCaught ==
  ASSUME LabInv, NEW m, pc = "lab", file > 0, Judged(m), allowed' = allowed,
         reader \in Adapters,
         harm' => harm \/ ~ FilePasses(m, allowed), harm' \in BOOLEAN
  PROVE  LabInv'
<1> DEFINE sum == Both(mark, m)
<1>1. harm' => passed < file - 1 \/ ~ FilePasses(sum, allowed)
  BY FailureStays DEF LabInv, Caught
<1> HIDE DEF sum
<1>2. passed \in Nat /\ file \in {1, 2} /\ passed <= file - 1 /\ lab # "passed"
  BY DEF LabInv, Count
<1>3. CASE reader # "libwally"
  <2>1. /\ mark' = sum /\ reader' = NextReader
        /\ lab' = lab /\ pc' = pc /\ file' = file /\ passed' = passed
    BY <1>3 DEF Judged, sum
  <2> QED BY <1>1, <1>2, <2>1 DEF LabInv, Count, Caught, NextReader, Adapters
<1>4. CASE reader = "libwally"
  <2> DEFINE total == IF FilePasses(sum, allowed) THEN passed + 1 ELSE passed
  <2>1. /\ mark' = Mark({}, FALSE) /\ passed' = total
        /\ IF file < Len(Snapshots)
             THEN file' = file + 1 /\ reader' = "parsers" /\ lab' = lab /\ pc' = pc
             ELSE /\ lab' = IF total = Len(Snapshots) THEN "passed" ELSE "failed"
                  /\ pc' = "finalize" /\ file' = file /\ reader' = reader
    BY <1>4 DEF Judged, FileDone, sum
  <2>2. Len(Snapshots) = 2 BY DEF Snapshots
  <2>3. total \in Nat /\ total <= file /\ (harm' => total < file)
    BY <1>1, <1>2
  <2> HIDE DEF total
  <2>4. CASE file = 1
    <3>1. file' = 2 /\ reader' = "parsers" /\ lab' = lab /\ pc' = pc
      BY <2>1, <2>2, <2>4
    <3>2. passed' \in Nat /\ passed' <= file' - 1 /\ (harm' => passed' < file' - 1)
      BY <2>1, <2>3, <2>4, <3>1
    <3>3. Caught(mark)' BY <3>2 DEF Caught
    <3>4. lab' # "passed" /\ pc' = "lab" /\ mark' = Mark({}, FALSE)
      BY <1>2, <2>1, <3>1
    <3> QED BY <3>1, <3>2, <3>3, <3>4 DEF LabInv, Count
  <2>5. CASE file = 2
    <3>1. /\ lab' = IF total = 2 THEN "passed" ELSE "failed"
          /\ pc' = "finalize" /\ file' = 2 /\ reader' = reader
      BY <2>1, <2>2, <2>5
    <3> QED BY <1>2, <1>4, <2>1, <2>3, <2>5, <3>1 DEF LabInv, Count
  <2> QED BY <1>2, <2>4, <2>5
<1> QED BY <1>3, <1>4

(* A refusal, junk, or another PSBT, when it should not pass, fails its file. *)
LEMMA AdapterCaught ==
  ASSUME LabInv, NEW a \in Adapters,
         ReadAdapter(a) \/ AdapterRefuses(a) \/ AdapterReturnsJunk(a) \/ AdapterChanges(a)
  PROVE  LabInv'
<1> DEFINE psbt == Snapshots[file]
<1>1. pc = "lab" /\ file > 0 /\ reader = a /\ allowed' = allowed
  BY DEF ReadAdapter, AdapterRefuses, AdapterReturnsJunk, AdapterChanges, Reading
<1>2. harm \in BOOLEAN BY DEF LabInv, Count
<1>3. CASE ReadAdapter(a)
  BY <1>1, <1>2, <1>3, JudgedCaught DEF ReadAdapter
<1>4. CASE AdapterRefuses(a)
  <2>1. PICK parsed \in Outcomes, rounded \in Outcomes :
          /\ {parsed, rounded} # {"ok"}
          /\ Judged(Both(NativeMark(a, psbt, parsed), RefusedMark(a, psbt, rounded)))
          /\ harm' = (harm \/ a # "libwally" \/ Resolved \/ "error" \in {parsed, rounded}
                        \/ (parsed # "ok" /\ allowed = {}))
    BY <1>4 DEF AdapterRefuses
  <2> DEFINE native == NativeMark(a, psbt, parsed)  refused == RefusedMark(a, psbt, rounded)
  <2>2. harm' => harm \/ ~ FilePasses(native, allowed) \/ ~ FilePasses(refused, allowed)
    BY <2>1 DEF FilePasses, NativeMark, RefusedMark, Rejection, Mark, Resolved, Outcomes
  <2>3. harm' => harm \/ ~ FilePasses(Both(native, refused), allowed)
    BY <2>2, FailureStays
  <2> QED BY <1>1, <1>2, <2>1, <2>3, JudgedCaught
<1>5. CASE AdapterReturnsJunk(a)
  <2>1. ~ FilePasses(InvalidMark, allowed)
    BY DEF FilePasses, InvalidMark, Mark
  <2> QED BY <1>1, <1>5, <2>1, JudgedCaught DEF AdapterReturnsJunk
<1>6. CASE AdapterChanges(a)
  <2>1. PICK after \in Changed(psbt) :
          /\ Judged(ReturnedMark(a, psbt, after))
          /\ harm' = (harm \/ allowed = {}
                        \/ Meaning(psbt, after) # Meaning(psbt, Container(psbt)))
    BY <1>6 DEF AdapterChanges
  <2>2. after # Container(psbt) BY DEF Changed
  <2>3. KnownRoundtripChange(a, psbt, after) # "none"
    BY <2>2 DEF KnownRoundtripChange, DropFinding
  <2>4. ASSUME FilePasses(ReturnedMark(a, psbt, after), allowed)
        PROVE  allowed # {} /\ Meaning(psbt, after) = Meaning(psbt, Container(psbt))
    <3>1. KnownRoundtripChange(a, psbt, after) # "unexpected-roundtrip-change"
      BY <2>4 DEF FilePasses, ReturnedMark, Mark
    <3>2. KnownRoundtripChange(a, psbt, after) \in allowed
      BY <2>3, <2>4, <3>1 DEF FilePasses, ReturnedMark, Mark
    <3> QED BY <3>1, <3>2, KnownChangesSayNothing
  <2>5. harm' => harm \/ ~ FilePasses(ReturnedMark(a, psbt, after), allowed)
    BY <2>1, <2>4
  <2> HIDE DEF psbt
  <2> QED BY <1>1, <1>2, <2>1, <2>5, JudgedCaught
<1> QED BY <1>3, <1>4, <1>5, <1>6

(* So is an answer of the parsers, which comes first.                        *)
LEMMA ParsersCaught ==
  ASSUME LabInv, ReadParsers
  PROVE  LabInv'
<1> DEFINE psbt == Snapshots[file]
<1>1. PICK own \in Outcomes, js \in Outcomes :
        /\ mark' = ParserMark(psbt, own, js)
        /\ harm' = (harm \/ own # "ok" \/ (js # "ok" /\ (Resolved \/ allowed = {})))
  BY DEF ReadParsers
<1>2. /\ pc = "lab" /\ file > 0 /\ reader = "parsers" /\ reader' = NextReader
      /\ pc' = pc /\ lab' = lab /\ allowed' = allowed /\ file' = file /\ passed' = passed
  BY DEF ReadParsers, Reading
<1>3. harm => passed < file - 1
  BY <1>2 DEF LabInv, Caught, FilePasses, Mark
<1>4. harm' => harm \/ ~ FilePasses(ParserMark(psbt, own, js), allowed)
  BY <1>1 DEF FilePasses, ParserMark, Rejection, Mark, Resolved, Outcomes
<1>5. Caught(mark)' BY <1>1, <1>2, <1>3, <1>4 DEF Caught
<1>6. harm' \in BOOLEAN BY <1>1 DEF LabInv, Count
<1> QED BY <1>2, <1>5, <1>6 DEF LabInv, Count, NextReader, Adapters

THEOREM LabInvariant == Spec => []LabInv
<1>1. Init => LabInv
  <2> SUFFICES ASSUME Init PROVE LabInv OBVIOUS
  <2>1. harm \in BOOLEAN /\ ~ harm BY DEF Init
  <2>2. pc = "prepare" /\ lab = "not-run" /\ file = 0 /\ passed = 0
    BY DEF Init
  <2>3. reader = "parsers" /\ mark = Mark({}, FALSE) BY DEF Init
  <2> QED BY <2>1, <2>2, <2>3 DEF LabInv, Count
<1>2. LabInv /\ [Next]_vars => LabInv'
  <2> SUFFICES ASSUME LabInv, [Next]_vars PROVE LabInv' OBVIOUS
  <2> USE DEF LabInv, Count, labVars
  <2>1. CASE Prepare BY <2>1 DEF Prepare
  <2>2. CASE AuthorDiffers BY <2>2 DEF AuthorDiffers
  <2>3. CASE RunRounds BY <2>3 DEF RunRounds
  <2>4. CASE RequireFails BY <2>4 DEF RequireFails, Recorded
  <2>5. CASE DeviceDiffers BY <2>5 DEF DeviceDiffers
  <2>6. CASE Verify BY <2>6 DEF Verify, Recorded
  <2>7. CASE RunValidators
    <3>1. pc = "validators" /\ pc' = "lab" /\ UNCHANGED labVars
      BY <2>7 DEF RunValidators
    <3>2. file' = 0 /\ UNCHANGED <<harm, passed, lab, reader, mark>> BY <3>1
    <3>3. Count' BY <3>2
    <3>4. (pc \in {"prepare", "author", "devices", "validators"} => file = 0)' BY <3>1
    <3>5. (file = 0 => ~ harm /\ passed = 0)' BY <3>1, <3>2
    <3>6. (pc = "lab" /\ file > 0 => passed <= file - 1 /\ Caught(mark))' BY <3>2
    <3>7. (lab = "passed" => ~ harm /\ pc \in {"finalize", "done"})' BY <3>1, <3>2
    <3>8. (reader \in Adapters \cup {"parsers"})' BY <3>2
    <3>9. (reader = "parsers" => mark = Mark({}, FALSE))' BY <3>2
    <3> QED BY <3>3, <3>4, <3>5, <3>6, <3>7, <3>8, <3>9
  <2>8. CASE NoLab BY <2>8 DEF NoLab
  <2>9. CASE LabUnavailable BY <2>9 DEF LabUnavailable
  <2>10. CASE LabFails BY <2>10 DEF LabFails
  <2>11. CASE LabAnswers
    <3>1. /\ pc = "lab" /\ pc' = "lab" /\ file' = 1
          /\ UNCHANGED <<harm, passed, lab, reader, mark>>
      BY <2>11 DEF LabAnswers
    <3>2. ~ harm /\ passed = 0 BY <2>11 DEF LabAnswers
    <3>3. Count' BY <3>1, <3>2
    <3>4. (pc \in {"prepare", "author", "devices", "validators"} => file = 0)' BY <3>1
    <3>5. (file = 0 => ~ harm /\ passed = 0)' BY <3>1
    <3>6. (pc = "lab" /\ file > 0 => passed <= file - 1 /\ Caught(mark))'
      BY <3>1, <3>2 DEF Caught
    <3>7. (lab = "passed" => ~ harm /\ pc \in {"finalize", "done"})' BY <3>1, <3>2
    <3>8. (reader \in Adapters \cup {"parsers"})' BY <3>1
    <3>9. (reader = "parsers" => mark = Mark({}, FALSE))' BY <3>1
    <3> QED BY <3>3, <3>4, <3>5, <3>6, <3>7, <3>8, <3>9
  <2>12. CASE ReadParsers BY <2>12, ParsersCaught
  <2>13. ASSUME NEW a \in Adapters,
                ReadAdapter(a) \/ AdapterRefuses(a) \/ AdapterReturnsJunk(a) \/ AdapterChanges(a)
         PROVE  LabInv'
    BY <2>13, AdapterCaught
  <2>14. ASSUME NEW a \in Adapters, AdapterAnswersHalf(a) PROVE LabInv'
    BY <2>14 DEF AdapterAnswersHalf, Recorded
  <2>15. CASE Finalize BY <2>15 DEF Finalize, Recorded
  <2>16. CASE FinalizeRaises BY <2>16 DEF FinalizeRaises, Recorded
  <2>17. CASE UNCHANGED vars
    <3>1. UNCHANGED <<pc, file, harm, passed, lab, reader, mark, allowed>> BY <2>17 DEF vars
    <3>2. Caught(mark)' <=> Caught(mark) BY <3>1 DEF Caught
    <3> QED BY <3>1, <3>2
  <2> QED
    BY <2>1, <2>2, <2>3, <2>4, <2>5, <2>6, <2>7, <2>8, <2>9, <2>10, <2>11, <2>12, <2>13,
       <2>14, <2>15, <2>16, <2>17 DEF Next
<1> QED BY <1>1, <1>2, PTL DEF Spec

(* A manifest that says evidence is that of a run whose lab passed, then and *)
(* since.                                                                    *)
ClaimedAfterLab == /\ IsEvidence => lab = "passed"
                   /\ pc # "done" => manifest = NoManifest

THEOREM EvidenceAfterLab == Spec => []ClaimedAfterLab
<1>1. Init => ClaimedAfterLab
  BY DEF Init, ClaimedAfterLab, IsEvidence, NoManifest
<1>2. ClaimedAfterLab /\ [Next]_vars => ClaimedAfterLab'
  <2> SUFFICES ASSUME ClaimedAfterLab, [Next]_vars PROVE ClaimedAfterLab' OBVIOUS
  <2> USE DEF ClaimedAfterLab, labVars, IsEvidence
  <2>a. NoManifest.scope # "evidence" BY DEF NoManifest
  <2>b. ASSUME NEW status, Recorded(status), lab' = lab PROVE ClaimedAfterLab'
    <3>1. pc' = "done" /\ manifest'.scope = ManifestClaim(sc, FALSE, records, lab).scope
      BY <2>b DEF Recorded
    <3> QED BY <2>b, <3>1, ClaimNeedsLab
  <2>c. ASSUME pc # "done", manifest' = manifest PROVE ClaimedAfterLab'
    BY <2>a, <2>c
  <2>1. CASE Prepare \/ AuthorDiffers \/ RunRounds \/ DeviceDiffers
    BY <2>1, <2>c DEF Prepare, AuthorDiffers, RunRounds, DeviceDiffers
  <2>2. CASE RequireFails \/ Finalize \/ FinalizeRaises
    BY <2>2, <2>b DEF RequireFails, Finalize, FinalizeRaises
  <2>3. CASE Verify BY <2>3, <2>b, <2>c DEF Verify
  <2>4. CASE RunValidators \/ NoLab \/ LabUnavailable \/ LabFails \/ LabAnswers \/ ReadParsers
    BY <2>4, <2>c
    DEF RunValidators, NoLab, LabUnavailable, LabFails, LabAnswers, ReadParsers, Reading
  <2>5. ASSUME NEW a \in Adapters,
               ReadAdapter(a) \/ AdapterRefuses(a) \/ AdapterReturnsJunk(a) \/ AdapterChanges(a)
        PROVE  ClaimedAfterLab'
    BY <2>5, <2>c DEF ReadAdapter, AdapterRefuses, AdapterReturnsJunk, AdapterChanges, Reading
  <2>6. ASSUME NEW a \in Adapters, AdapterAnswersHalf(a) PROVE ClaimedAfterLab'
    BY <2>6, <2>b DEF AdapterAnswersHalf
  <2>7. CASE UNCHANGED vars BY <2>7 DEF vars
  <2> QED BY <2>1, <2>2, <2>3, <2>4, <2>5, <2>6, <2>7 DEF Next
<1> QED BY <1>1, <1>2, PTL DEF Spec

(* A run that claims evidence had every snapshot read by the parsers, and    *)
(* returned by the adapters with its meaning; whatever was approved.         *)
THEOREM EvidenceCameThroughTheLab == Spec => []EvidenceRoundTrips
<1>1. LabInv /\ ClaimedAfterLab => EvidenceRoundTrips
  BY DEF LabInv, ClaimedAfterLab, EvidenceRoundTrips
<1> QED BY <1>1, LabInvariant, EvidenceAfterLab, PTL

-----------------------------------------------------------------------------
(* An honest run                                                           *)

(* The scenarios whose honest runs may claim evidence.                       *)
Sound ==
  /\ sc.inputs # <<>> /\ Owners(sc) \subseteq sc.signers
  /\ release /\ sc.verification = "full" /\ sc.policy = "strict" /\ sc.intent
  /\ sc.validators = KnownValidators

(* What a scenario that may be run says of its inputs and outputs.          *)
LEMMA ScenarioParts ==
  ASSUME sc \in Scenarios
  PROVE  /\ sc.suite = "bip375" /\ sc.mode \in {"per-input", "global"}
         /\ \A i \in DOMAIN sc.inputs :
              /\ sc.inputs[i].owner \in Name
              /\ sc.inputs[i].utxo \in {"witness", "full", "both"}
         /\ \A o \in DOMAIN sc.outputs :
              /\ sc.outputs[o].to \in Recipient \cup {NoValue}
              /\ sc.outputs[o].type \in {"silent-payment", "p2wpkh", "p2tr"}
              /\ sc.outputs[o].to = NoValue <=> sc.outputs[o].type \in {"p2wpkh", "p2tr"}
<1>1. ValidScenario(sc) BY EvidenceAssumption
<1>2. ASSUME NEW i \in DOMAIN sc.inputs
      PROVE  sc.inputs[i] \in [type : InputTypes, owner : Name,
                               utxo : {"witness", "full", "both"}, sighash : {"all", "default"}]
  <2>1. i \in 1 .. Len(sc.inputs) BY <1>1, LenProperties DEF ValidScenario
  <2> QED BY <1>1, <2>1, ElementOfSeq DEF ValidScenario
<1>3. ASSUME NEW o \in DOMAIN sc.outputs
      PROVE  sc.outputs[o] \in [type : {"silent-payment", "p2wpkh", "p2tr"},
                                to : Recipient \cup {NoValue}]
  <2>1. o \in 1 .. Len(sc.outputs) BY <1>1, LenProperties DEF ValidScenario
  <2> QED BY <1>1, <2>1, ElementOfSeq DEF ValidScenario
<1> QED BY <1>1, <1>2, <1>3 DEF ValidScenario

(* What has as many inputs as such a scenario has some.                      *)
LEMMA SomeInput ==
  ASSUME sc \in Scenarios, sc.inputs # <<>>, NEW inputs, DOMAIN inputs = DOMAIN sc.inputs
  PROVE  inputs # <<>>
<1>1. sc.inputs \in Seq([type : InputTypes, owner : Name,
                         utxo : {"witness", "full", "both"}, sighash : {"all", "default"}])
  BY EvidenceAssumption DEF ValidScenario
<1>2. Len(sc.inputs) # 0 /\ Len(sc.inputs) \in Nat /\ DOMAIN sc.inputs = 1 .. Len(sc.inputs)
  BY <1>1, LenProperties, EmptySeq
<1>3. DOMAIN <<>> = {} OBVIOUS
<1>4. 1 \in DOMAIN inputs BY <1>2
<1> QED BY <1>3, <1>4

(* The PSBT nobody signed, part by part.                                     *)
LEMMA PreparedParts ==
  ASSUME sc \in Scenarios, NEW psbt, psbt = Prepared(sc)
  PROVE  /\ psbt.inputs = [i \in DOMAIN sc.inputs |-> psbt.inputs[i]]
         /\ psbt.outputs = [o \in DOMAIN sc.outputs |-> psbt.outputs[o]]
         /\ \A i \in DOMAIN sc.inputs :
              /\ psbt.inputs[i].key = sc.inputs[i].owner
              /\ psbt.inputs[i].lock = sc.inputs[i].owner
              /\ psbt.inputs[i].type = sc.inputs[i].type /\ psbt.inputs[i].amount = 1
              /\ psbt.inputs[i].utxo = sc.inputs[i].utxo
         /\ \A o \in DOMAIN sc.outputs :
              /\ psbt.outputs[o].amount = 1 /\ psbt.outputs[o].info = sc.outputs[o].to
              /\ sc.outputs[o].to = NoValue =>
                   psbt.outputs[o].script = Plain(sc.outputs[o].type)
         /\ SilentOutputs(psbt) = {o \in DOMAIN sc.outputs : sc.outputs[o].to # NoValue}
<1>1. /\ psbt.inputs = [i \in DOMAIN sc.inputs |->
            [utxo |-> sc.inputs[i].utxo, type |-> sc.inputs[i].type, amount |-> 1,
             key |-> sc.inputs[i].owner, lock |-> sc.inputs[i].owner,
             share |-> [r \in Recipient |-> NoValue], proof |-> [r \in Recipient |-> NoValue],
             partial |-> <<>>, tap |-> NoValue, form |-> "64",
             sighash |-> sc.inputs[i].sighash]]
      /\ psbt.outputs = [o \in DOMAIN sc.outputs |->
            [amount |-> 1, info |-> sc.outputs[o].to,
             script |-> IF sc.outputs[o].to # NoValue THEN NoScript
                                                      ELSE Plain(sc.outputs[o].type)]]
  BY DEF Prepared
<1> QED BY <1>1 DEF SilentOutputs

(* What an honest device makes of an input.                                 *)
LEMMA HonestInput ==
  ASSUME sc \in Scenarios, NEW i \in DOMAIN sc.inputs, NEW paid,
         NEW made, made = CompletedInput(Prepared(sc).inputs[i], paid)
  PROVE  /\ made.key = sc.inputs[i].owner /\ made.lock = sc.inputs[i].owner
         /\ made.type = sc.inputs[i].type /\ made.amount = 1
         /\ \A r \in Recipient \cap paid :
              made.share[r] = sc.inputs[i].owner /\ made.proof[r] = sc.inputs[i].owner
         /\ made.type = "p2wpkh" => PartialHolds(made, sc.inputs[i].owner)
         /\ made.type # "p2wpkh" => TapHolds(made)
<1> DEFINE in == Prepared(sc).inputs[i]
           owner == sc.inputs[i].owner
           shared == [r \in Recipient |-> IF r \in paid THEN owner ELSE NoValue]
<1>1. in = [utxo |-> sc.inputs[i].utxo, type |-> sc.inputs[i].type, amount |-> 1,
            key |-> owner, lock |-> owner,
            share |-> [r \in Recipient |-> NoValue], proof |-> [r \in Recipient |-> NoValue],
            partial |-> <<>>, tap |-> NoValue, form |-> "64", sighash |-> sc.inputs[i].sighash]
  BY DEF Prepared
<1>2. owner # Stranger BY ScenarioParts, VerificationAssumption
<1> HIDE DEF in
<1>3. in.key = owner BY <1>1
<1>4. made = [in EXCEPT !.share = shared, !.proof = shared,
                        !.partial = IF in.type = "p2wpkh"
                                      THEN <<[key |-> owner, by |-> owner]>> ELSE <<>>,
                        !.tap = IF in.type = "p2wpkh" THEN NoValue ELSE owner,
                        !.form = IF in.sighash = "all" THEN "65-all" ELSE "64"]
  BY <1>2, <1>3 DEF CompletedInput, in
<1> HIDE DEF shared, owner
<1>5. /\ made.key = owner /\ made.lock = owner
      /\ made.type = sc.inputs[i].type /\ made.type = in.type /\ made.amount = 1
      /\ made.share = shared /\ made.proof = shared
      /\ made.partial = IF in.type = "p2wpkh" THEN <<[key |-> owner, by |-> owner]>> ELSE <<>>
      /\ made.tap = IF in.type = "p2wpkh" THEN NoValue ELSE owner
      /\ made.form = IF in.sighash = "all" THEN "65-all" ELSE "64"
  BY <1>1, <1>4
<1>6. \A r \in Recipient \cap paid : made.share[r] = owner /\ made.proof[r] = owner
  BY <1>5 DEF shared
<1>7. made.type = "p2wpkh" => PartialHolds(made, owner) BY <1>5 DEF PartialHolds
<1>8. made.type # "p2wpkh" => TapHolds(made) BY <1>5 DEF TapHolds
<1> QED BY <1>5, <1>6, <1>7, <1>8 DEF owner

(* The recipients that have a share of every input, not a global one.        *)
PaidByInputs(psbt) == IF GlobalShares(sc) THEN {} ELSE Recipients(psbt)

(* The PSBT honest devices make of the scenario's, part by part.             *)
LEMMA HonestFinal ==
  ASSUME sc \in Scenarios, NEW psbt, psbt = Prepared(sc), NEW made, made = Completed(psbt)
  PROVE  /\ DOMAIN made.inputs = DOMAIN sc.inputs
         /\ \A i \in DOMAIN sc.inputs :
              made.inputs[i] = CompletedInput(psbt.inputs[i], PaidByInputs(psbt))
         /\ DOMAIN made.outputs = DOMAIN sc.outputs
         /\ \A o \in DOMAIN sc.outputs :
              made.outputs[o] = IF o \in SilentOutputs(psbt)
                                  THEN [psbt.outputs[o] EXCEPT !.script = Derived(psbt, o)]
                                  ELSE psbt.outputs[o]
         /\ \A r \in Recipient :
              /\ made.share[r] = IF GlobalShares(sc) /\ r \in Recipients(psbt)
                                   THEN Keys(psbt) ELSE <<>>
              /\ made.proof[r] = made.share[r]
         /\ made.modifiable = {}
<1>1. DOMAIN psbt.inputs = DOMAIN sc.inputs /\ DOMAIN psbt.outputs = DOMAIN sc.outputs
  BY DEF Prepared
<1>2. DOMAIN psbt = {"inputs", "outputs", "share", "proof", "modifiable"}
      /\ psbt = [f \in DOMAIN psbt |-> psbt[f]]
  BY DEF Prepared
<1> QED BY <1>1, <1>2 DEF Completed, PaidByInputs

(* Its outputs: the recipients', each with the script derived for it.        *)
LEMMA HonestOutputs ==
  ASSUME sc \in Scenarios, NEW psbt, psbt = Prepared(sc), NEW made, made = Completed(psbt)
  PROVE  /\ DOMAIN made.outputs = DOMAIN sc.outputs
         /\ \A o \in DOMAIN sc.outputs :
              /\ made.outputs[o].amount = 1 /\ made.outputs[o].info = sc.outputs[o].to
              /\ made.outputs[o].script = IF sc.outputs[o].to # NoValue THEN Derived(psbt, o)
                                          ELSE Plain(sc.outputs[o].type)
         /\ SilentOutputs(made) = SilentOutputs(psbt) /\ Recipients(made) = Recipients(psbt)
         /\ Recipients(psbt) \subseteq Recipient
<1>1. /\ DOMAIN made.outputs = DOMAIN sc.outputs
      /\ \A o \in DOMAIN sc.outputs :
           made.outputs[o] = IF o \in SilentOutputs(psbt)
                               THEN [psbt.outputs[o] EXCEPT !.script = Derived(psbt, o)]
                               ELSE psbt.outputs[o]
  BY HonestFinal
<1>2. /\ SilentOutputs(psbt) = {o \in DOMAIN sc.outputs : sc.outputs[o].to # NoValue}
      /\ \A o \in DOMAIN sc.outputs :
           /\ psbt.outputs[o].amount = 1 /\ psbt.outputs[o].info = sc.outputs[o].to
           /\ sc.outputs[o].to = NoValue => psbt.outputs[o].script = Plain(sc.outputs[o].type)
  BY PreparedParts
<1>3. \A o \in DOMAIN sc.outputs : DOMAIN psbt.outputs[o] = {"amount", "info", "script"}
  BY DEF Prepared
<1>4. ASSUME NEW o \in DOMAIN sc.outputs
      PROVE  /\ made.outputs[o].amount = 1 /\ made.outputs[o].info = sc.outputs[o].to
             /\ made.outputs[o].script = IF sc.outputs[o].to # NoValue THEN Derived(psbt, o)
                                         ELSE Plain(sc.outputs[o].type)
  <2>1. CASE sc.outputs[o].to = NoValue
    <3>1. made.outputs[o] = psbt.outputs[o] BY <1>1, <1>2, <2>1
    <3> QED BY <1>2, <2>1, <3>1
  <2>2. CASE sc.outputs[o].to # NoValue
    <3>1. made.outputs[o] = [psbt.outputs[o] EXCEPT !.script = Derived(psbt, o)]
      BY <1>1, <1>2, <2>2
    <3> QED BY <1>2, <1>3, <2>2, <3>1
  <2> QED BY <2>1, <2>2
<1>5. SilentOutputs(made) = SilentOutputs(psbt) BY <1>1, <1>2, <1>4 DEF SilentOutputs
<1>6. Recipients(made) = {sc.outputs[o].to : o \in SilentOutputs(psbt)}
  BY <1>2, <1>4, <1>5 DEF Recipients
<1>7. Recipients(psbt) = {sc.outputs[o].to : o \in SilentOutputs(psbt)}
  BY <1>2 DEF Recipients
<1>8. \A o \in SilentOutputs(psbt) : sc.outputs[o].to \in Recipient BY <1>2, ScenarioParts
<1> QED BY <1>1, <1>4, <1>5, <1>6, <1>7, <1>8

(* The verification accepts it.                                             *)
LEMMA HonestCompletes ==
  ASSUME sc \in Scenarios, Sound, NEW made, made = Completed(Prepared(sc))
  PROVE  CompletionHolds(sc, made)
<1> DEFINE psbt == Prepared(sc)
<1>1. /\ DOMAIN psbt.inputs = DOMAIN sc.inputs
      /\ \A i \in DOMAIN sc.inputs : psbt.inputs[i].key = sc.inputs[i].owner
      /\ SilentOutputs(psbt) = {o \in DOMAIN sc.outputs : sc.outputs[o].to # NoValue}
      /\ \A o \in DOMAIN sc.outputs : psbt.outputs[o].info = sc.outputs[o].to
  BY PreparedParts
<1>2. /\ DOMAIN made.outputs = DOMAIN sc.outputs
      /\ \A o \in DOMAIN sc.outputs :
           /\ made.outputs[o].amount = 1 /\ made.outputs[o].info = sc.outputs[o].to
           /\ made.outputs[o].script = IF sc.outputs[o].to # NoValue THEN Derived(psbt, o)
                                       ELSE Plain(sc.outputs[o].type)
      /\ SilentOutputs(made) = SilentOutputs(psbt) /\ Recipients(made) = Recipients(psbt)
      /\ Recipients(psbt) \subseteq Recipient
  BY HonestOutputs
<1>3. /\ DOMAIN made.inputs = DOMAIN sc.inputs
      /\ \A i \in DOMAIN sc.inputs :
           made.inputs[i] = CompletedInput(psbt.inputs[i], PaidByInputs(psbt))
      /\ \A r \in Recipient :
           /\ made.share[r] = IF GlobalShares(sc) /\ r \in Recipients(psbt)
                                THEN Keys(psbt) ELSE <<>>
           /\ made.proof[r] = made.share[r]
      /\ made.modifiable = {}
  BY HonestFinal
<1>4. /\ DOMAIN made.inputs = DOMAIN sc.inputs
      /\ \A i \in DOMAIN sc.inputs :
           /\ made.inputs[i].key = sc.inputs[i].owner
           /\ made.inputs[i].type = sc.inputs[i].type /\ made.inputs[i].amount = 1
           /\ \A r \in Recipient \cap PaidByInputs(psbt) :
                /\ made.inputs[i].share[r] = sc.inputs[i].owner
                /\ made.inputs[i].proof[r] = sc.inputs[i].owner
           /\ made.inputs[i].type = "p2wpkh" => PartialHolds(made.inputs[i], sc.inputs[i].owner)
           /\ made.inputs[i].type # "p2wpkh" => TapHolds(made.inputs[i])
  <2> DEFINE paid == PaidByInputs(psbt)
  <2>1. \A i \in DOMAIN sc.inputs : made.inputs[i] = CompletedInput(Prepared(sc).inputs[i], paid)
    BY <1>3
  <2> HIDE DEF paid
  <2>2. ASSUME NEW i \in DOMAIN sc.inputs
        PROVE  /\ made.inputs[i].key = sc.inputs[i].owner
               /\ made.inputs[i].type = sc.inputs[i].type /\ made.inputs[i].amount = 1
               /\ \A r \in Recipient \cap paid :
                    /\ made.inputs[i].share[r] = sc.inputs[i].owner
                    /\ made.inputs[i].proof[r] = sc.inputs[i].owner
               /\ made.inputs[i].type = "p2wpkh"
                    => PartialHolds(made.inputs[i], sc.inputs[i].owner)
               /\ made.inputs[i].type # "p2wpkh" => TapHolds(made.inputs[i])
    <3> DEFINE one == made.inputs[i]
    <3>1. one = CompletedInput(Prepared(sc).inputs[i], paid) BY <2>1
    <3> HIDE DEF one
    <3>2. /\ one.key = sc.inputs[i].owner
          /\ one.type = sc.inputs[i].type /\ one.amount = 1
          /\ \A r \in Recipient \cap paid :
               one.share[r] = sc.inputs[i].owner /\ one.proof[r] = sc.inputs[i].owner
          /\ one.type = "p2wpkh" => PartialHolds(one, sc.inputs[i].owner)
          /\ one.type # "p2wpkh" => TapHolds(one)
      <4>1. one.key = sc.inputs[i].owner BY <3>1, HonestInput
      <4>2. one.type = sc.inputs[i].type /\ one.amount = 1 BY <3>1, HonestInput
      <4>3. \A r \in Recipient \cap paid :
              one.share[r] = sc.inputs[i].owner /\ one.proof[r] = sc.inputs[i].owner
        BY <3>1, HonestInput
      <4>4. one.type = "p2wpkh" => PartialHolds(one, sc.inputs[i].owner) BY <3>1, HonestInput
      <4>5. one.type # "p2wpkh" => TapHolds(one) BY <3>1, HonestInput
      <4> QED BY <4>1, <4>2, <4>3, <4>4, <4>5
    <3> QED BY <3>2 DEF one
  <2> QED BY <1>3, <2>2 DEF paid
<1> HIDE DEF psbt
<1>5. \A i \in DOMAIN sc.inputs : sc.inputs[i].owner \in sc.signers BY DEF Sound, Owners
<1>6. KeysKnown(sc, made)
  <2>1. made.inputs # <<>> BY <1>4, SomeInput DEF Sound
  <2> QED BY <1>4, <1>5, <2>1 DEF KeysKnown
<1>7. Keys(made) = Keys(psbt) BY <1>1, <1>4 DEF Keys
<1>8. IntentHolds(sc, made)
  <2>1. \A o \in DOMAIN sc.outputs :
          /\ sc.outputs[o].type \in {"silent-payment", "p2wpkh", "p2tr"}
          /\ sc.outputs[o].to = NoValue <=> sc.outputs[o].type \in {"p2wpkh", "p2tr"}
    BY ScenarioParts
  <2> QED BY <1>2, <1>4, <2>1 DEF IntentHolds
<1>9. ScriptsHold(sc, made)
  <2>1. ASSUME NEW o \in SilentOutputs(made) PROVE made.outputs[o].script = ExpectedScript(made, o)
    <3>1. o \in DOMAIN sc.outputs /\ sc.outputs[o].to # NoValue BY <1>1, <1>2
    <3>2. 1 .. o \subseteq DOMAIN sc.outputs BY <3>1, EvidenceAssumption DEF ValidScenario
    <3>3. {q \in 1 .. o : made.outputs[q].info = made.outputs[o].info}
            = {q \in 1 .. o : psbt.outputs[q].info = psbt.outputs[o].info}
      BY <1>1, <1>2, <3>1, <3>2
    <3> QED BY <1>1, <1>2, <1>7, <3>1, <3>3 DEF Derived, ExpectedScript, Position
  <2>2. ASSUME NEW o \in DOMAIN made.outputs PROVE Present(made.outputs[o])
    <3>1. sc.outputs[o].to = NoValue => sc.outputs[o].type \in {"p2wpkh", "p2tr"}
      BY <1>2, ScenarioParts
    <3>2. Derived(psbt, o).kind = "sp" BY DEF Derived, Script
    <3>3. Plain(sc.outputs[o].type).kind = sc.outputs[o].type BY DEF Plain, Script
    <3>4. made.outputs[o].script.kind \in {"sp", "p2wpkh", "p2tr"}
      BY <1>2, <3>1, <3>2, <3>3
    <3>5. NoScript.kind = "none" BY DEF NoScript, Script
    <3> QED BY <3>4, <3>5 DEF Present
  <2> QED BY <1>6, <2>1, <2>2 DEF ScriptsHold
<1>10. SharesHold(sc, made)
  <2> SUFFICES ASSUME NEW r \in Recipients(made)
               PROVE  IF GlobalShares(sc) THEN GlobalShareHolds(sc, made, r)
                                          ELSE InputSharesHold(sc, made, r)
    BY DEF SharesHold
  <2>1. r \in Recipient /\ r \in Recipients(psbt) BY <1>2
  <2>2. CASE GlobalShares(sc) BY <1>3, <1>6, <1>7, <2>1, <2>2 DEF GlobalShareHolds, Proves
  <2>3. CASE ~ GlobalShares(sc)
    <3>1. made.share[r] = <<>> BY <1>3, <2>1, <2>3
    <3>2. r \in Recipient \cap PaidByInputs(psbt) BY <2>1, <2>3 DEF PaidByInputs
    <3> QED BY <1>4, <1>5, <2>3, <3>1, <3>2 DEF InputSharesHold, Proves
  <2> QED BY <2>2, <2>3
<1>11. \A i \in DOMAIN made.inputs : SignatureHolds(sc, made, i)
  BY <1>4, <1>5 DEF SignatureHolds
<1>12. ModifiableClear(made) BY <1>3 DEF ModifiableClear
<1> QED BY <1>8, <1>9, <1>10, <1>11, <1>12 DEF CompletionHolds, Sound

(* Where such a run is: what it starts with is the scenario's PSBT, what it   *)
(* verifies what honest devices make of it, no file has a mark against it,   *)
(* and every record and the stage passed.                                    *)
OnCourse ==
  /\ pc = "author" => initial = Prepared(sc)
  /\ pc = "devices" => final = Completed(Prepared(sc))
  /\ pc \in {"lab", "finalize"} => AllPassed(records)
  /\ pc \notin {"finalize", "done"} =>
       mark = Mark({}, FALSE) /\ passed = IF file = 0 THEN 0 ELSE file - 1
  /\ pc = "finalize" => lab = "passed"
  /\ pc = "done" => manifest = [scope |-> "evidence", reason |-> "none", status |-> "recorded"]

HonestInv == odd \in Nat /\ (odd = 0 /\ Sound => OnCourse)

(* Whatever differs is counted, and the run is no longer an honest one.      *)
LEMMA DifferingIsNotHonest ==
  ASSUME HonestInv, Differs
  PROVE  HonestInv'
  BY DEF HonestInv, Differs

(* What leaves the run's counted differences, scenario and course as it was. *)
LEMMA HonestStep ==
  ASSUME HonestInv, UNCHANGED <<sc, release, odd>>,
         odd = 0 /\ Sound /\ OnCourse => OnCourse'
  PROVE  HonestInv'
<1>1. Sound' <=> Sound BY DEF Sound, Owners
<1> QED BY <1>1 DEF HonestInv

(* The answer of an adapter that returns what it was given.                  *)
LEMMA HonestAnswer ==
  ASSUME LabInv, OnCourse, NEW a \in Adapters, ReadAdapter(a)
  PROVE  OnCourse'
<1> DEFINE none == Mark({}, FALSE)
<1>1. /\ pc = "lab" /\ file > 0 /\ reader = a /\ records' = records
      /\ allowed' = allowed /\ Judged(none)
  BY DEF ReadAdapter, Reading
<1>a. file \in {1, 2} BY <1>1 DEF LabInv, Count
<1>2. mark = none /\ passed = file - 1 /\ AllPassed(records) BY <1>1 DEF OnCourse
<1>3. Both(mark, none) = none BY <1>2 DEF Both, Mark
<1>4. FilePasses(none, allowed) BY DEF FilePasses, Mark
<1>5. AllPassed(records)' BY <1>1, <1>2 DEF AllPassed
<1> HIDE DEF none
<1>6. CASE reader # "libwally"
  <2>1. mark' = none /\ pc' = pc /\ file' = file /\ passed' = passed
    BY <1>1, <1>3, <1>6 DEF Judged
  <2> QED BY <1>a, <1>1, <1>2, <1>5, <2>1 DEF OnCourse, none
<1>7. CASE reader = "libwally"
  <2>1. FileDone(none) BY <1>1, <1>3, <1>7 DEF Judged
  <2>2. Len(Snapshots) = 2 BY DEF Snapshots
  <2>3. mark' = Mark({}, FALSE) /\ passed' = passed + 1
    BY <1>4, <2>1 DEF FileDone
  <2>4. CASE file = 1
    <3>1. file' = 2 /\ pc' = "lab" BY <1>1, <2>1, <2>2, <2>4 DEF FileDone
    <3> QED BY <1>2, <1>5, <2>3, <2>4, <3>1 DEF OnCourse
  <2>5. CASE file = 2
    <3>1. passed' = 2 BY <1>2, <2>3, <2>5
    <3>2. lab' = "passed" /\ pc' = "finalize"
      BY <1>4, <2>1, <2>2, <2>3, <2>5, <3>1 DEF FileDone
    <3> QED BY <1>5, <3>2 DEF OnCourse
  <2> QED BY <1>a, <2>4, <2>5
<1> QED BY <1>6, <1>7

(* The manifest of a run on course.                                          *)
LEMMA HonestManifest ==
  ASSUME Sound, sc \in Scenarios, OnCourse, pc = "finalize", Recorded("recorded")
  PROVE  OnCourse'
<1>1. AllPassed(records) /\ lab = "passed" BY DEF OnCourse
<1>2. sc.suite = "bip375" BY ScenarioParts
<1>3. EvidenceEarned(sc, FALSE, records, lab)
  BY <1>1, <1>2 DEF EvidenceEarned, NotEvidence, Sound
<1>4. RunClaim(sc, FALSE, TRUE).scope = "none"
  BY <1>2 DEF RunClaim, NotEvidence, Claim, Sound
<1>5. records # <<>>
  <2>1. "caravan" \in DOMAIN records BY <1>1 DEF AllPassed, KnownValidators
  <2>2. DOMAIN <<>> = {} OBVIOUS
  <2> QED BY <2>1, <2>2
<1> DEFINE claim == ManifestClaim(sc, FALSE, records, lab)
<1>6. claim = [scope |-> "evidence", reason |-> "none"]
  BY <1>3, <1>4, <1>5 DEF ManifestClaim
<1>7. /\ pc' = "done"
      /\ manifest' = [scope |-> claim.scope, reason |-> claim.reason, status |-> "recorded"]
  BY DEF Recorded
<1> HIDE DEF claim
<1>8. claim.scope = "evidence" /\ claim.reason = "none" BY <1>6
<1> QED BY <1>7, <1>8 DEF OnCourse

LEMMA HonestInvariant ==
  ASSUME HonestInv, LabInv, sc \in Scenarios, [Next]_vars
  PROVE  HonestInv'
<1> USE DEF labVars
<1>1. CASE Prepare
  <2>1. initial' = Prepared(sc) BY <1>1 DEF Prepare, Fixture
  <2> QED BY <1>1, <2>1, HonestStep DEF Prepare, OnCourse
<1>2. CASE AuthorDiffers BY <1>2, DifferingIsNotHonest DEF AuthorDiffers
<1>3. CASE RunRounds
  <2>1. ASSUME OnCourse PROVE OnCourse'
    <3>1. /\ pc = "author" /\ pc' = "devices" /\ final' = Completed(initial)
          /\ UNCHANGED <<mark, passed, file>> /\ initial = Prepared(sc)
      BY <1>3, <2>1 DEF RunRounds, OnCourse
    <3>2. final' = Completed(Prepared(sc))' BY <1>3, <3>1 DEF RunRounds, Completed, GlobalShares
    <3> QED BY <2>1, <3>1, <3>2 DEF OnCourse
  <2> QED BY <1>3, <2>1, HonestStep DEF RunRounds
<1>4. CASE RequireFails
  <2>1. ASSUME Sound, OnCourse PROVE FALSE
    <3>1. initial = Prepared(sc) BY <1>4, <2>1 DEF RequireFails, OnCourse
    <3>2. /\ DOMAIN initial.inputs = DOMAIN sc.inputs
          /\ \A i \in DOMAIN sc.inputs : initial.inputs[i].utxo = sc.inputs[i].utxo
      BY <3>1, PreparedParts
    <3>3. \A i \in DOMAIN sc.inputs : sc.inputs[i].utxo \in {"witness", "full", "both"}
      BY ScenarioParts
    <3>4. initial.inputs # <<>> BY <2>1, <3>2, SomeInput DEF Sound
    <3> QED BY <1>4, <3>2, <3>3, <3>4 DEF RequireFails, RequireInputUtxos
  <2> QED BY <1>4, <2>1, HonestStep DEF RequireFails
<1>5. CASE DeviceDiffers BY <1>5, DifferingIsNotHonest DEF DeviceDiffers
<1>6. CASE Verify
  <2>1. ASSUME Sound, OnCourse PROVE OnCourse'
    <3>1. final = Completed(Prepared(sc)) BY <1>6, <2>1 DEF Verify, OnCourse
    <3>2. CompletionHolds(sc, final) BY <2>1, <3>1, HonestCompletes
    <3> QED BY <1>6, <2>1, <3>2 DEF Verify, OnCourse
  <2> QED BY <1>6, <2>1, HonestStep DEF Verify
<1>7. CASE RunValidators
  <2>1. CASE \A v \in sc.validators : records'[v] = "passed"
    <3>1. Sound => AllPassed(records)'
      BY <1>7, <2>1 DEF RunValidators, AllPassed, Sound
    <3> QED BY <1>7, <2>1, <3>1, HonestStep DEF RunValidators, OnCourse
  <2>2. CASE ~ \A v \in sc.validators : records'[v] = "passed"
    BY <1>7, <2>2, DifferingIsNotHonest DEF RunValidators
  <2> QED BY <2>1, <2>2
<1>8. CASE NoLab BY <1>8, HonestStep DEF NoLab, Sound
<1>9. CASE LabUnavailable \/ LabFails
  BY <1>9, DifferingIsNotHonest DEF LabUnavailable, LabFails
<1>10. CASE LabAnswers
  <2>1. ASSUME OnCourse PROVE OnCourse'
    BY <1>10, <2>1 DEF LabAnswers, OnCourse, AllPassed
  <2> QED BY <1>10, <2>1, HonestStep DEF LabAnswers
<1>11. CASE ReadParsers
  <2>1. PICK own \in Outcomes, js \in Outcomes :
          /\ IF {own, js} = {"ok"} THEN UNCHANGED odd ELSE Differs
          /\ mark' = ParserMark(Snapshots[file], own, js)
    BY <1>11 DEF ReadParsers
  <2>2. CASE {own, js} = {"ok"}
    <3>1. own = "ok" /\ js = "ok" BY <2>2
    <3>2. mark' = Mark({}, FALSE) BY <2>1, <3>1 DEF ParserMark, Rejection, Mark
    <3>3. ASSUME OnCourse PROVE OnCourse'
      BY <1>11, <3>2, <3>3 DEF ReadParsers, Reading, OnCourse, AllPassed
    <3> QED BY <1>11, <2>1, <2>2, <3>3, HonestStep DEF ReadParsers
  <2>3. CASE {own, js} # {"ok"} BY <2>1, <2>3, DifferingIsNotHonest
  <2> QED BY <2>2, <2>3
<1>12. ASSUME NEW a \in Adapters, ReadAdapter(a) PROVE HonestInv'
  BY <1>12, HonestAnswer, HonestStep DEF ReadAdapter
<1>13. ASSUME NEW a \in Adapters,
              \/ AdapterRefuses(a) \/ AdapterReturnsJunk(a)
              \/ AdapterChanges(a) \/ AdapterAnswersHalf(a)
       PROVE  HonestInv'
  BY <1>13, DifferingIsNotHonest
  DEF AdapterRefuses, AdapterReturnsJunk, AdapterChanges, AdapterAnswersHalf
<1>14. CASE Finalize BY <1>14, HonestManifest, HonestStep DEF Finalize
<1>15. CASE FinalizeRaises BY <1>15, DifferingIsNotHonest DEF FinalizeRaises
<1>16. CASE UNCHANGED vars
  <2>1. Completed(Prepared(sc))' = Completed(Prepared(sc))
    BY <1>16 DEF vars, Completed, GlobalShares, Derived, CompletedInput
  <2>2. AllPassed(records)' <=> AllPassed(records) BY <1>16 DEF vars, AllPassed
  <2>3. UNCHANGED <<sc, pc, initial, final, mark, passed, file, lab, manifest>>
    BY <1>16 DEF vars
  <2>4. OnCourse => OnCourse' BY <2>1, <2>2, <2>3 DEF OnCourse
  <2> QED BY <1>16, <2>4, HonestStep DEF vars
<1> QED
  BY <1>1, <1>2, <1>3, <1>4, <1>5, <1>6, <1>7, <1>8, <1>9, <1>10, <1>11, <1>12, <1>13,
     <1>14, <1>15, <1>16 DEF Next

(* A run in which nothing differs is evidence when it may be: the verifier,  *)
(* the validators' records, the lab stage and the claim refuse nothing that  *)
(* honest devices and adapters make of a sound scenario, of any size.        *)
THEOREM HonestRunsAreEvidence == Spec => []HonestRunIsEvidence
<1>1. Init => HonestInv BY DEF Init, HonestInv, OnCourse
<1>2. HonestInv /\ LabInv /\ sc \in Scenarios /\ [Next]_vars => HonestInv'
  BY HonestInvariant
<1>3. HonestInv => HonestRunIsEvidence
  BY DEF HonestInv, OnCourse, Sound, HonestRunIsEvidence
<1> QED BY <1>1, <1>2, <1>3, LabInvariant, ScenarioIsValid, PTL DEF Spec

=============================================================================
