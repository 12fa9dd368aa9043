------------------------------ MODULE Evidence ------------------------------
(***************************************************************************)
(* What stands behind a manifest that says "evidence": the path of one     *)
(* PSBT through a bip375 run (cli.py: _run_generated_scenario,             *)
(* _run_psbt_scenario), from the PSBT the run starts with over its final   *)
(* one, the verification, the validators and the Interop Lab to the        *)
(* manifest.                                                               *)
(*                                                                         *)
(* Whoever made an external PSBT, the devices, the validators and the lab  *)
(* are honest but for at most MaxDeviations things that differ, of any     *)
(* kind and anywhere on the path.  The rounds themselves are Engine's: here *)
(* the final PSBT may be anything the devices can make of the initial one, *)
(* whether or not a phase contract would have let it through.  Workers and *)
(* interrupts are ScenarioRun's.                                           *)
(***************************************************************************)
EXTENDS InteropLab, Claims, Functions

CONSTANTS
  Scenarios,     \* the scenarios that may be run
  Approvals,     \* the interop_lab_allowed_findings there may be
  MaxDeviations  \* bound: the things that differ from an honest run

InputTypes == {"p2wpkh", "p2tr", "sp-spend"}

(* What Scenario.from_dict and the suite admit.                              *)
ValidScenario(sc) ==
  /\ sc.suite = "bip375" /\ sc.verification \in Levels /\ sc.policy \in Policies
  /\ {sc.intent, sc.generated} \subseteq BOOLEAN /\ sc.generated => sc.intent
  /\ sc.mode \in {"per-input", "global"}
  /\ sc.mode = "global" => Cardinality(sc.signers) = 1
  /\ sc.signers \subseteq Name /\ sc.validators \subseteq KnownValidators
  /\ sc.inputs \in Seq([type : InputTypes, owner : Name,
                        utxo : {"witness", "full", "both"}, sighash : {"all", "default"}])
  /\ sc.outputs \in Seq([type : {"silent-payment", "p2wpkh", "p2tr"},
                         to : Recipient \cup {NoValue}])
  /\ \A o \in DOMAIN sc.outputs :
       (sc.outputs[o].to = NoValue) <=> (sc.outputs[o].type \in {"p2wpkh", "p2tr"})

ASSUME EvidenceAssumption ==
  /\ \A sc \in Scenarios : ValidScenario(sc)
  /\ \A allowed \in Approvals : allowed \subseteq KNOWN_FINDINGS
  /\ MaxDeviations \in Nat

VARIABLES
  sc,        \* the scenario
  release,   \* the run belongs to a release check
  pc,        \* where the run is
  initial,   \* the PSBT the rounds start with, the first snapshot
  final,     \* final_psbt, the last snapshot
  source,    \* utxo_source
  records,   \* validators
  lab,       \* interop_lab's status
  allowed,   \* allowed_findings
  file,      \* the snapshot the lab stage looks at
  reader,    \* the parser or adapter whose answer comes next
  mark,      \* findings and failures of that snapshot
  passed,    \* the snapshots that passed
  manifest,
  odd,       \* how many things differed
  harm       \* history: the lab met something that should not pass

labVars == <<lab, allowed, file, reader, mark, passed, harm>>
vars == <<sc, release, pc, initial, final, source, records, labVars, manifest, odd>>

Snapshots == <<initial, final>>

NoPsbt     == Prepared([inputs |-> <<>>, outputs |-> <<>>])
NoManifest == [scope |-> "none", reason |-> "none", status |-> "none"]

Init ==
  /\ sc \in Scenarios /\ release \in BOOLEAN
  /\ pc = "prepare" /\ initial = NoPsbt /\ final = NoPsbt /\ source = "none"
  /\ records = <<>> /\ lab = "not-run" /\ allowed \in Approvals
  /\ file = 0 /\ reader = "parsers" /\ mark = Mark({}, FALSE) /\ passed = 0
  /\ manifest = NoManifest /\ odd = 0 /\ harm = FALSE

Differs == odd < MaxDeviations /\ odd' = odd + 1

-----------------------------------------------------------------------------
(* The initial PSBT                                                        *)

(* What can differ in a PSBT made elsewhere.                                 *)
InputVariants(in) ==
  {[in EXCEPT !.key = k] : k \in Key} \cup {[in EXCEPT !.lock = k] : k \in Key}
    \cup {[in EXCEPT !.type = t] : t \in InputTypes}
    \cup {[in EXCEPT !.utxo = u] : u \in {"none", "mismatch", "full", "both"}}
    \cup {[in EXCEPT !.sighash = s] : s \in {"none", "all", "default"}}
    \cup {[in EXCEPT !.amount = 2]}

OutputVariants(out) ==
  {[out EXCEPT !.amount = 2], [out EXCEPT !.info = NoValue, !.script = Plain("p2wpkh")],
   [out EXCEPT !.info = NoValue, !.script = Plain("p2tr")]}
    \cup {[out EXCEPT !.info = r, !.script = NoScript] : r \in Recipient}

Authored(psbt) ==
  UNION {{[psbt EXCEPT !.inputs[i] = in] : in \in InputVariants(psbt.inputs[i])} :
           i \in DOMAIN psbt.inputs}
    \cup UNION {{[psbt EXCEPT !.outputs[o] = out] : out \in OutputVariants(psbt.outputs[o])} :
                  o \in DOMAIN psbt.outputs}
    \cup {[psbt EXCEPT !.inputs = <<>>], [psbt EXCEPT !.inputs = Tail(@)],
          [psbt EXCEPT !.outputs = Append(@, Head(@))], [psbt EXCEPT !.outputs = Reverse(@)]}

(* build_bip375_fixture, or the file the caller names.                       *)
Prepare ==
  /\ pc = "prepare"
  /\ sc.generated => FixtureBuilds(sc)
  /\ initial' = IF sc.generated THEN Fixture(sc) ELSE Prepared(sc)
  /\ pc' = "author"
  /\ UNCHANGED <<sc, release, final, source, records, labVars, manifest, odd>>

AuthorDiffers ==
  /\ pc = "author" /\ ~ sc.generated /\ initial.inputs # <<>> /\ Differs
  /\ \E psbt \in Authored(initial) : psbt # initial /\ initial' = psbt
  /\ UNCHANGED <<sc, release, pc, final, source, records, labVars, manifest>>

(* The manifest of a run that returned, and that of the except clause.       *)
Recorded(status) ==
  LET claim == ManifestClaim(sc, FALSE, records, lab)
  IN /\ manifest' = [scope |-> claim.scope, reason |-> claim.reason, status |-> status]
     /\ pc' = "done"

-----------------------------------------------------------------------------
(* The rounds                                                              *)

(* What honest devices make of a PSBT: shares and proofs, the scripts        *)
(* derived from the inputs' keys (of the k-th output of a recipient, with k), *)
(* signatures, and nothing modifiable.                                       *)
Derived(psbt, o) ==
  LET recipient == psbt.outputs[o].info
      k         == Cardinality({q \in 1 .. o : psbt.outputs[q].info = recipient})
  IN Script("sp", recipient, Keys(psbt), k)

CompletedInput(in, recipients) ==
  LET shared == [r \in Recipient |-> IF r \in recipients THEN in.key ELSE NoValue]
  IN IF in.key = Stranger THEN in
     ELSE [in EXCEPT !.share = shared, !.proof = shared,
                     !.partial = IF in.type = "p2wpkh"
                                   THEN <<[key |-> in.key, by |-> in.key]>> ELSE <<>>,
                     !.tap = IF in.type = "p2wpkh" THEN NoValue ELSE in.key,
                     !.form = IF in.sighash = "all" THEN "65-all" ELSE "64"]

Completed(psbt) ==
  LET global == [r \in Recipient |->
                   IF GlobalShares(sc) /\ r \in Recipients(psbt) THEN Keys(psbt) ELSE <<>>]
  IN [psbt EXCEPT
        !.inputs = [i \in DOMAIN psbt.inputs |->
                      CompletedInput(psbt.inputs[i],
                                     IF GlobalShares(sc) THEN {} ELSE Recipients(psbt))],
        !.outputs = [o \in DOMAIN psbt.outputs |->
                       IF o \in SilentOutputs(psbt)
                         THEN [psbt.outputs[o] EXCEPT !.script = Derived(psbt, o)]
                         ELSE psbt.outputs[o]],
        !.share = global, !.proof = global, !.modifiable = {}]

(* require_input_utxos, then the rounds, of honest devices.                  *)
RunRounds ==
  /\ pc = "author" /\ RequireInputUtxos(initial)
  /\ source' = UtxoSource(initial)
  /\ final' = Completed(initial) /\ pc' = "devices"
  /\ UNCHANGED <<sc, release, initial, records, labVars, manifest, odd>>

RequireFails ==
  /\ pc = "author" /\ ~ RequireInputUtxos(initial)
  /\ Recorded("failed")
  /\ UNCHANGED <<sc, release, initial, final, source, records, labVars, odd>>

(* What can differ in a PSBT the devices return.                             *)
ContributionVariants(in) ==
  {[in EXCEPT !.share[r] = k] : r \in Recipient, k \in Key \cup {NoValue}}
    \cup {[in EXCEPT !.proof[r] = k] : r \in Recipient, k \in Key \cup {NoValue}}
    \cup {[in EXCEPT !.partial = <<[key |-> k, by |-> b]>>] : k \in Key, b \in Key}
    \cup {[in EXCEPT !.partial = <<>>]}
    \cup {[in EXCEPT !.partial = @ \o <<[key |-> Stranger, by |-> Stranger]>>]}
    \cup {[in EXCEPT !.tap = k] : k \in Key \cup {NoValue}}
    \cup {[in EXCEPT !.form = f] : f \in {"64", "65-all", "65-other", "65-default", "bad"}}

ScriptVariants(out) ==
  {[out EXCEPT !.script = s] :
     s \in {NoScript, EmptyScript, Plain("p2wpkh"), [out.script EXCEPT !.nth = 3 - @],
            [out.script EXCEPT !.keys = Reverse(@)]}
           \cup {[out.script EXCEPT !.keys = [i \in DOMAIN @ |-> k]] : k \in Key}
           \cup {[out.script EXCEPT !.to = r] : r \in Recipient}}

Returned(psbt) ==
  UNION {{[psbt EXCEPT !.inputs[i] = in] : in \in ContributionVariants(psbt.inputs[i])} :
           i \in DOMAIN psbt.inputs}
    \cup UNION {{[psbt EXCEPT !.outputs[o] = out] : out \in ScriptVariants(psbt.outputs[o])} :
                  o \in SilentOutputs(psbt)}
    \cup UNION {{[psbt EXCEPT !.share[r] = ks], [psbt EXCEPT !.proof[r] = ks]} :
                  r \in Recipient,
                  ks \in {<<>>, Keys(psbt), [i \in DOMAIN psbt.inputs |-> Stranger]}}
    \cup {[psbt EXCEPT !.modifiable = F] : F \in {{"none"}, {"inputs"}, {"outputs"}}}

DeviceDiffers ==
  /\ pc = "devices" /\ Differs
  /\ \E psbt \in Returned(final) : psbt # final /\ final' = psbt
  /\ UNCHANGED <<sc, release, pc, initial, source, records, labVars, manifest>>

(* verify_bip375_completion.                                                 *)
Verify ==
  /\ pc = "devices"
  /\ IF CompletionHolds(sc, final) THEN pc' = "validators" /\ UNCHANGED manifest
                                   ELSE Recorded("failed")
  /\ UNCHANGED <<sc, release, initial, final, source, records, labVars, odd>>

-----------------------------------------------------------------------------
(* The validators and the lab                                              *)

(* _run_validators: a record of every validator the scenario opted into.     *)
RunValidators ==
  /\ pc = "validators"
  /\ records' \in [sc.validators -> {"passed", "short", "failed"}]
  /\ IF \A v \in sc.validators : records'[v] = "passed" THEN UNCHANGED odd ELSE Differs
  /\ pc' = "lab"
  /\ UNCHANGED <<sc, release, initial, final, source, labVars, manifest>>

(* _interop_stage outside a release check.                                   *)
NoLab ==
  /\ pc = "lab" /\ file = 0 /\ ~ release /\ pc' = "finalize"
  /\ UNCHANGED <<sc, release, initial, final, source, records, labVars, manifest, odd>>

(* _availability: docker, npx, the daemon or an image is missing.            *)
LabUnavailable ==
  /\ pc = "lab" /\ file = 0 /\ release /\ Differs
  /\ lab' = "not-run" /\ pc' = "finalize"
  /\ UNCHANGED <<sc, release, initial, final, source, records, allowed, file, reader, mark,
                 passed, harm, manifest>>

(* The matrix or an adapter does not run, or not as pinned: the chunk fails. *)
LabFails ==
  /\ pc = "lab" /\ file = 0 /\ release /\ Differs
  /\ lab' = "failed" /\ pc' = "finalize"
  /\ UNCHANGED <<sc, release, initial, final, source, records, allowed, file, reader, mark,
                 passed, harm, manifest>>

(* Everything answered.                                                      *)
LabAnswers ==
  /\ pc = "lab" /\ file = 0 /\ release /\ file' = 1
  /\ UNCHANGED <<sc, release, pc, initial, final, source, records, lab, allowed, reader,
                 mark, passed, harm, manifest, odd>>

Reading(r) == pc = "lab" /\ file > 0 /\ reader = r

NextReader == IF reader = "parsers" THEN "rust-psbt-v2" ELSE "libwally"

Outcomes == {"ok", "rejected", "error"}

Resolved == Unresolved(Snapshots[file]) = {}

(* The lab's own parser and bundled-js.                                      *)
ReadParsers ==
  /\ Reading("parsers")
  /\ \E own, js \in Outcomes :
       /\ IF {own, js} = {"ok"} THEN UNCHANGED odd ELSE Differs
       /\ mark' = ParserMark(Snapshots[file], own, js)
       /\ harm' = (harm \/ own # "ok" \/ (js # "ok" /\ (Resolved \/ allowed = {})))
  /\ reader' = NextReader
  /\ UNCHANGED <<sc, release, pc, initial, final, source, records, lab, allowed, file,
                 passed, manifest>>

(* The last answer about a file: it passes or not, and the stage passes when *)
(* all have.                                                                 *)
FileDone(m) ==
  LET total == IF FilePasses(m, allowed) THEN passed + 1 ELSE passed
  IN /\ mark' = Mark({}, FALSE) /\ passed' = total
     /\ IF file < Len(Snapshots)
          THEN file' = file + 1 /\ reader' = "parsers" /\ UNCHANGED <<lab, pc>>
          ELSE /\ lab' = IF total = Len(Snapshots) THEN "passed" ELSE "failed"
               /\ pc' = "finalize" /\ UNCHANGED <<file, reader>>

Judged(m) ==
  LET sum == Both(mark, m)
  IN IF reader = "libwally" THEN FileDone(sum)
     ELSE mark' = sum /\ reader' = NextReader /\ UNCHANGED <<lab, pc, file, passed>>

(* What an adapter may return instead of the records it was given.           *)
Without(container, es) == [e \in DOMAIN container \ es |-> container[e]]

WithScripts(container, psbt, os) ==
  [e \in DOMAIN container \cup {Entry("output", o, "script") : o \in os} |->
     IF e \in DOMAIN container THEN container[e] ELSE EmptyScript]

Rewritten(container) ==
  {[container EXCEPT ![e] = IF e.field = "amount" THEN 2
                            ELSE IF e.field = "sighash" THEN "default" ELSE {"outputs"}] :
     e \in {d \in DOMAIN container : d.field \in {"amount", "sighash", "tx_modifiable"}}}

Changed(psbt) ==
  LET container == Container(psbt)
      Drops  == UNION {kSubset(n, DOMAIN container) : n \in 0 .. 2}
      Fills  == SUBSET Unresolved(psbt)
  IN ({Without(container, es) : es \in Drops}
       \cup {Without(WithScripts(container, psbt, os), es) :
               os \in Fills, es \in UNION {kSubset(n, DOMAIN container) : n \in 0 .. 1}}
       \cup Rewritten(container)) \ {container}

(* An adapter parsed the snapshot, and returned it as it was.                *)
ReadAdapter(a) ==
  /\ Reading(a)
  /\ Judged(Mark({}, FALSE))
  /\ UNCHANGED <<sc, release, initial, final, source, records, allowed, harm, manifest, odd>>

(* It refused, or erred, at the parse, at the roundtrip or at both.          *)
AdapterRefuses(a) ==
  /\ Reading(a) /\ Differs
  /\ \E parsed, rounded \in Outcomes :
       /\ {parsed, rounded} # {"ok"}
       /\ Judged(Both(NativeMark(a, Snapshots[file], parsed),
                      RefusedMark(a, Snapshots[file], rounded)))
       /\ harm' = (harm \/ a # "libwally" \/ Resolved \/ "error" \in {parsed, rounded}
                     \/ (parsed # "ok" /\ allowed = {}))
  /\ UNCHANGED <<sc, release, initial, final, source, records, allowed, manifest>>

(* It returned something that is no PSBT.                                    *)
AdapterReturnsJunk(a) ==
  /\ Reading(a) /\ Differs
  /\ Judged(InvalidMark) /\ harm' = TRUE
  /\ UNCHANGED <<sc, release, initial, final, source, records, allowed, manifest>>

(* What a PSBT says, whatever it is written with: a tx_modifiable of zero or *)
(* none; the sighash a taproot input is signed under, DEFAULT and no record  *)
(* being one; an empty script of a silent output or none.                    *)
Meaning(psbt, container) ==
  LET Has(e) == e \in DOMAIN container
      Flags  == IF Has(TxModifiable) THEN container[TxModifiable] ELSE {}
      Sighash(i) ==
        LET in == psbt.inputs[i]  e == Entry("input", i, "sighash")
        IN IF in.type = "p2wpkh" \/ (Has(e) /\ container[e] # "default")
             THEN IF Has(e) THEN container[e] ELSE "none"
             ELSE IF HasTaprootSighashAllSignature(in) THEN "all" ELSE "default"
      Idle == {e \in DOMAIN container :
                 \/ e = TxModifiable \/ e.field = "sighash"
                 \/ /\ e.field = "script" /\ e.index \in SilentOutputs(psbt)
                    /\ container[e] = EmptyScript}
  IN [flags |-> Flags, sighash |-> [i \in DOMAIN psbt.inputs |-> Sighash(i)],
      rest  |-> [e \in DOMAIN container \ Idle |-> container[e]]]

(* It returned another PSBT.                                                 *)
AdapterChanges(a) ==
  /\ Reading(a) /\ Differs
  /\ LET psbt == Snapshots[file]
     IN \E after \in Changed(psbt) :
          /\ Judged(ReturnedMark(a, psbt, after))
          /\ harm' = (harm \/ allowed = {}
                        \/ Meaning(psbt, after) # Meaning(psbt, Container(psbt)))
  /\ UNCHANGED <<sc, release, initial, final, source, records, allowed, manifest>>

(* A response without its id or its status: a KeyError nothing in the stage  *)
(* catches.                                                                  *)
AdapterAnswersHalf(a) ==
  /\ Reading(a) /\ Differs
  /\ Recorded("failed")
  /\ UNCHANGED <<sc, release, initial, final, source, records, labVars>>

Finalize ==
  /\ pc = "finalize" /\ Recorded("recorded")
  /\ UNCHANGED <<sc, release, initial, final, source, records, labVars, odd>>

(* finalize raises, and the except clause records the run with its claim.    *)
FinalizeRaises ==
  /\ pc = "finalize" /\ Differs /\ Recorded("failed")
  /\ UNCHANGED <<sc, release, initial, final, source, records, labVars>>

Next ==
  \/ Prepare \/ AuthorDiffers \/ RunRounds \/ RequireFails \/ DeviceDiffers \/ Verify
  \/ RunValidators \/ NoLab \/ LabUnavailable \/ LabFails \/ LabAnswers \/ ReadParsers
  \/ \E a \in Adapters : \/ ReadAdapter(a) \/ AdapterRefuses(a) \/ AdapterReturnsJunk(a)
                         \/ AdapterChanges(a) \/ AdapterAnswersHalf(a)
  \/ Finalize \/ FinalizeRaises

Spec == Init /\ [][Next]_vars

-----------------------------------------------------------------------------
(* Properties                                                              *)

IsEvidence == manifest.scope = "evidence"

(* The script a recipient of the scenario finds its payment under: from the  *)
(* keys of the owners the scenario names, in the order it lists them.        *)
OwedScript(o) ==
  IF sc.outputs[o].to = NoValue THEN Plain(sc.outputs[o].type)
  ELSE Script("sp", sc.outputs[o].to, [i \in DOMAIN sc.inputs |-> sc.inputs[i].owner],
              Cardinality({q \in 1 .. o : sc.outputs[q].to = sc.outputs[o].to}))

(* Evidence pays what the scenario says: every output, and no other, in its  *)
(* place, with its amount and the script owed, whatever the PSBT carried     *)
(* and whatever the devices returned.                                        *)
EvidencePays ==
  IsEvidence =>
    /\ DOMAIN final.outputs = DOMAIN sc.outputs
    /\ \A o \in DOMAIN sc.outputs :
         final.outputs[o].amount = 1 /\ final.outputs[o].script = OwedScript(o)

(* The final PSBT of a run that is evidence can be traced to the owners:     *)
(* each input's key is its owner's, a P2WPKH input has the owner's           *)
(* signature, a taproot one a signature that spends its UTXO, each recipient *)
(* has shares proved with the owners' keys, and nothing can be added.        *)
EvidenceIsProven ==
  IsEvidence =>
    LET owners == [i \in DOMAIN sc.inputs |-> sc.inputs[i].owner]
        Single == Cardinality(Owners(sc)) <= 1 \/ sc.mode = "global"
    IN /\ Keys(final) = owners
       /\ \A i \in DOMAIN owners :
            IF final.inputs[i].type = "p2wpkh"
              THEN \E n \in DOMAIN final.inputs[i].partial :
                     /\ final.inputs[i].partial[n].key = owners[i]
                     /\ final.inputs[i].partial[n].by = owners[i]
              ELSE final.inputs[i].tap = final.inputs[i].lock
       /\ \A o \in DOMAIN sc.outputs :
            LET r == sc.outputs[o].to
            IN r # NoValue =>
                 IF Single THEN final.share[r] = owners /\ final.proof[r] = owners
                 ELSE \A i \in DOMAIN owners :
                        {final.inputs[i].share[r], final.inputs[i].proof[r]} = {owners[i]}
       /\ {"inputs", "outputs"} \cap final.modifiable = {}

(* Every snapshot of a run that is evidence came through the lab: read by    *)
(* all its parsers, but for the rejections of an unresolved PSBT, and        *)
(* returned by each adapter saying what it said before; and with nothing     *)
(* approved, read by all and returned as it was.                             *)
EvidenceRoundTrips == IsEvidence => ~ harm

(* A run in which nothing differs is evidence when it may be: the checks do  *)
(* not refuse what honest signers, validators and adapters make of a full,   *)
(* strict scenario in a release check, if its owners are its signers.        *)
HonestRunIsEvidence ==
  /\ pc = "done" /\ odd = 0 /\ sc.inputs # <<>> /\ Owners(sc) \subseteq sc.signers
  /\ release /\ sc.verification = "full" /\ sc.policy = "strict" /\ sc.intent
  /\ sc.validators = KnownValidators
  => manifest = [scope |-> "evidence", reason |-> "none", status |-> "recorded"]
=============================================================================
