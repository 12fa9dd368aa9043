----------------------------- MODULE InteropLab -----------------------------
(***************************************************************************)
(* interop_lab.py: what the Interop Lab's parsers and native adapters may  *)
(* answer about a PSBT of ours, and what the stage makes of it.  The lab   *)
(* itself runs outside this repository: a parser accepts, rejects or       *)
(* errs, and an adapter returns any records.  An answer that passes with   *)
(* an explicit approval is a finding, any other that is not as it should   *)
(* be a failure.                                                           *)
(*                                                                         *)
(* A returned PSBT is a function from the records it holds to their        *)
(* contents, as is one of ours.                                            *)
(***************************************************************************)
EXTENDS Verification

Adapters == {"rust-psbt-v2", "libwally"}

KNOWN_FINDINGS ==
  {"bundled-js-rejects-unresolved", "libwally-rejects-unresolved",
   "rust-psbt-v2-adds-empty-script", "libwally-drops-zero-tx-modifiable",
   "libwally-drops-taproot-sighash-all", "libwally-drops-taproot-sighash-default"}

-----------------------------------------------------------------------------
(* The records of a PSBT, and semantic_diff of two                         *)

Entry(scope, index, field) == [scope |-> scope, index |-> index, field |-> field]

TxModifiable == Entry("global", 0, "tx_modifiable")

Entries(psbt) ==
  (IF psbt.modifiable = {"none"} THEN {} ELSE {TxModifiable})
    \cup {Entry("input", i, f) : i \in DOMAIN psbt.inputs, f \in {"utxo", "signature"}}
    \cup {Entry("input", i, "sighash") :
            i \in {j \in DOMAIN psbt.inputs : psbt.inputs[j].sighash # "none"}}
    \cup {Entry("output", o, "amount") : o \in DOMAIN psbt.outputs}
    \cup {Entry("output", o, "info") : o \in SilentOutputs(psbt)}
    \cup {Entry("output", o, "script") :
            o \in {q \in DOMAIN psbt.outputs : Present(psbt.outputs[q])}}

Container(psbt) ==
  [e \in Entries(psbt) |->
     CASE e.scope = "global"    -> psbt.modifiable
       [] e.field = "utxo"      -> psbt.inputs[e.index].utxo
       [] e.field = "signature" ->
            [partial |-> psbt.inputs[e.index].partial, tap |-> psbt.inputs[e.index].tap,
             form |-> psbt.inputs[e.index].form]
       [] e.field = "sighash"   -> psbt.inputs[e.index].sighash
       [] e.field = "amount"    -> psbt.outputs[e.index].amount
       [] e.field = "info"      -> psbt.outputs[e.index].info
       [] OTHER                 -> psbt.outputs[e.index].script]

Added(before, after)    == DOMAIN after \ DOMAIN before
Removed(before, after)  == DOMAIN before \ DOMAIN after
Modified(before, after) ==
  {e \in DOMAIN before \cap DOMAIN after : before[e] # after[e]}

-----------------------------------------------------------------------------
(* _known_roundtrip_change                                                 *)

HasSilentPayment(psbt) ==
  \/ SilentOutputs(psbt) # {}
  \/ \E i \in DOMAIN psbt.inputs : psbt.inputs[i].type = "sp-spend"

SpendsTaproot(in) == in.type \in {"p2tr", "sp-spend"} /\ in.utxo \in {"witness", "both"}

HasTaprootSighashAllSignature(in) == in.tap # NoValue /\ in.form = "65-all"

(* rust-psbt-v2 wrote a script without bytes to every unresolved output, and *)
(* changed nothing else.                                                     *)
AddsEmptyScripts(psbt, after) ==
  LET before == Container(psbt)
  IN /\ Unresolved(psbt) # {}
     /\ Removed(before, after) = {} /\ Modified(before, after) = {}
     /\ {e.index : e \in Added(before, after)} = Unresolved(psbt)
     /\ \A e \in Added(before, after) :
          e.scope = "output" /\ e.field = "script" /\ after[e] = EmptyScript

(* The dropped records libwally may do without: a zero tx_modifiable; of a   *)
(* taproot input an explicit DEFAULT, or an ALL its signature carries.       *)
Redundant(psbt, e) ==
  \/ e = TxModifiable /\ psbt.modifiable = {}
  \/ /\ e.field = "sighash" /\ SpendsTaproot(psbt.inputs[e.index])
     /\ \/ psbt.inputs[e.index].sighash = "default"
        \/ /\ psbt.inputs[e.index].sighash = "all"
           /\ HasTaprootSighashAllSignature(psbt.inputs[e.index])

(* Which of its findings the drops are: the first that applies names all.    *)
DropFinding(psbt, removed) ==
  IF \E e \in removed : e.field = "sighash" /\ psbt.inputs[e.index].sighash = "default"
    THEN "libwally-drops-taproot-sighash-default"
  ELSE IF \E e \in removed : e.field = "sighash"
    THEN "libwally-drops-taproot-sighash-all"
  ELSE "libwally-drops-zero-tx-modifiable"

(* Mutant: the drops known of are looked for, and not counted.               *)
KnownRoundtripChangeUncounted(adapter, psbt, after) ==
  LET before  == Container(psbt)
      removed == {e \in Removed(before, after) : Redundant(psbt, e)}
  IN IF before = after THEN "none"
     ELSE IF adapter = "libwally" /\ removed # {} THEN DropFinding(psbt, removed)
     ELSE "unexpected-roundtrip-change"

KnownRoundtripChange(adapter, psbt, after) ==
  LET before  == Container(psbt)
      removed == Removed(before, after)
  IN IF before = after THEN "none"
     ELSE IF adapter = "rust-psbt-v2" /\ AddsEmptyScripts(psbt, after)
       THEN "rust-psbt-v2-adds-empty-script"
     ELSE IF /\ adapter = "libwally" /\ HasSilentPayment(psbt) /\ Unresolved(psbt) = {}
             /\ Added(before, after) = {} /\ Modified(before, after) = {}
             /\ \A e \in removed : Redundant(psbt, e)
       THEN DropFinding(psbt, removed)
     ELSE "unexpected-roundtrip-change"

-----------------------------------------------------------------------------
(* validate_snapshots: what each answer adds to a file's findings, and       *)
(* whether it is a failure                                                   *)

Mark(findings, failed) == [findings |-> findings, failed |-> failed]

(* The rejection of a PSBT with an unresolved output is known, an error not. *)
Rejection(psbt, outcome, finding) ==
  IF outcome = "ok" THEN Mark({}, FALSE)
  ELSE IF Unresolved(psbt) # {} /\ outcome = "rejected" THEN Mark(finding, FALSE)
  ELSE Mark({}, TRUE)

(* The parser matrix: the lab's own parser, and bundled-js.                  *)
ParserMark(psbt, own, js) ==
  LET rejection == Rejection(psbt, js, {"bundled-js-rejects-unresolved"})
  IN Mark(rejection.findings, rejection.failed \/ own # "ok")

(* An adapter's native parse.                                                *)
NativeMark(adapter, psbt, parsed) ==
  IF adapter = "libwally" THEN Rejection(psbt, parsed, {"libwally-rejects-unresolved"})
                          ELSE Mark({}, parsed # "ok")

(* Its roundtrip: refused, something that does not parse, or a PSBT.         *)
RefusedMark(adapter, psbt, rounded) ==
  IF adapter = "libwally" THEN Rejection(psbt, rounded, {}) ELSE Mark({}, TRUE)

InvalidMark == Mark({}, TRUE)

ReturnedMark(adapter, psbt, after) ==
  LET finding == KnownRoundtripChange(adapter, psbt, after)
  IN Mark({finding} \ {"none", "unexpected-roundtrip-change"},
          finding = "unexpected-roundtrip-change")

Both(m, n) == Mark(m.findings \cup n.findings, m.failed \/ n.failed)

(* A file passes with no failure, and no finding that was not approved.      *)
FilePasses(m, allowed) == ~ m.failed /\ m.findings \subseteq allowed

=============================================================================
