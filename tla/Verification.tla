---------------------------- MODULE Verification ----------------------------
(***************************************************************************)
(* verification.py: what the harness checks of a PSBT that comes out of    *)
(* the rounds, against the scenario.  The checks read the PSBT itself; the *)
(* cryptography is abstract:                                               *)
(*                                                                         *)
(*   - a key is the name of the signer whose seed it is derived from;      *)
(*   - an ECDH share and its DLEQ proof are the key they were made with    *)
(*     (of a global one: the keys of all inputs), so that a proof verifies *)
(*     when share and proof were both made with the key it is checked for; *)
(*   - a signature has the key that made it; one over something else than  *)
(*     this transaction is a stranger's;                                   *)
(*   - an input has the key its derivation records lead to, and the one    *)
(*     its UTXO pays: nothing in src/ compares the two;                    *)
(*   - a Silent Payment script is the recipient, the input keys it was     *)
(*     derived from and its position among the recipient's outputs.        *)
(*                                                                         *)
(* The resolver and the primitives are embit's.  Every input of a type the *)
(* harness knows is eligible (BIP-352).                                    *)
(***************************************************************************)
EXTENDS Naturals, Sequences, FiniteSets, SequencesExt

CONSTANTS
  Name,       \* the signers
  Stranger,   \* a key of no signer of the scenario
  Recipient,  \* _RECIPIENTS
  NoValue     \* a record that is not there

ASSUME VerificationAssumption ==
  /\ Stranger \notin Name
  /\ NoValue \notin Name \cup {Stranger} \cup Recipient

Key == Name \cup {Stranger}

(* Output scripts.  "empty" is a script record without bytes.                *)
Script(kind, to, keys, nth) == [kind |-> kind, to |-> to, keys |-> keys, nth |-> nth]
NoScript    == Script("none", NoValue, <<>>, 0)
EmptyScript == Script("empty", NoValue, <<>>, 0)
Plain(type) == Script(type, NoValue, <<>>, 0)

Present(out) == out.script # NoScript

(* The outputs that carry Silent Payment recipient information, and those of *)
(* them that have no script yet.                                             *)
SilentOutputs(psbt) == {o \in DOMAIN psbt.outputs : psbt.outputs[o].info # NoValue}
Unresolved(psbt)    == {o \in SilentOutputs(psbt) : ~ Present(psbt.outputs[o])}
Recipients(psbt)    == {psbt.outputs[o].info : o \in SilentOutputs(psbt)}

-----------------------------------------------------------------------------
(* The initial PSBT                                                        *)

Owners(sc) == {sc.inputs[i].owner : i \in DOMAIN sc.inputs}

(* A PSBT nobody signed, of a scenario's inputs and outputs.                 *)
Prepared(sc) ==
  [inputs  |-> [i \in DOMAIN sc.inputs |->
     [utxo |-> sc.inputs[i].utxo, type |-> sc.inputs[i].type, amount |-> 1,
      key |-> sc.inputs[i].owner, lock |-> sc.inputs[i].owner,
      share |-> [r \in Recipient |-> NoValue], proof |-> [r \in Recipient |-> NoValue],
      partial |-> <<>>, tap |-> NoValue, form |-> "64",
      sighash |-> sc.inputs[i].sighash]],
   outputs |-> [o \in DOMAIN sc.outputs |->
     [amount |-> 1, info |-> sc.outputs[o].to,
      script |-> IF sc.outputs[o].to # NoValue THEN NoScript ELSE Plain(sc.outputs[o].type)]],
   share |-> [r \in Recipient |-> <<>>], proof |-> [r \in Recipient |-> <<>>],
   modifiable |-> {"inputs", "outputs"}]

(* build_bip375_fixture: of a scenario with one output.                      *)
FixtureBuilds(sc) == Len(sc.outputs) = 1 /\ Owners(sc) \subseteq sc.signers
Fixture(sc)       == Prepared(sc)

(* require_input_utxos, before the rounds: a UTXO for every input, and where *)
(* the whole transaction is there, one that agrees with it.                  *)
RequireInputUtxos(psbt) ==
  /\ psbt.inputs # <<>>
  /\ \A i \in DOMAIN psbt.inputs : psbt.inputs[i].utxo \notin {"none", "mismatch"}

(* What the manifest says of the amounts: checked against the transaction    *)
(* of every input, or declared by the PSBT.                                  *)
UtxoSource(psbt) ==
  IF \E i \in DOMAIN psbt.inputs : psbt.inputs[i].utxo = "witness"
    THEN "declared" ELSE "non_witness_utxo"

-----------------------------------------------------------------------------
(* Silent Payments                                                         *)

Keys(psbt) == [i \in DOMAIN psbt.inputs |-> psbt.inputs[i].key]

(* get_eligible_inputs and _match_input_privkey: every eligible input's key  *)
(* comes from a seed of the scenario.                                        *)
KeysKnown(sc, psbt) ==
  psbt.inputs # <<>> /\ \A i \in DOMAIN psbt.inputs : psbt.inputs[i].key \in sc.signers

(* Mutant: every output of a recipient is taken for the first one.           *)
PositionFirst(psbt, o) == 1

(* An output's position among those with its scan key.                       *)
Position(psbt, o) ==
  Cardinality({q \in 1 .. o : psbt.outputs[q].info = psbt.outputs[o].info})

(* expected_sp_output_script: derived from what the PSBT itself carries.     *)
ExpectedScript(psbt, o) ==
  Script("sp", psbt.outputs[o].info, Keys(psbt), Position(psbt, o))

ScriptsHold(sc, psbt) ==
  /\ \A o \in SilentOutputs(psbt) :
       KeysKnown(sc, psbt) /\ psbt.outputs[o].script = ExpectedScript(psbt, o)
  /\ \A o \in DOMAIN psbt.outputs : Present(psbt.outputs[o])

GlobalShares(sc) == sc.mode = "global" \/ Cardinality(Owners(sc)) <= 1

(* verify_dleq_proof                                                         *)
Proves(key, share, proof) == share = key /\ proof = key

(* _verify_global_sp_evidence                                                *)
GlobalShareHolds(sc, psbt, r) ==
  KeysKnown(sc, psbt) /\ Proves(Keys(psbt), psbt.share[r], psbt.proof[r])

InputSharesHold(sc, psbt, r) ==
  /\ psbt.share[r] = <<>>
  /\ \A i \in DOMAIN psbt.inputs :
       /\ psbt.inputs[i].key \in sc.signers
       /\ Proves(psbt.inputs[i].key, psbt.inputs[i].share[r], psbt.inputs[i].proof[r])

(* _verify_sp_input_evidence: the global share of a run with one owner, a    *)
(* share of each input and no global one of a run with several.              *)
SharesHold(sc, psbt) ==
  \A r \in Recipients(psbt) :
    IF GlobalShares(sc) THEN GlobalShareHolds(sc, psbt, r) ELSE InputSharesHold(sc, psbt, r)

-----------------------------------------------------------------------------
(* Signatures                                                              *)

(* _verify_input_signature of a P2WPKH input: the first partial signature.   *)
PartialHolds(in, owner) ==
  /\ 1 \in DOMAIN in.partial
  /\ in.partial[1].key = owner /\ in.partial[1].by = owner

(* Of a taproot input: 64 bytes, or 65 whose last is not 0x00.  It verifies  *)
(* against the output key of the UTXO.                                       *)
TapHolds(in) == in.tap = in.lock /\ in.form \in {"64", "65-all", "65-other"}

(* Mutant: the input is not asked to be the owner's.                         *)
SignatureByAnyone(sc, psbt, i) ==
  LET in == psbt.inputs[i]
  IN IF in.type = "p2wpkh" THEN PartialHolds(in, in.key) ELSE TapHolds(in)

(* _verify_input_signature: the owner is a signer of the scenario, the       *)
(* input's derivation leads to the owner's seed, and the signature verifies. *)
SignatureHolds(sc, psbt, i) ==
  LET in == psbt.inputs[i]  owner == sc.inputs[i].owner
  IN /\ owner \in sc.signers /\ in.key = owner
     /\ IF in.type = "p2wpkh" THEN PartialHolds(in, owner) ELSE TapHolds(in)

(* _check_tx_modifiable: the flags are clear, or the record is not there.    *)
ModifiableClear(psbt) == psbt.modifiable \in {{}, {"none"}}

-----------------------------------------------------------------------------
(* The levels                                                              *)

(* Mutant: the recipient is left to what the PSBT carries.                   *)
IntentWithoutRecipient(sc, psbt) ==
  /\ DOMAIN psbt.inputs = DOMAIN sc.inputs /\ DOMAIN psbt.outputs = DOMAIN sc.outputs
  /\ \A i \in DOMAIN sc.inputs :
       psbt.inputs[i].type = sc.inputs[i].type /\ psbt.inputs[i].amount = 1
  /\ \A o \in DOMAIN sc.outputs : psbt.outputs[o].amount = 1

(* _verify_scenario_intent: counts, input types and amounts, output amounts, *)
(* recipients and plain scripts.  A scenario's amounts are all 1.            *)
IntentHolds(sc, psbt) ==
  /\ DOMAIN psbt.inputs = DOMAIN sc.inputs /\ DOMAIN psbt.outputs = DOMAIN sc.outputs
  /\ \A i \in DOMAIN sc.inputs :
       psbt.inputs[i].type = sc.inputs[i].type /\ psbt.inputs[i].amount = 1
  /\ \A o \in DOMAIN sc.outputs :
       /\ psbt.outputs[o].amount = 1
       /\ IF sc.outputs[o].type = "silent-payment"
            THEN psbt.outputs[o].info = sc.outputs[o].to
            ELSE /\ sc.outputs[o].type \in {"p2wpkh", "p2tr"}
                 /\ psbt.outputs[o].script = Plain(sc.outputs[o].type)

(* _verify_bip375_structural: fields, no cryptography.                       *)
StructuralHolds(sc, psbt) ==
  /\ DOMAIN psbt.inputs = DOMAIN sc.inputs
  /\ \A o \in DOMAIN psbt.outputs : Present(psbt.outputs[o])
  /\ \A i \in DOMAIN sc.inputs :
       IF sc.inputs[i].type = "p2wpkh" THEN psbt.inputs[i].partial # <<>>
                                       ELSE psbt.inputs[i].tap # NoValue
  /\ ModifiableClear(psbt)

(* _verify_bip375_consistency, when the scenario declares no intent.         *)
ConsistencyHolds(psbt) ==
  /\ \A o \in DOMAIN psbt.outputs : Present(psbt.outputs[o])
  /\ \A i \in DOMAIN psbt.inputs :
       psbt.inputs[i].partial # <<>> \/ psbt.inputs[i].tap # NoValue
  /\ ModifiableClear(psbt)

(* verify_bip375_completion raises nothing.                                  *)
CompletionHolds(sc, psbt) ==
  IF ~ sc.intent THEN ConsistencyHolds(psbt)
  ELSE /\ IntentHolds(sc, psbt)
       /\ IF sc.verification = "structural" THEN StructuralHolds(sc, psbt)
          ELSE /\ ScriptsHold(sc, psbt)
               /\ SharesHold(sc, psbt)
               /\ \A i \in DOMAIN psbt.inputs : SignatureHolds(sc, psbt, i)
               /\ ModifiableClear(psbt)

=============================================================================
