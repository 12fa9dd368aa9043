------------------------------ MODULE PsbtMaps ------------------------------
(***************************************************************************)
(* Conservative PSBTv2 merging (psbt_maps.py).                             *)
(*                                                                         *)
(* A parsed PSBT is a function from record slots to contents.  A slot      *)
(* stands for one record key: its map (scope and index), its field, which  *)
(* is the type byte, and its key data: the public key of a signature, the  *)
(* scan key of a share.  One input may hold several records of one field.  *)
(* Contents are opaque values, except tx_modifiable, whose one byte is the *)
(* set of flags it sets: a content of that slot that is not a set of flags *)
(* is a byte string of the wrong length.  The order of records in a map is *)
(* left out: merging and the contracts do not look at it.                  *)
(***************************************************************************)
EXTENDS Naturals, FiniteSets

CONSTANTS
  Slot,    \* the record slots, [scope, index, field, key]
  KeyData, \* what follows the type byte of a record key
  NoKey,   \* the key of a record that is its type byte alone
  Value,   \* the opaque record contents
  Flag,    \* the bits of tx_modifiable
  Absent   \* what a slot without a record holds

(* The values of the tx_modifiable byte, as sets of set bits (an enumerated  *)
(* set: TLC cannot ask whether an opaque value is a subset).                *)
FlagByte == {F : F \in SUBSET Flag}

Content == Value \cup FlagByte

ASSUME PsbtAssumption ==
  /\ Slot \subseteq [scope : {"global", "input", "output"}, index : Nat,
                     field : STRING, key : KeyData \cup {NoKey}]
  /\ NoKey \notin KeyData
  /\ Absent \notin Content

(* A parsed PSBT: parse_psbt's maps, with Absent where a map has no record. *)
Psbt == [Slot -> Content \cup {Absent}]

-----------------------------------------------------------------------------
(* Fields named by the container rules, which look up the type byte alone. *)

RequiredFields ==
  [global |-> {"psbt_version", "tx_version", "input_count", "output_count"},
   input  |-> {"previous_txid", "output_index"},
   output |-> {"amount"}]

ProtectedFields ==
  [global |-> {"psbt_version", "tx_version", "fallback_locktime",
               "input_count", "output_count"},
   input  |-> {"previous_txid", "output_index", "sequence",
               "required_time_locktime", "required_height_locktime"},
   output |-> {"amount"}]

Protected == {s \in Slot : s.key = NoKey /\ s.field \in ProtectedFields[s.scope]}

IsFlags(s) == s.scope = "global" /\ s.field = "tx_modifiable" /\ s.key = NoKey

(* What parse_psbt accepts: the records every map must hold, and for each   *)
(* output a script or silent-payment information to derive one from.        *)
WellFormed(p) ==
  /\ \A s \in Slot : s.key = NoKey /\ s.field \in RequiredFields[s.scope] => p[s] # Absent
  /\ \A i \in {s.index : s \in {t \in Slot : t.scope = "output"}} :
       \E s \in Slot : /\ s.scope = "output" /\ s.index = i /\ s.key = NoKey
                       /\ s.field \in {"script", "sp_v0_info"}
                       /\ p[s] # Absent

-----------------------------------------------------------------------------
(* semantic_diff: whether a returned PSBT adds, drops or rewrites a slot.    *)

IsAdded(before, after, s)   == before[s] = Absent /\ after[s] # Absent
IsRemoved(before, after, s) == before[s] # Absent /\ after[s] = Absent
IsModified(before, after, s) ==
  before[s] # Absent /\ after[s] # Absent /\ before[s] # after[s]

-----------------------------------------------------------------------------
(* merge_parsed_psbts                                                      *)

(* Mutants of the definitions below: a record the contribution omits left    *)
(* out; any tx_modifiable byte accepted.                                     *)
MergedDropsOmitted(base, contribution) ==
  [s \in Slot |->
     IF base[s] = Absent \/ contribution[s] = Absent \/ IsFlags(s)
       THEN contribution[s]
       ELSE base[s]]

FlagsRefusedNever(old, new) == FALSE

(* tx_modifiable may only lose bits: a rewritten byte must be covered by    *)
(* the old one, and a byte written where there was none must be zero.       *)
FlagsRefused(old, new) ==
  \/ /\ old # Absent /\ new \notin {old, Absent}
     /\ ~ (old \in FlagByte /\ new \in FlagByte /\ new \subseteq old)
  \/ old = Absent /\ new \notin {Absent, {}}

(* A record the contribution drops is an error under "strict" only.         *)
OmissionRefused(base, contribution, s, policy) ==
  /\ policy = "strict"
  /\ ~ IsFlags(s)
  /\ IsRemoved(base, contribution, s)

ConflictRefused(base, contribution, s) ==
  IF IsFlags(s) THEN FlagsRefused(base[s], contribution[s])
                ELSE IsModified(base, contribution, s)

(* _require_same_transaction: byte equality, absence included.              *)
SameTransaction(base, contribution) ==
  \A s \in Protected : base[s] = contribution[s]

Mergeable(base, contribution, policy) ==
  /\ SameTransaction(base, contribution)
  /\ \A s \in Slot : /\ ~ ConflictRefused(base, contribution, s)
                     /\ ~ OmissionRefused(base, contribution, s, policy)

(* The merged PSBT.  Dropping tx_modifiable means clearing every flag, so   *)
(* the record stays as a zero byte; any other dropped record is restored.   *)
Merged(base, contribution) ==
  [s \in Slot |->
     IF IsFlags(s)
       THEN IF base[s] # Absent /\ contribution[s] = Absent
              THEN {} ELSE contribution[s]
       ELSE IF base[s] = Absent THEN contribution[s] ELSE base[s]]

(* The records _merge_map restores, reported to the caller.                 *)
Repairs(base, contribution) ==
  {s \in Slot : IsRemoved(base, contribution, s) /\ ~ IsFlags(s)}

=============================================================================
