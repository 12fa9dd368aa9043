---------------------------- MODULE AdditivePsbt ----------------------------
(***************************************************************************)
(* What the harness promises about the PSBT it carries from signer to      *)
(* signer (merge_psbts: "without permitting any silent mutation"): it only *)
(* grows.  The transaction it describes is fixed, a record once present    *)
(* keeps its bytes for ever, and tx_modifiable can only lose permissions.  *)
(***************************************************************************)
EXTENDS PsbtMaps

VARIABLE psbt

(* new carries at least what old carries.                                   *)
Extends(old, new) ==
  /\ \A s \in Protected : new[s] = old[s]
  /\ \A s \in Slot : ~ IsFlags(s) /\ old[s] # Absent => new[s] = old[s]
  /\ \A s \in Slot : IsFlags(s) =>
       \/ new[s] = old[s]
       \/ new[s] = {}
       \/ old[s] \in FlagByte /\ new[s] \in FlagByte /\ new[s] \subseteq old[s]

Init == psbt \in Psbt
Next == psbt' \in Psbt /\ Extends(psbt, psbt')
Spec == Init /\ [][Next]_psbt

=============================================================================
