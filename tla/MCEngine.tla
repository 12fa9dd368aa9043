------------------------------ MODULE MCEngine ------------------------------
(***************************************************************************)
(* Engine on two inputs and one silent-payment output.  The first input    *)
(* may hold signatures of two public keys and shares of two scan keys.  A  *)
(* signer may make a few of the record changes below in one step: the ones *)
(* its phase asks of it, the ones that belong to another phase or another  *)
(* signer, and rewrites and omissions of what it was given.                *)
(***************************************************************************)
EXTENDS Engine, TLC

CONSTANTS a, b, c, v1, v2, w1, w2, w3, k1, k2, inputs, outputs

Keyed(i, field, key) == [scope |-> "input", index |-> i, field |-> field, key |-> key]

In(i, field)  == Keyed(i, field, NoKey)
Out(field)    == [scope |-> "output", index |-> 1, field |-> field, key |-> NoKey]
Global(field) == [scope |-> "global", index |-> 0, field |-> field, key |-> NoKey]
GlobalOf(k, field) == [Global(field) EXCEPT !.key = k]

MCSlot ==
  {Keyed(i, f, k1) : i \in 1..2, f \in {"partial_signature", "sp_ecdh_share", "sp_dleq"}}
  \cup {Keyed(1, f, k2) : f \in {"partial_signature", "sp_ecdh_share", "sp_dleq"}}
  \cup {In(1, "final_scriptwitness"), In(2, "final_scriptwitness"), In(1, "witness_utxo")}
  \cup {Out("amount"), Out("sp_v0_info"), Out("script")}
  \cup {Global("fallback_locktime"), Global("tx_modifiable"),
        GlobalOf(k1, "sp_ecdh_share"), GlobalOf(k1, "sp_dleq")}

MCValue == {v1, v2, w1, w2, w3}

(* Signatures have the content v1; another signature would make w3.         *)
MCStack(items) ==
  CASE items = <<v1, k1>> -> w1 [] items = <<v1, k2>> -> w2 [] OTHER -> w3

MCFlag  == {inputs, outputs}

MCInitialPsbts ==
  {[s \in MCSlot |->
      CASE s \in {Out("amount"), Out("sp_v0_info")} -> v1
        [] s = Global("tx_modifiable") -> flags
        [] OTHER -> Absent] : flags \in {{inputs, outputs}, Absent}}

SharesOf(i, k) == (Keyed(i, "sp_ecdh_share", k) :> v1) @@ (Keyed(i, "sp_dleq", k) :> v1)
SignedBy(i, k) == Keyed(i, "partial_signature", k) :> v1
Shares(i)    == SharesOf(i, k1)
GlobalShares == (GlobalOf(k1, "sp_ecdh_share") :> v1) @@ (GlobalOf(k1, "sp_dleq") :> v1)
Signed(i)    == SignedBy(i, k1)
Witness(i)   == In(i, "final_scriptwitness") :> w1
Script       == Out("script") :> v1

(* What the phases ask of a signer that owns input i, or both inputs.       *)
Honest ==
  UNION {{ Shares(i), Signed(i), Signed(i) @@ Witness(i), Signed(i) @@ Script,
           Shares(i) @@ Signed(i) @@ Script } : i \in 1..2}
  \cup { <<>>, Shares(1) @@ Shares(2), Shares(1) @@ SharesOf(1, k2), Signed(1) @@ Signed(2),
         GlobalShares @@ Signed(1) @@ Signed(2) @@ Script }

(* One change beside what was asked, or against it.                         *)
Deviations ==
  UNION {{ Keyed(i, "sp_ecdh_share", k1) :> v1, Signed(i),
           In(i, "final_scriptwitness") :> w2 } : i \in 1..2}
  \cup { SignedBy(1, k2), SignedBy(1, k2) @@ (In(1, "final_scriptwitness") :> w2),
         Keyed(1, "sp_ecdh_share", k2) :> v1 }
  \cup { <<>>, Script, GlobalOf(k1, "sp_ecdh_share") :> v1, In(1, "witness_utxo") :> v1,
         Global("tx_modifiable") :> {}, Global("tx_modifiable") :> {inputs, outputs},
         Global("tx_modifiable") :> v1, Global("tx_modifiable") :> Absent,
         Global("fallback_locktime") :> v1, Out("amount") :> v2, Out("script") :> v2,
         Keyed(1, "sp_ecdh_share", k1) :> Absent, Out("sp_v0_info") :> Absent }

(* Where the phases have no contract everything additive is accepted: a few *)
(* changes are enough there, and more would only multiply the states.       *)
Uncontracted ==
  { <<>>, Signed(1), Signed(2) @@ Witness(2), In(1, "witness_utxo") :> v1,
    Global("tx_modifiable") :> {}, Out("script") :> v2, Out("amount") :> v2 }

MCChanges(sc) ==
  IF sc.suite = "musig2-sp" THEN Uncontracted
  ELSE IF sc.redundant THEN Uncontracted \cup {Shares(1) @@ Shares(2), Script}
  ELSE {x @@ y : x \in Deviations, y \in Honest}

Sc(suite, names, order, owner, mode, sp, redundant, policy, warn) ==
  [suite |-> suite, names |-> names, order |-> order, owner |-> owner, mode |-> mode,
   spOutput |-> sp, redundant |-> redundant, policy |-> policy, expectWarning |-> warn]

(* Two owners, both orders and policies; three signers of whom one owns     *)
(* nothing; one signer in global mode; no output to resolve; one owner of   *)
(* every input among two signers; a redundant round; MuSig2.                *)
MCScenarios ==
  { Sc("bip375", <<a, b>>, <<a, b>>, <<a, b>>, "per-input", TRUE, FALSE, "strict", FALSE),
    Sc("bip375", <<a, b>>, <<b, a>>, <<a, b>>, "per-input", TRUE, FALSE, "combiner", TRUE),
    Sc("bip375", <<a, b, c>>, <<b, c, a>>, <<a, b>>, "per-input", TRUE, FALSE, "strict", FALSE),
    Sc("bip375", <<a>>, <<a>>, <<a, a>>, "global", TRUE, FALSE, "combiner", FALSE),
    Sc("bip375", <<a, b>>, <<b, a>>, <<a, b>>, "per-input", FALSE, FALSE, "strict", FALSE),
    Sc("bip375", <<a, b>>, <<a, b>>, <<a, a>>, "per-input", TRUE, FALSE, "strict", FALSE),
    Sc("bip375", <<a, b>>, <<a, b>>, <<a, a>>, "per-input", TRUE, TRUE, "strict", FALSE),
    Sc("musig2-sp", <<a, b>>, <<a, b>>, <<a, b>>, "per-input", TRUE, FALSE, "strict", FALSE) }

=============================================================================
