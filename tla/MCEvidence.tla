----------------------------- MODULE MCEvidence -----------------------------
(* Constants of Evidence for TLC: a mixed run of two owners, one generated   *)
(* and one external with a recipient paid twice, a run with global shares, a *)
(* run of one owner, a structural one and one without intent.                *)
EXTENDS Evidence

CONSTANTS a, b, r1, r2

In(type, owner, sighash) ==
  [type |-> type, owner |-> owner, utxo |-> "witness", sighash |-> sighash]
Pay(r)      == [type |-> "silent-payment", to |-> r]
PayPlain(t) == [type |-> t, to |-> NoValue]

Run(inputs, outputs) ==
  [suite |-> "bip375", verification |-> "full", policy |-> "strict", intent |-> TRUE,
   generated |-> FALSE, mode |-> "per-input", signers |-> {a, b},
   validators |-> KnownValidators, inputs |-> inputs, outputs |-> outputs]

Mixed == <<In("p2wpkh", a, "all"), In("p2tr", b, "all")>>

MCScenarios ==
  {[Run(Mixed, <<Pay(r1)>>) EXCEPT !.generated = TRUE],
   Run(Mixed, <<Pay(r1), Pay(r1), PayPlain("p2wpkh")>>),
   [Run(<<In("p2wpkh", a, "all"), In("sp-spend", a, "default")>>, <<Pay(r1), Pay(r2)>>)
      EXCEPT !.mode = "global", !.signers = {a}],
   Run(<<In("p2tr", a, "default"), In("p2wpkh", a, "all")>>, <<Pay(r2)>>),
   [Run(<<In("p2wpkh", a, "all")>>, <<Pay(r1)>>) EXCEPT !.verification = "structural"],
   [Run(<<In("p2tr", a, "all")>>, <<PayPlain("p2tr")>>) EXCEPT !.intent = FALSE]}

MCApprovals == {{}, KNOWN_FINDINGS, {"libwally-drops-taproot-sighash-default"}}
=============================================================================
