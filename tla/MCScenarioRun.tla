--------------------------- MODULE MCScenarioRun ---------------------------
(***************************************************************************)
(* ScenarioRun on one scenario of each kind the claims tell apart, with    *)
(* two workers.                                                            *)
(***************************************************************************)
EXTENDS ScenarioRun

CONSTANTS a, b

Sc(suite, generated, intent, verification, policy, validators) ==
  [suite |-> suite, generated |-> generated, intent |-> intent,
   verification |-> verification, policy |-> policy, validators |-> validators,
   signers |-> <<a, b>>]

MCScenarios ==
  { Sc("bip375", TRUE, TRUE, "full", "strict", <<"caravan", "spdk">>),
    Sc("bip375", TRUE, TRUE, "full", "strict", <<"spdk">>),
    Sc("bip375", TRUE, TRUE, "full", "strict", <<>>),
    Sc("bip375", TRUE, TRUE, "full", "combiner", <<"caravan", "spdk">>),
    Sc("bip375", TRUE, TRUE, "structural", "strict", <<"caravan", "spdk">>),
    Sc("bip375", FALSE, TRUE, "full", "strict", <<"caravan", "spdk">>),
    Sc("bip375", FALSE, FALSE, "full", "strict", <<"caravan", "spdk">>),
    Sc("musig2-sp", FALSE, FALSE, "full", "strict", <<>>) }

=============================================================================
