------------------------------ MODULE MCCheck ------------------------------
(***************************************************************************)
(* Check on one scenario the harness generates and one that needs a PSBT.  *)
(***************************************************************************)
EXTENDS Check

CONSTANTS gen, ext

MCEntries ==
  << [name |-> gen, generated |-> TRUE,
      scenario |-> [suite |-> "bip375", verification |-> "full", policy |-> "strict",
                    intent |-> TRUE, validators |-> <<>>]],
     [name |-> ext, generated |-> FALSE,
      scenario |-> [suite |-> "musig2-sp", verification |-> "full", policy |-> "strict",
                    intent |-> FALSE, validators |-> <<>>]] >>

File(expects) == [state |-> "valid", expects |-> expects]
Both(g, e) == [name \in {gen, ext} |-> IF name = gen THEN g ELSE e]

MCExpectationFiles ==
  { File(Both("supported", "supported")),
    File(Both("finding", "needs-external-psbt")),
    File([name \in {gen} |-> "unclassified"]),
    [state |-> "missing", expects |-> <<>>],
    [state |-> "invalid", expects |-> <<>>] }

=============================================================================
