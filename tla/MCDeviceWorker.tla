--------------------------- MODULE MCDeviceWorker ---------------------------
(* Constants of DeviceWorker for TLC: two Jades, which may be handed one     *)
(* port, and a Jade beside a ColdCard.  No symmetry, since there is a        *)
(* liveness property; instead the second worker is the ColdCard, and of the  *)
(* requests that differ by a renaming only some are sent.                    *)
EXTENDS DeviceWorker, TLC

CONSTANTS w1, w2, m1, m2, d1, d2

MCPairings == {w1 :> "jade" @@ w2 :> "jade", w1 :> "jade" @@ w2 :> "coldcard"}

Asks(suite, m, d) == [suite |-> suite, mnemonic |-> m, descriptor |-> d]

(* A round of each suite, the other descriptor with the same mnemonic, and   *)
(* the other mnemonic with the same descriptor and with none.                *)
MCRequests ==
  { Asks("bip375", m1, NoValue), Asks("musig2-sp", m1, d1), Asks("musig2-sp", m1, d2),
    Asks("musig2-sp", m2, d1), Asks("musig2-sp", m2, NoValue) }
=============================================================================
