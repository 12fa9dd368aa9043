------------------------------- MODULE MCGui -------------------------------
(***************************************************************************)
(* Gui with two profiles whose pins the window updates, one of them of the *)
(* MuSig2 baseline, and the live profile.                                  *)
(***************************************************************************)
EXTENDS Gui

CONSTANTS bip375, musig2, live

MCProfile  == {bip375, musig2, live}
MCPinnable == {bip375, musig2}
MCMuSig2   == {musig2}

=============================================================================
