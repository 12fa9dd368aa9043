---------------------------- MODULE MCCheckouts ----------------------------
(***************************************************************************)
(* Checkouts for two checkouts and the fetches of two profiles.            *)
(***************************************************************************)
EXTENDS Checkouts

CONSTANTS a, b

MCNames == <<a, b>>

=============================================================================
