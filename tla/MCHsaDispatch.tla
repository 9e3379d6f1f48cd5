--------------------------- MODULE MCHsaDispatch ---------------------------
(* Small instances of HsaDispatch for TLC; the cfg files give the constants. *)
EXTENDS HsaDispatch
CONSTANTS h1, h2
=============================================================================
