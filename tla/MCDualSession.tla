--------------------------- MODULE MCDualSession ---------------------------
(***************************************************************************)
(* Two signers, the startup control and one input, two misbehaviours of    *)
(* the library.                                                            *)
(***************************************************************************)
EXTENDS DualSession
=============================================================================
