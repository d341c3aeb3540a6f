-------------------------- MODULE MCSigningDriver --------------------------
(* The fixtures that the image is built with: 2 of 2, and 3 of 4.           *)
EXTENDS SigningDriver
=============================================================================
