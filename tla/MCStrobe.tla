------------------------------ MODULE MCStrobe ------------------------------
(***************************************************************************)
(* House and shed, and one caller that asks for two flashes.               *)
(***************************************************************************)
EXTENDS Strobe

=============================================================================
