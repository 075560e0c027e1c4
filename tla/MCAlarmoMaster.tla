-------------------------- MODULE MCAlarmoMaster --------------------------
(***************************************************************************)
(* The two areas of the house for TLC, and two modes, of which one has an  *)
(* exit delay.                                                             *)
(***************************************************************************)
EXTENDS AlarmoMaster

MCOrder == <<"house", "shed">>
===========================================================================
