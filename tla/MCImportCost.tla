---------------------------- MODULE MCImportCost ----------------------------
(***************************************************************************)
(* The cost automations with at most MaxUnits units a band.  Three rates   *)
(* that no sum of a few others equals keep the bands apart.                *)
(***************************************************************************)
EXTENDS ImportCost
=============================================================================
