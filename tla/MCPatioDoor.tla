---------------------------- MODULE MCPatioDoor ----------------------------
(***************************************************************************)
(* One speaker, two other callers that announce on it and a queue of two,  *)
(* which the others may fill.                                              *)
(***************************************************************************)
EXTENDS PatioDoor

MCTarget    == [c \in Caller |-> "kitchen"]
MCSpeakTime == [b \in Booster |-> 1]
=============================================================================
