----------------------------- MODULE MCAnnounce -----------------------------
(***************************************************************************)
(* Two speakers for TLC, the kitchen display and the one in the sitting    *)
(* room; the patio door and the cat alarm announce in the kitchen, the     *)
(* parcel box to the group.  The delays keep the order of their lengths    *)
(* (8, 15, and 20 + 8 seconds).                                            *)
(***************************************************************************)
EXTENDS Announce

MCTarget    == [c \in Caller |-> IF c = "parcel" THEN Group ELSE "kitchen"]
MCSpeakTime == [b \in Booster |-> IF b = "greeting" THEN 2 ELSE 1]
=============================================================================
