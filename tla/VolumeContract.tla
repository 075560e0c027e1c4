--------------------------- MODULE VolumeContract ---------------------------
(***************************************************************************)
(* What the announcements of the script do to the volumes that people      *)
(* choose.  The level of a speaker is its volume, or during an             *)
(* announcement on it the volume that it is going to have afterwards.      *)
(***************************************************************************)
EXTENDS Naturals

CONSTANTS
  Speaker,
  UserLevel,   \* the levels that people choose
  GroupVolume, \* the usual volume
  Full         \* that of an announcement

VARIABLES
  level,
  asked,       \* per speaker, the volume a person last chose
  speaking,    \* the speakers of the announcement under way
  loud         \* the speakers at full volume that nothing is going to turn down

contractVars == <<level, asked, speaking, loud>>

AtFull(speakers) == {s \in speakers : level[s] = Full}

Init ==
  /\ level \in [Speaker -> UserLevel]
  /\ asked = level
  /\ speaking = {}
  /\ loud = AtFull(Speaker)

(* A choice made during an announcement on that speaker comes to nothing: *)
(* the end of the announcement overwrites it.                              *)
PersonSets(s, v) ==
  /\ asked' = [asked EXCEPT ![s] = v]
  /\ level' = IF s \in speaking THEN level ELSE [level EXCEPT ![s] = v]
  /\ loud' = IF v = Full THEN loud \cup {s} ELSE loud \ {s}
  /\ UNCHANGED speaking

(* One announcement at a time.  It keeps the level of a speaker, or makes  *)
(* it the usual one.                                                       *)
Begins(on, usual) ==
  /\ speaking = {} /\ usual \subseteq on
  /\ speaking' = on
  /\ level' = [s \in Speaker |-> IF s \in usual THEN GroupVolume ELSE level[s]]
  /\ loud' = loud \ on
  /\ UNCHANGED asked

(* All it turned up it turns back. *)
Ends ==
  /\ speaking' = {}
  /\ loud' = (loud \ speaking) \cup AtFull(speaking)
  /\ UNCHANGED <<level, asked>>

(* An announcement that breaks off leaves its speakers at full volume, but *)
(* for those that people have turned down since.                           *)
BreaksOff(still) ==
  /\ speaking' = {}
  /\ loud' = loud \cup still
  /\ level' = [s \in Speaker |-> IF s \notin speaking THEN level[s]
                                ELSE IF s \in still THEN Full ELSE asked[s]]
  /\ UNCHANGED asked

Next == \/ \E s \in Speaker, v \in UserLevel : PersonSets(s, v)
        \/ \E on \in SUBSET Speaker : \E usual \in SUBSET on : Begins(on, usual)
        \/ Ends
        \/ \E still \in SUBSET speaking : BreaksOff(still)

Spec == Init /\ [][Next]_contractVars
=============================================================================
