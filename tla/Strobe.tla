------------------------------- MODULE Strobe -------------------------------
(***************************************************************************)
(* script.strobe_lights (scripts.yaml), mode single, and what calls it:    *)
(* the automations "Alarm - Strobe on Triggered" of the house and of the   *)
(* shed (automations.yaml), mode restart, and callers that want a number   *)
(* of flashes.  They flash the same lights and share one scene in which    *)
(* the script remembers how the lights were.  A call of a service may      *)
(* fail, which ends the run, and Home Assistant may restart.               *)
(***************************************************************************)
EXTENDS Naturals

CONSTANTS
  Area,          \* the alarm areas: house and shed
  Guest,         \* callers that ask for a count of flashes
  None,
  Look,          \* how people and other automations set the lights
  Count          \* how many flashes a guest asks for

Strobed == {"flash", "dark"}  \* how the script sets them

ASSUME StrobeAssumption ==
  /\ Area \cap Guest = {}
  /\ None \notin Area \cup Guest \cup Look \cup Strobed
  /\ Look \cap Strobed = {} /\ Look # {}
  /\ Count \in Nat \ {0}

VARIABLES
  alarm,    \* the areas that are triggered
  caller,   \* per caller: "idle", "calling", or "called" (awaiting the script)
  owner,    \* whose run of the script it is, or None
  step,     \* where that run is
  flashes,  \* flashes that it has left, for a guest
  lights,   \* how the lights are
  scene,    \* scene.strobe_lights_snapshot, or None
  left,     \* history: are the lights as a run left them that broke off?
  spoilt    \* history: does the scene remember such lights?

history == <<left, spoilt>>
vars == <<alarm, caller, owner, step, flashes, lights, scene, history>>

Step == {"idle", "test", "flash", "dark"}

-----------------------------------------------------------------------------
Init ==
  /\ alarm = {}
  /\ caller = [c \in Area \cup Guest |-> "idle"]
  /\ owner = None /\ step = "idle" /\ flashes = 0
  /\ lights \in Look
  /\ scene = None
  /\ left = FALSE /\ spoilt = FALSE

(* A run breaks off: it does not come to its scene.turn_on. *)
BreaksOff ==
  /\ owner' = None /\ step' = "idle" /\ flashes' = 0
  /\ left' = (lights' \in Strobed)

(* Alarmo changes the state of an area.  The automation of the area is     *)
(* restarted: what it awaits is cancelled, the run of the script too.      *)
Triggers(a) ==
  /\ a \notin alarm
  /\ alarm' = alarm \cup {a}
  /\ caller' = [caller EXCEPT ![a] = "calling"]
  /\ UNCHANGED <<lights, scene, spoilt>>
  /\ IF owner = a THEN BreaksOff ELSE UNCHANGED <<owner, step, flashes, left>>

Clears(a) ==
  /\ a \in alarm
  /\ alarm' = alarm \ {a}
  /\ UNCHANGED <<caller, owner, step, flashes, lights, scene, history>>

Wants(g) ==
  /\ caller[g] = "idle"
  /\ caller' = [caller EXCEPT ![g] = "calling"]
  /\ UNCHANGED <<alarm, owner, step, flashes, lights, scene, history>>

SetsLights(look) ==
  /\ lights' = look
  /\ left' = FALSE
  /\ UNCHANGED <<alarm, caller, owner, step, flashes, scene, spoilt>>

(* Home Assistant restarts: no run and no scene made by scene.create       *)
(* outlives it.  An area that is still triggered may or may not be a new   *)
(* trigger for its automation, by how its state comes back.                *)
Restarts ==
  \E again \in SUBSET alarm :
    /\ caller' = [c \in Area \cup Guest |-> IF c \in again THEN "calling" ELSE "idle"]
    /\ scene' = None /\ spoilt' = FALSE
    /\ UNCHANGED <<alarm, lights>>
    /\ IF owner # None THEN BreaksOff ELSE UNCHANGED <<owner, step, flashes, left>>

-----------------------------------------------------------------------------
(* The script *)

Starts(c) ==
  /\ caller[c] = "calling" /\ owner = None
  /\ owner' = c
  /\ caller' = [caller EXCEPT ![c] = "called"]
  /\ scene' = lights
  /\ spoilt' = left /\ left' = FALSE
  /\ flashes' = IF c \in Guest THEN Count ELSE 0
  /\ step' = "test"
  /\ UNCHANGED <<alarm, lights>>

(* scene.create fails. *)
CannotStart(c) ==
  /\ caller[c] = "calling" /\ owner = None
  /\ caller' = [caller EXCEPT ![c] = "idle"]
  /\ UNCHANGED <<alarm, owner, step, flashes, lights, scene, history>>

(* Mode single: a call during a run is not made, and returns at once. *)
Dropped(c) ==
  /\ caller[c] = "calling" /\ owner # None
  /\ caller' = [caller EXCEPT ![c] = "idle"]
  /\ UNCHANGED <<alarm, owner, step, flashes, lights, scene, history>>

(* Mutant: whoever called, the strobe goes on while any area is triggered. *)
GoesOnAny == alarm # {} \/ flashes > 0

(* while_entity is in while_state, or the count is not reached *)
GoesOn == IF owner \in Area THEN owner \in alarm ELSE flashes > 0

(* Mutant: the count goes down for an area too. *)
FlashesCounted ==
  /\ step = "test" /\ GoesOn
  /\ lights' = "flash"
  /\ step' = "flash"
  /\ flashes' = flashes - 1
  /\ UNCHANGED <<alarm, caller, owner, scene, history>>

Flashes ==
  /\ step = "test" /\ GoesOn
  /\ lights' = "flash"
  /\ step' = "flash"
  /\ flashes' = IF owner \in Guest THEN flashes - 1 ELSE flashes
  /\ UNCHANGED <<alarm, caller, owner, scene, history>>

(* The delays are over: the lights go off, and the loop goes round. *)
Darkens ==
  /\ step = "flash"
  /\ lights' = "dark"
  /\ step' = "dark"
  /\ UNCHANGED <<alarm, caller, owner, flashes, scene, history>>

(* Mutant: the loop does not test its condition again. *)
GoesRoundUntested ==
  /\ step = "dark"
  /\ step' = "flash" /\ lights' = "flash"
  /\ UNCHANGED <<alarm, caller, owner, flashes, scene, history>>

GoesRound ==
  /\ step = "dark"
  /\ step' = "test"
  /\ UNCHANGED <<alarm, caller, owner, flashes, lights, scene, history>>

(* Mutant: the scene is not turned on at the end. *)
EndsDark ==
  /\ step = "test" /\ ~GoesOn
  /\ caller' = [caller EXCEPT ![owner] = "idle"]
  /\ owner' = None /\ step' = "idle" /\ flashes' = 0
  /\ UNCHANGED <<alarm, lights, scene, history>>

Ends ==
  /\ step = "test" /\ ~GoesOn
  /\ lights' = scene
  /\ left' = spoilt
  /\ caller' = [caller EXCEPT ![owner] = "idle"]
  /\ owner' = None /\ step' = "idle" /\ flashes' = 0
  /\ UNCHANGED <<alarm, scene, spoilt>>

(* light.turn_on, light.turn_off or scene.turn_on fails, for a light of    *)
(* the group that is away, after it has or has not set the others.         *)
Fails ==
  /\ \/ step = "test" /\ GoesOn /\ lights' \in {lights, "flash"}
     \/ step = "test" /\ ~GoesOn /\ lights' \in {lights, scene}
     \/ step = "flash" /\ lights' \in {lights, "dark"}
  /\ caller' = [caller EXCEPT ![owner] = "idle"]
  /\ UNCHANGED <<alarm, scene, spoilt>>
  /\ BreaksOff

-----------------------------------------------------------------------------
Next ==
  \/ \E a \in Area : Triggers(a) \/ Clears(a)
  \/ \E g \in Guest : Wants(g)
  \/ \E look \in Look : SetsLights(look)
  \/ \E c \in Area \cup Guest : Starts(c) \/ Dropped(c) \/ CannotStart(c)
  \/ Flashes \/ Darkens \/ GoesRound \/ Ends \/ Fails
  \/ Restarts

Spec == Init /\ [][Next]_vars

(* The runs of the script and of its callers go on. *)
Fairness ==
  /\ WF_vars(Flashes) /\ WF_vars(Darkens) /\ WF_vars(GoesRound) /\ WF_vars(Ends)
  /\ \A c \in Area \cup Guest : WF_vars(Starts(c) \/ Dropped(c))

FairSpec == Spec /\ Fairness

-----------------------------------------------------------------------------
TypeOK ==
  /\ alarm \subseteq Area
  /\ caller \in [Area \cup Guest -> {"idle", "calling", "called"}]
  /\ owner \in Area \cup Guest \cup {None}
  /\ step \in Step
  /\ flashes \in 0..Count
  /\ lights \in Look \cup Strobed
  /\ scene \in Look \cup Strobed \cup {None}
  /\ left \in BOOLEAN /\ spoilt \in BOOLEAN

(* The lights are left as someone set them: they flash, or are dark        *)
(* between two flashes, only while a run is going to turn them back, and   *)
(* what it turns them back to is such a look too.  Two kinds of lights are *)
(* left otherwise: those of a run that broke off (its area went off again, *)
(* a call failed, or Home Assistant restarted), until someone sets them,   *)
(* and those of a run that began with such lights and so remembered them.  *)
LeftAsSet ==
  /\ lights \in Strobed => owner # None \/ left
  /\ scene \in Strobed => spoilt

(* A strobe that runs for an area stops when that area is no longer        *)
(* triggered (or, if it goes off again, may go on).                        *)
StopsWhenCleared ==
  \A a \in Area : owner = a ~> owner # a \/ a \in alarm

(* When no area goes off any more and all are cleared, the strobe ends and *)
(* the lights end up, and stay, as people set them, or as the last run     *)
(* that broke off left them.                                               *)
EndsQuiet ==
  <>[](alarm = {} /\ \A c \in Area \cup Guest : caller[c] # "calling")
  => <>[](owner = None /\ (left \/ lights \in Look))
=============================================================================
