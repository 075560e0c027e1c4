----------------------------- MODULE AreaEntity -----------------------------
(***************************************************************************)
(* An Alarmo area as its callers see it (alarm_control_panel.py,           *)
(* AlarmoAreaEntity): a state, the mode it is about, and the state that a  *)
(* failed arming goes back to.  Sensors and delays are reduced to their    *)
(* outcome: ok, when no sensor blocks an arming; now, when a trigger waits *)
(* for no entry delay.                                                     *)
(***************************************************************************)

CONSTANTS
  Mode,      \* the arm modes that are enabled
  None,      \* Python's None
  ExitDelay  \* the modes with an exit delay

State  == Mode \cup {"disarmed", "arming", "pending", "triggered"}
Entity == [ state  : State,
            mode   : Mode \cup {None},               \* _arm_mode
            revert : Mode \cup {"disarmed", None} ]  \* _revert_state

AtRest == [state |-> "disarmed", mode |-> None, revert |-> None]

ArmMode(e) == IF e.state = "disarmed" THEN None ELSE e.mode

(* Mutant: a state that is set from outside does not bring its mode. *)
UpdateStateKeepsMode(e, new) ==
  IF new = e.state THEN e
  ELSE [ e EXCEPT !.state = new,
                  !.mode = IF e.state = "disarmed" /\ new = "triggered" THEN None ELSE @,
                  !.revert = IF new \in Mode THEN None ELSE @ ]

UpdateState(e, new) ==
  IF new = e.state THEN e
  ELSE [ e EXCEPT !.state  = new,
                  !.mode   = IF new \in Mode THEN new
                             ELSE IF e.state = "disarmed" /\ new = "triggered" THEN None
                             ELSE @,
                  !.revert = IF new \in Mode THEN None ELSE @ ]

ArmFailure(e) ==
  IF e.revert \notin {None, e.state} THEN UpdateState(e, e.revert)
  ELSE IF e.revert \in Mode THEN [e EXCEPT !.mode = e.revert, !.revert = e.mode]
  ELSE e

(* The end of an exit delay, or an arming without one. *)
ArmNow(e, ok) == IF ok THEN UpdateState(e, e.mode) ELSE ArmFailure(e)

Arm(e, m, skip, ok) ==
  LET f == [e EXCEPT !.mode = m]
  IN  IF skip \/ m \notin ExitDelay THEN ArmNow(f, ok)
      ELSE IF ok THEN UpdateState(f, "arming") ELSE ArmFailure(f)

(* A request, or the master, says what to go back to before it arms. *)
Requested(e, m, skip, ok) ==
  Arm([e EXCEPT !.revert = IF e.state \in Mode THEN e.state ELSE "disarmed"],
      m, skip, ok)

Disarmed(e) == UpdateState(e, "disarmed")

Triggered(e, now) ==
  UpdateState(e, IF now \/ ArmMode(e) = None THEN "triggered" ELSE "pending")

(* Outside a mode, or by option, the end of the siren's time disarms. *)
Rearms(e, disarm) == ~disarm /\ ArmMode(e) # None

SirenOver(e, disarm, ok) ==
  IF Rearms(e, disarm) THEN ArmNow([e EXCEPT !.revert = "disarmed"], ok)
  ELSE Disarmed(e)
=============================================================================
