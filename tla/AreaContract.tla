---------------------------- MODULE AreaContract ----------------------------
(***************************************************************************)
(* What an area promises those who call it while Home Assistant is up: the *)
(* steps its state, mode and _revert_state may take, whatever its sensors  *)
(* and delays are.  AlarmoArea implements it; AlarmoMaster composes areas  *)
(* that keep it.                                                           *)
(***************************************************************************)
EXTENDS AreaEntity

VARIABLE entity

Init == entity = AtRest

(* A request was checked on an earlier state and may land in any. *)
IsRequested(m, skip, ok) == entity' = Requested(entity, m, skip, ok)
IsDisarmed == entity' = Disarmed(entity)

(* The exit delay ends, or a sensor that it does not cover opens. *)
ArmingEnds(ok) == entity.state = "arming" /\ entity' = ArmNow(entity, ok)

IsTriggered(now) ==
  /\ now \/ entity.state \in Mode \cup {"pending"}
  /\ entity' = Triggered(entity, now)

SirenEnds(disarm, ok) ==
  entity.state = "triggered" /\ entity' = SirenOver(entity, disarm, ok)

Next ==
  \E ok, option \in BOOLEAN :
    \/ \E m \in Mode : IsRequested(m, option, ok)
    \/ IsDisarmed
    \/ ArmingEnds(ok)
    \/ IsTriggered(option)
    \/ SirenEnds(option, ok)

Spec == Init /\ [][Next]_entity
=============================================================================
