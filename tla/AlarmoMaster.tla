---------------------------- MODULE AlarmoMaster ----------------------------
(***************************************************************************)
(* The master of the Alarmo areas (alarm_control_panel.py,                 *)
(* AlarmoMasterEntity): it arms, disarms and triggers all areas and shows  *)
(* one state for them.  Each area keeps AreaContract.                      *)
(*                                                                         *)
(* The master calls areas directly, but hears of them through the          *)
(* dispatcher, whose signals the event loop delivers later, in order:      *)
(* requests, timers and sensors may come before them.                      *)
(***************************************************************************)
EXTENDS AreaEntity, Naturals, SequencesExt

CONSTANTS
  Order,    \* the areas, in the order of their registration
  MaxInbox  \* bound: signals under way when something new happens

Area == ToSet(Order)

ASSUME MasterAssumption ==
  /\ None \notin State \cup Area
  /\ Mode # {} /\ ExitDelay \subseteq Mode
  /\ Mode \cap {"disarmed", "arming", "pending", "triggered"} = {}
  /\ Order \in Seq(Area) /\ Order # << >>
  /\ MaxInbox \in Nat

VARIABLES
  area,     \* per area, its entity
  master,   \* the master's fields: state, mode, revert and target
  inbox,    \* signals of the dispatcher that the master has yet to get
  crashed   \* history: has a call of the master ended in an exception?

vars == <<area, master, inbox, crashed>>

Master  == [ state  : State,
             mode   : Mode \cup {None},                  \* _arm_mode
             revert : Mode \cup {"disarmed", None},      \* _revert_state
             target : Mode \cup {None} ]                 \* _target_state
Signal  == [event : {"state", "failed", "expired"}, area : Area \cup {None}]

Init ==
  /\ area = [a \in Area |-> AtRest]
  /\ master = [state |-> "disarmed", mode |-> None, revert |-> None, target |-> None]
  /\ inbox = << >>
  /\ crashed = FALSE

-----------------------------------------------------------------------------
(* What an area tells: alarmo_state_updated and two of the alarmo_events   *)

Changed(e, f) ==
  IF e.state = f.state THEN << >> ELSE <<[event |-> "state", area |-> None]>>
Failed(ok) == IF ok THEN << >> ELSE <<[event |-> "failed", area |-> None]>>
Expired(a) == <<[event |-> "expired", area |-> a]>>

(* The signals of a call are delivered with nothing in between: one stands *)
(* for those in a row that say the same. *)
Then(s, t) ==
  IF s # << >> /\ t # << >> /\ Last(s) = Head(t) THEN s \o Tail(t) ELSE s \o t

InOrder(tells) ==
  LET told[i \in 0..Len(Order)] ==
        IF i = 0 THEN << >> ELSE Then(told[i - 1], tells[Order[i]])
  IN  told[Len(Order)]

Changes(old, new) == InOrder([a \in Area |-> Changed(old[a], new[a])])

-----------------------------------------------------------------------------
(* The areas, on their own *)

(* Bound: something new happens while at most MaxInbox signals are under   *)
(* way, or none once a call has failed. *)
Quiet == Len(inbox) <= IF crashed THEN 0 ELSE MaxInbox

Steps(a, e, more) ==
  /\ Quiet
  /\ area' = [area EXCEPT ![a] = e]
  /\ inbox' = inbox \o Changed(area[a], e) \o more
  /\ UNCHANGED <<master, crashed>>

AreaArms(a, m, skip, ok) == Steps(a, Requested(area[a], m, skip, ok), Failed(ok))

AreaDisarms(a) == area[a].state # "disarmed" /\ Steps(a, Disarmed(area[a]), << >>)

(* An area whose mode the master has spoilt cannot go on: a KeyError. *)
ArmingEnds(a, ok) ==
  /\ area[a].state = "arming" /\ area[a].mode # None
  /\ Steps(a, ArmNow(area[a], ok), Failed(ok))

AreaTriggers(a, now) ==
  /\ area[a].state # "triggered"
  /\ now \/ area[a].state \in Mode
  /\ Steps(a, Triggered(area[a], now), << >>)

SirenEnds(a, disarm, ok) ==
  /\ area[a].state = "triggered"
  /\ Steps(a, SirenOver(area[a], disarm, ok),
           (IF Rearms(area[a], disarm) THEN Failed(ok) ELSE << >>) \o Expired(a))

-----------------------------------------------------------------------------
(* The master acts on the areas *)

(* Mutant: what is put back need not be known. *)
PutBackAny(areas, state) == [a \in Area |-> UpdateState(areas[a], state)]

PutBack(areas, state) ==
  IF state = None THEN areas ELSE [a \in Area |-> UpdateState(areas[a], state)]

(* Mutant: a pending or triggered area is armed too. *)
TakenAll(m, skip) == {a \in Area : ArmMode(area[a]) # m}

(* The areas that are to be armed. *)
Taken(m, skip) ==
  {a \in Area : \/ area[a].state \in Mode /\ ArmMode(area[a]) # m
                \/ area[a].state = "disarmed"
                \/ area[a].state = "arming" /\ skip}

(* async_arm, where the sensors of the areas in blocked do not allow it;   *)
(* if there are such areas, async_arm_failure puts all areas back.         *)
ArmAll(m, skip, blocked, revert) ==
  LET tried    == [a \in Area |-> IF a \in Taken(m, skip)
                                  THEN Requested(area[a], m, skip, a \notin blocked)
                                  ELSE area[a]]
      tells    == [a \in Area |-> Changed(area[a], tried[a]) \o Failed(a \notin blocked)]
      after    == IF blocked = {} THEN tried ELSE PutBack(tried, revert)
  IN  /\ blocked \subseteq Taken(m, skip)
      /\ area' = after
      /\ inbox' = inbox \o Then(InOrder(tells), Changes(tried, after))
      /\ master' = [master EXCEPT !.revert = IF blocked = {} THEN revert ELSE m,
                                  !.target = IF blocked = {} THEN m ELSE None]

DisarmAll ==
  /\ area' = [a \in Area |-> Disarmed(area[a])]
  /\ inbox' = inbox \o Changes(area, area')

-----------------------------------------------------------------------------
(* Requests to the master and its services *)

(* The state was looked at before the code was checked: by now it may be   *)
(* any. *)
ArmRight(m, skip, blocked) ==
  /\ Quiet
  /\ ArmAll(m, skip, blocked,
            IF master.state \in Mode THEN master.state ELSE "disarmed")
  /\ UNCHANGED crashed

(* The state is looked at after the code; a master that shows "disarmed"   *)
(* does not ask its areas. *)
DisarmRight ==
  /\ Quiet
  /\ master.state # "disarmed"
  /\ DisarmAll
  /\ UNCHANGED <<master, crashed>>

SkipsExit(blocked) ==
  /\ Quiet
  /\ master.state = "arming" /\ master.mode # None
  /\ ArmAll(master.mode, TRUE, blocked, master.revert)
  /\ UNCHANGED crashed

(* The areas arm in different modes, and the master asks the first of them *)
(* for the mode None: an exception, after that area's fields have been set. *)
SkipsExitOfMixed ==
  /\ Quiet
  /\ master.state = "arming" /\ master.mode = None
  /\ \/ Taken(None, TRUE) = {} /\ UNCHANGED <<area, crashed>>
     \/ \E i \in 1..Len(Order) :
          LET a == Order[i] IN
          /\ a \in Taken(None, TRUE)
          /\ \A j \in 1..(i - 1) : Order[j] \notin Taken(None, TRUE)
          /\ area' = [area EXCEPT ![a].mode = None,
                                  ![a].revert = IF area[a].state \in Mode
                                                THEN area[a].state ELSE "disarmed"]
          /\ crashed' = TRUE
  /\ master' = [master EXCEPT !.target = None]
  /\ UNCHANGED inbox

(* async_trigger, from the trigger service or to skip an entry delay *)
TriggersAll ==
  /\ Quiet
  /\ area' = [a \in Area |-> IF area[a].state = master.revert THEN area[a]
                             ELSE Triggered(area[a], TRUE)]
  /\ inbox' = inbox \o Changes(area, area')
  /\ UNCHANGED <<master, crashed>>

-----------------------------------------------------------------------------
(* Signals *)

(* The state that the areas amount to; None when there is no word for it. *)
Combined ==
  LET states == {area[a].state : a \in Area}
  IN  IF "triggered" \in states THEN "triggered"
      ELSE IF "pending" \in states THEN "pending"
      ELSE IF "arming" \in states /\ states \subseteq Mode \cup {"arming"} THEN "arming"
      ELSE IF \E s \in Mode \cup {"disarmed"} : states = {s}
           THEN CHOOSE s \in Mode \cup {"disarmed"} : states = {s}
      ELSE None

CommonMode ==
  IF \E m \in Mode : \A a \in Area : area[a].mode = m
  THEN CHOOSE m \in Mode : \A a \in Area : area[a].mode = m
  ELSE None

Gets(event) ==
  /\ inbox # << >> /\ Head(inbox).event = event
  /\ UNCHANGED crashed

Shows ==
  /\ Gets("state")
  /\ inbox' = Tail(inbox)
  /\ master' = [master EXCEPT !.state  = IF Combined = None THEN @ ELSE Combined,
                              !.mode   = CommonMode,
                              !.target = IF @ = Combined THEN None ELSE @]
  /\ UNCHANGED area

(* Mutant: areas that are put back do not tell. *)
HearsOfFailureUntold ==
  /\ Gets("failed")
  /\ inbox' = Tail(inbox)
  /\ area' = IF master.target = None THEN area ELSE PutBack(area, master.revert)
  /\ master' = IF master.target = None THEN master
               ELSE [master EXCEPT !.revert = master.target, !.target = None]

HearsOfFailure ==
  /\ Gets("failed")
  /\ area' = IF master.target = None THEN area ELSE PutBack(area, master.revert)
  /\ master' = IF master.target = None THEN master
               ELSE [master EXCEPT !.revert = master.target, !.target = None]
  /\ inbox' = Tail(inbox) \o Changes(area, area')

(* An area that its alarm left disarmed takes the others with it. *)
HearsOfExpiry ==
  /\ Gets("expired")
  /\ area' = IF /\ area[Head(inbox).area].state = "disarmed"
                /\ master.state # "disarmed"
             THEN [a \in Area |-> Disarmed(area[a])] ELSE area
  /\ inbox' = Tail(inbox) \o Changes(area, area')
  /\ UNCHANGED master

-----------------------------------------------------------------------------
AreaNext ==
  \E a \in Area :
    \/ \E m \in Mode, skip, ok \in BOOLEAN : AreaArms(a, m, skip, ok)
    \/ AreaDisarms(a)
    \/ \E ok \in BOOLEAN : ArmingEnds(a, ok)
    \/ \E now \in BOOLEAN : AreaTriggers(a, now)
    \/ \E disarm, ok \in BOOLEAN : SirenEnds(a, disarm, ok)

MasterNext ==
  \/ \E blocked \in SUBSET Area :
       \/ \E m \in Mode, skip \in BOOLEAN : ArmRight(m, skip, blocked)
       \/ SkipsExit(blocked)
  \/ DisarmRight
  \/ SkipsExitOfMixed
  \/ TriggersAll

Next == AreaNext \/ MasterNext \/ Shows \/ HearsOfFailure \/ HearsOfExpiry

Spec == Init /\ [][Next]_vars

-----------------------------------------------------------------------------
TypeOK ==
  /\ area \in [Area -> Entity]
  /\ master \in Master
  /\ inbox \in Seq(Signal)
  /\ crashed \in BOOLEAN

(* The master shows what its areas amount to, unless a signal that will    *)
(* make it look is under way, or the areas have no state in common: then   *)
(* it goes on showing the last one they had.                               *)
MasterShowsAreas ==
  \/ Combined \in {None, master.state}
  \/ \E i \in 1..Len(inbox) : inbox[i].event = "state"

(* However the master puts areas back, an area that is armed, or counts    *)
(* down to it or to the alarm, has the mode that its sensors are filtered  *)
(* by: unless the master has asked an area to arm in no mode at all.       *)
AreaModesFit ==
  ~crashed =>
    \A a \in Area : /\ area[a].state \in Mode => area[a].mode = area[a].state
                    /\ area[a].state \in {"arming", "pending"} => area[a].mode \in Mode

(* An alarm is silenced by a request to its area, by the end of the        *)
(* siren's time (its own, or that of another area if that is disarmed when *)
(* the signal is heard), by disarming the master, or because an area could *)
(* not be armed while the master has a target left: that of an arming      *)
(* under way, or of one that was given up.  No other step of the master or *)
(* of another area touches it.                                             *)
AlarmKept ==
  [][ \A a \in Area :
        area[a].state = "triggered" /\ area'[a].state # "triggered"
        => \/ AreaDisarms(a) \/ \E m \in Mode, skip, ok \in BOOLEAN : AreaArms(a, m, skip, ok)
           \/ \E disarm, ok \in BOOLEAN : SirenEnds(a, disarm, ok)
           \/ HearsOfExpiry /\ area[Head(inbox).area].state = "disarmed"
           \/ DisarmRight
           \/ HearsOfFailure /\ master.target # None
           \/ \E blocked \in (SUBSET Area) \ {{}} :
                \/ SkipsExit(blocked)
                \/ \E m \in Mode, skip \in BOOLEAN : ArmRight(m, skip, blocked) ]_vars
=============================================================================
