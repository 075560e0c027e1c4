----------------------------- MODULE AlarmoArea -----------------------------
(***************************************************************************)
(* One alarm area of the Alarmo integration: the entity that holds the     *)
(* alarm state (alarm_control_panel.py, AlarmoAreaEntity) and the part of  *)
(* the sensor handler (sensors.py, SensorHandler) that serves it.          *)
(*                                                                         *)
(* Home Assistant runs both on one event loop, so a callback is one step.  *)
(* What interleaves is: the checking of a code, which a request awaits     *)
(* with the loop running; the timers; the sensors' state changes; the      *)
(* services; the renewals of the list of watched sensors, which run in     *)
(* threads beside the loop; and the stop and start of Home Assistant.      *)
(*                                                                         *)
(* The entity's fields are the record area; an operation of the entity is  *)
(* an operator from one such record to the next, as the methods call one   *)
(* another, and an action is an event that the loop delivers.              *)
(***************************************************************************)
EXTENDS Naturals, FiniteSets

CONSTANTS
  Mode,               \* the arm modes that are enabled
  Sensor,             \* the area's enabled sensors
  None,               \* Python's None
  ExitTime,           \* per mode, the configured delays (0: not configured)
  EntryTime,
  TriggerTime,
  SensorModes,        \* per sensor, the modes it is active in
  AlwaysOn,           \* the sensors that have each option set
  UseExitDelay,
  UseEntryDelay,
  AllowOpen,
  ArmOnClose,
  TriggerUnavailable,
  Motion,
  AutoBypassModes,    \* per sensor, the modes it may be bypassed in
  DelayOn,            \* per sensor, how long it must stay open (0: no wait)
  EntryDelay,         \* per sensor, its own entry delay, or None
  SensorArmTime,      \* const.SENSOR_ARM_TIME
  LongestTriggerTime, \* how long the siren sounds outside a mode
  Readings,           \* per sensor, the readings it can give
  DisarmAfterTrigger, \* the integration's options
  IgnoreBlocking,
  CodeRequired,
  MayRestart,         \* can Home Assistant stop and start?
  SignalsElsewhere,   \* do other areas or the master signal changes of state?
  MaxRequests,        \* bound: requests whose code is being checked
  MaxRenewals         \* bound: renewals of the listener at a time

Countdown == {"arming", "pending"}
State     == Mode \cup Countdown \cup {"disarmed", "triggered"}
TimerKind == {"none", "leave", "entry", "trigger"}
Reading   == {"open", "closed", "unavailable", "unknown"}

ASSUME ModeAssumption ==
  /\ IsFiniteSet(Mode) /\ Mode # {}
  /\ None \notin Mode \cup Reading \cup Nat
               \cup {"disarmed", "triggered", "arming", "pending"}
  /\ Mode \cap {"disarmed", "triggered", "arming", "pending"} = {}

(* Outside a mode the siren sounds as long as in the mode with the longest *)
(* time, and for ever (0) when some mode has no time.                      *)
LongestOf(times) ==
  IF 0 \in times THEN 0 ELSE CHOOSE t \in times : \A u \in times : u <= t

ASSUME ConfigAssumption ==
  /\ ExitTime \in [Mode -> Nat]
  /\ EntryTime \in [Mode -> Nat]
  /\ TriggerTime \in [Mode -> Nat]
  /\ SensorModes \in [Sensor -> SUBSET Mode]
  /\ AutoBypassModes \in [Sensor -> SUBSET Mode]
  /\ DelayOn \in [Sensor -> Nat]
  /\ EntryDelay \in [Sensor -> Nat \cup {None}]
  /\ SensorArmTime \in Nat
  /\ LongestTriggerTime \in Nat
  /\ LongestTriggerTime = LongestOf({TriggerTime[m] : m \in Mode})
  /\ Readings \in [Sensor -> SUBSET Reading]
  /\ \A s \in Sensor : "closed" \in Readings[s]
  /\ UNION {AlwaysOn, UseExitDelay, UseEntryDelay, AllowOpen, ArmOnClose,
            TriggerUnavailable, Motion} \subseteq Sensor
  /\ {DisarmAfterTrigger, IgnoreBlocking, CodeRequired, MayRestart,
      SignalsElsewhere} \subseteq BOOLEAN

VARIABLES
  phase,       \* Home Assistant: "down", "starting" or "running"
  area,        \* the entity's fields
  requests,    \* requests accepted, their code still being checked
  reading,     \* what each sensor reports
  mem,         \* _unavailable_state_mem: reading before "unavailable"
  delayOn,     \* _delay_on_timers: time left, or None
  armOn,       \* _arm_timers: time left, or None
  evaluating,  \* sensors that the evaluation on startup has yet to look at
  watch        \* the listener to the sensors, and its renewals

sensorVars == <<mem, delayOn, armOn, evaluating>>
vars == <<phase, area, requests, reading, mem, delayOn, armOn, evaluating, watch>>

-----------------------------------------------------------------------------
(* The entity *)

Area == [ state      : State,
          mode       : Mode \cup {None},                 \* _arm_mode
          revert     : Mode \cup {"disarmed", None},     \* _revert_state
          timer      : TimerKind,
          left       : Nat,                              \* time left on it
          bypassed   : SUBSET Sensor,
          bypassOpen : BOOLEAN ]

Request == [mode : Mode \cup {"disarmed"}, skip : BOOLEAN, force : BOOLEAN]

ArmMode(a) == IF a.state = "disarmed" THEN None ELSE a.mode

SetTimer(a, kind, delay) == [a EXCEPT !.timer = kind, !.left = delay]
ClearTimer(a)            == SetTimer(a, "none", 0)

(* Mutant: disarming leaves the timer running. *)
UpdateStateKeepsTimer(a, new) ==
  IF new = a.state THEN a
  ELSE [ IF new \in Mode THEN ClearTimer(a) ELSE a EXCEPT
           !.state  = new,
           !.mode   = IF new \in Mode THEN new
                      ELSE IF a.state = "disarmed" /\ new = "triggered"
                           THEN None ELSE @,
           !.revert = IF new \in Mode THEN None ELSE @ ]

UpdateState(a, new) ==
  IF new = a.state THEN a
  ELSE [ IF new \in Mode \cup {"disarmed"} THEN ClearTimer(a) ELSE a EXCEPT
           !.state  = new,
           !.mode   = IF new \in Mode THEN new
                      ELSE IF a.state = "disarmed" /\ new = "triggered"
                           THEN None ELSE @,
           !.revert = IF new \in Mode THEN None ELSE @ ]

(* Mutant: a failed switch forgets to put the old mode back. *)
ArmFailureKeepsMode(a) ==
  IF a.revert \notin {None, a.state} THEN UpdateState(a, a.revert) ELSE a

ArmFailure(a) ==
  IF a.revert \notin {None, a.state} THEN UpdateState(a, a.revert)
  ELSE IF a.revert \in Mode THEN [a EXCEPT !.mode = a.revert, !.revert = a.mode]
  ELSE a

(* Is this reading of the sensor acceptable in this alarm state? *)
Violation(s, rd) ==
  rd = "open" \/ (rd = "unavailable" /\ s \in TriggerUnavailable)

Allowed(s, rd, st) ==
  \/ ~Violation(s, rd)
  \/ st = "triggered"
  \/ /\ s \notin AlwaysOn
     /\ st \in {"arming", "disarmed"}
     /\ st = "arming" => s \in UseExitDelay

Active(a, target) ==
  {s \in Sensor \ a.bypassed : target \in SensorModes[s] \/ s \in AlwaysOn}

(* validate_arming_event; before the start its sensor configuration is {} *)
Violating(a, target, st) ==
  IF phase = "running"
  THEN {s \in Active(a, target) : ~Allowed(s, reading[s], st)}
  ELSE {}

Bypass(a, target, st) ==
  {s \in Violating(a, target, st) : a.bypassOpen \/ target \in AutoBypassModes[s]}

Blocking(a, target, st) ==
  {s \in Violating(a, target, st) \ Bypass(a, target, st) :
      ~(s \in AllowOpen /\ reading[s] = "open")}

(* Mutant: the end of the exit delay allows what the exit delay allowed. *)
ArmNowAsArming(a, skipValidation) ==
  LET bypass == Bypass(a, a.mode, "arming")
  IN  IF Blocking(a, a.mode, "arming") # {} /\ ~skipValidation
      THEN ArmFailure(a)
      ELSE UpdateState([a EXCEPT !.bypassed = IF bypass = {} THEN @ ELSE bypass],
                       a.mode)

ArmNow(a, skipValidation) ==
  LET bypass == Bypass(a, a.mode, a.mode)
  IN  IF Blocking(a, a.mode, a.mode) # {} /\ ~skipValidation
      THEN ArmFailure(a)
      ELSE UpdateState([a EXCEPT !.bypassed = IF bypass = {} THEN @ ELSE bypass],
                       a.mode)

ArmDelayed(a) ==
  IF Blocking(a, a.mode, "arming") # {}
  THEN ArmFailure(a)
  ELSE UpdateState(SetTimer(a, "leave", ExitTime[a.mode]), "arming")

Arm(a, m, skipDelay, force) ==
  LET b == [a EXCEPT !.mode = m, !.bypassOpen = force]
  IN  IF skipDelay \/ ExitTime[m] = 0 THEN ArmNow(b, FALSE) ELSE ArmDelayed(b)

(* async_arm(self.arm_mode, skip_delay=True), which keeps _bypass_open_sensors *)
FinishArming(a) == ArmNow(a, FALSE)

(* how long the siren sounds; 0 is for ever *)
SirenTime(a) ==
  IF ArmMode(a) = None THEN LongestTriggerTime ELSE TriggerTime[ArmMode(a)]

Sound(a) ==
  UpdateState(IF SirenTime(a) = 0 THEN ClearTimer(a)
              ELSE SetTimer(a, "trigger", SirenTime(a)), "triggered")

(* Mutant: the default entry time is not looked up. *)
EffectiveDelayUnresolved(a, delay) == IF ArmMode(a) = None THEN 0 ELSE delay

(* async_trigger; the delay None asks for the mode's own entry time *)
EffectiveDelay(a, delay) ==
  IF ArmMode(a) = None THEN 0
  ELSE IF delay = None THEN EntryTime[ArmMode(a)] ELSE delay

(* Mutant: a sensor that opens during the entry delay starts it again. *)
TriggerStartsAgain(a, delay) ==
  LET d == EffectiveDelay(a, delay)
  IN  IF d = 0 THEN Sound(a)
      ELSE UpdateState(SetTimer(a, "entry", d), "pending")

Trigger(a, delay) ==
  LET d == EffectiveDelay(a, delay)
  IN  IF d = 0 THEN Sound(a)
      ELSE IF a.state = "pending" /\ d >= a.left THEN a
      ELSE UpdateState(SetTimer(a, "entry", d), "pending")

TriggerExpired(a) ==
  LET b == ClearTimer(a)
  IN  IF DisarmAfterTrigger \/ ArmMode(a) = None
      THEN UpdateState([b EXCEPT !.bypassed = {}], "disarmed")
      ELSE IF IgnoreBlocking THEN ArmNow(b, TRUE)
      ELSE ArmNow([b EXCEPT !.revert = "disarmed", !.bypassOpen = FALSE], FALSE)

(* Mutant: a sensor triggers whatever the state. *)
SensorTriggerAnyState(a, s) ==
  IF s \notin AlwaysOn /\ a.state = "arming" THEN ArmFailure(a)
  ELSE Trigger(a, IF s \in UseEntryDelay /\ s \notin AlwaysOn THEN EntryDelay[s] ELSE 0)

(* _execute_sensor_trigger, for a sensor that is in no group *)
SensorTrigger(a, s) ==
  LET delay == IF s \in UseEntryDelay THEN EntryDelay[s] ELSE 0
  IN  CASE s \in AlwaysOn -> Trigger(a, 0)
        [] s \notin AlwaysOn /\ a.state = "arming" -> ArmFailure(a)
        [] s \notin AlwaysOn /\ a.state \in Mode \cup {"pending"} ->
             Trigger(a, delay)
        [] OTHER -> a

-----------------------------------------------------------------------------
(* The watched sensors *)

Watch == [ list   : SUBSET Sensor,           \* the listener's sensors
           due    : BOOLEAN,                 \* a signal has yet to be heard
           jobs   : SUBSET (SUBSET Sensor),  \* lists made, not yet listened to
           astray : BOOLEAN ]                \* history: nothing will correct list

Listening(l) == [list |-> l, due |-> FALSE, jobs |-> {}, astray |-> FALSE]

(* Motion sensors are watched only in the modes that use them. *)
ToWatch(a) ==
  {s \in Sensor \ a.bypassed : s \in Motion => s \in AlwaysOn \/ ArmMode(a) \in SensorModes[s]}

(* Mutant: a change of state sends no signal. *)
TellsNobody ==
  watch' = [watch EXCEPT
              !.astray = @ \/ ( /\ phase = "running"
                               /\ area'.state = area.state
                               /\ ToWatch(area') # ToWatch(area) )]

(* A change of state sends a signal, which is heard later; a change of the *)
(* mode or of the bypassed sensors alone sends none.                       *)
Tells ==
  watch' = [watch EXCEPT
              !.due    = @ \/ (phase = "running" /\ area'.state # area.state),
              !.astray = @ \/ ( /\ phase = "running"
                               /\ area'.state = area.state
                               /\ ToWatch(area') # ToWatch(area) )]

(* async_watch_sensor_states, in a thread: the list is made and the old    *)
(* listener given up; then the new one is set.  The signals of other areas *)
(* and of the master start it as well, and it may run while another does.  *)
Lists ==
  /\ phase = "running"
  /\ watch.due \/ SignalsElsewhere
  /\ Cardinality(watch.jobs) < MaxRenewals
  /\ watch' = [list |-> {}, due |-> FALSE, jobs |-> watch.jobs \cup {ToWatch(area)},
               astray |-> watch.jobs # {}]
  /\ UNCHANGED <<phase, area, requests, reading, sensorVars>>

Listens(l) ==
  /\ l \in watch.jobs
  /\ watch' = [watch EXCEPT !.list = l, !.jobs = @ \ {l}]
  /\ UNCHANGED <<phase, area, requests, reading, sensorVars>>

-----------------------------------------------------------------------------
Init ==
  /\ phase = "running"
  /\ area = [state |-> "disarmed", mode |-> None, revert |-> None,
             timer |-> "none", left |-> 0, bypassed |-> {}, bypassOpen |-> FALSE]
  /\ requests = {}
  /\ reading = [s \in Sensor |-> "closed"]
  /\ mem = [s \in Sensor |-> None]
  /\ delayOn = [s \in Sensor |-> None]
  /\ armOn = [s \in Sensor |-> None]
  /\ evaluating = {}
  /\ watch = Listening(ToWatch(area))

(* The entity answers; the loop is not inside the evaluation on startup. *)
Up == phase # "down" /\ evaluating = {}

-----------------------------------------------------------------------------
(* Requests and services *)

Accepts(m) ==
  IF m = "disarmed" THEN area.state # "disarmed"
  ELSE /\ area.state \in Mode \cup {"disarmed"}
       /\ ~(area.state \in Mode /\ area.mode = m)

(* What a request does once its code has been found right (or not needed). *)
Perform(r) ==
  LET fresh  == [area EXCEPT !.revert = "disarmed", !.bypassed = {}]
      switch == [area EXCEPT !.revert = area.state]
  IN  area' = IF r.mode = "disarmed"
              THEN UpdateState([area EXCEPT !.bypassed = {}], "disarmed")
              ELSE Arm(IF area.state \in Mode THEN switch ELSE fresh,
                       r.mode, r.skip, r.force)

RequestNoCode(r) ==
  /\ Up /\ ~CodeRequired
  /\ Accepts(r.mode)
  /\ Perform(r)
  /\ Tells
  /\ UNCHANGED <<phase, requests, reading, sensorVars>>

RequestWithCode(r) ==
  /\ Up /\ CodeRequired
  /\ Accepts(r.mode)
  /\ Cardinality(requests) < MaxRequests
  /\ requests' = requests \cup {r}
  /\ UNCHANGED <<phase, area, reading, sensorVars, watch>>

CodeRight(r) ==
  /\ Up
  /\ r \in requests
  /\ requests' = requests \ {r}
  /\ Perform(r)
  /\ Tells
  /\ UNCHANGED <<phase, reading, sensorVars>>

CodeWrong(r) ==
  /\ Up
  /\ r \in requests
  /\ requests' = requests \ {r}
  /\ UNCHANGED <<phase, area, reading, sensorVars, watch>>

SkipDelay ==
  /\ Up
  /\ area.state \in Countdown
  /\ area' = IF area.state = "arming" THEN FinishArming(area) ELSE Trigger(area, 0)
  /\ Tells
  /\ UNCHANGED <<phase, requests, reading, sensorVars>>

TriggerService ==
  /\ Up
  /\ area' = Trigger(area, 0)
  /\ Tells
  /\ UNCHANGED <<phase, requests, reading, sensorVars>>

-----------------------------------------------------------------------------
(* The entity's timer *)

Due(kind) == Up /\ area.timer = kind /\ area.left = 0

LeaveTimerFinished ==
  /\ Due("leave")
  /\ area' = FinishArming(ClearTimer(area))
  /\ Tells
  /\ UNCHANGED <<phase, requests, reading, sensorVars>>

EntryTimerFinished ==
  /\ Due("entry")
  /\ area' = Trigger(ClearTimer(area), 0)
  /\ Tells
  /\ UNCHANGED <<phase, requests, reading, sensorVars>>

TriggerTimerFinished ==
  /\ Due("trigger")
  /\ area' = TriggerExpired(area)
  /\ Tells
  /\ UNCHANGED <<phase, requests, reading, sensorVars>>

-----------------------------------------------------------------------------
(* Sensors *)

OutOfMode(s) ==
  ArmMode(area) # None /\ ArmMode(area) \notin SensorModes[s] /\ s \notin AlwaysOn

Initial(s, old, new) ==
  old = "unknown" /\ (new = "closed" \/ (new = "open" /\ s \in AllowOpen))

Remembered(s, new) == new = "unavailable" /\ s \notin TriggerUnavailable

Reverted(s, old, new) ==
  ~Remembered(s, new) /\ old = "unavailable" /\ mem[s] = new

(* async_sensor_state_changed *)
Handle(s, old, new) ==
  LET stopped == IF new = "closed" THEN [delayOn EXCEPT ![s] = None] ELSE delayOn
      ignore  == Reverted(s, old, new) \/ OutOfMode(s)
      allowed == Allowed(s, new, area.state)
  IN  /\ mem' = [mem EXCEPT ![s] = IF Remembered(s, new) THEN old ELSE None]
      /\ armOn' = IF ~ignore /\ s \in ArmOnClose /\ area.state = "arming"
                  THEN [armOn EXCEPT ![s] = IF new = "closed" THEN SensorArmTime
                                            ELSE None]
                  ELSE armOn
      /\ \/ /\ ignore \/ allowed
            /\ delayOn' = stopped
            /\ UNCHANGED area
         \/ /\ ~ignore /\ ~allowed /\ DelayOn[s] > 0
            /\ delayOn' = [stopped EXCEPT ![s] = DelayOn[s]]
            /\ UNCHANGED area
         \/ /\ ~ignore /\ ~allowed /\ DelayOn[s] = 0
            /\ delayOn' = stopped
            /\ area' = SensorTrigger(area, s)

SensorChanges(s, new) ==
  /\ evaluating = {}
  /\ new # reading[s]
  /\ reading' = [reading EXCEPT ![s] = new]
  /\ IF s \in watch.list /\ ~Initial(s, reading[s], new)
     THEN Handle(s, reading[s], new)
     ELSE UNCHANGED <<area, mem, delayOn, armOn>>
  /\ Tells
  /\ UNCHANGED <<phase, requests, evaluating>>

DelayOnFinished(s) ==
  /\ Up
  /\ delayOn[s] = 0
  /\ delayOn' = [delayOn EXCEPT ![s] = None]
  /\ area' = IF Violation(s, reading[s]) THEN SensorTrigger(area, s) ELSE area
  /\ Tells
  /\ UNCHANGED <<phase, requests, reading, mem, armOn, evaluating>>

(* Mutant: the arm timer does not ask whether the area is still arming. *)
ArmTimerFinishedAlways(s) ==
  /\ Up
  /\ armOn[s] = 0
  /\ armOn' = [armOn EXCEPT ![s] = None]
  /\ area' = IF area.mode # None THEN FinishArming(area) ELSE area
  /\ Tells
  /\ UNCHANGED <<phase, requests, reading, mem, delayOn, evaluating>>

ArmTimerFinished(s) ==
  /\ Up
  /\ armOn[s] = 0
  /\ armOn' = [armOn EXCEPT ![s] = None]
  /\ area' = IF area.state = "arming" THEN FinishArming(area) ELSE area
  /\ Tells
  /\ UNCHANGED <<phase, requests, reading, mem, delayOn, evaluating>>

-----------------------------------------------------------------------------
(* Stop and start of Home Assistant.  The state and some attributes are    *)
(* saved on the stop; timers, requests and the sensor handler are not.     *)

Stop ==
  /\ MayRestart /\ Up
  /\ phase' = "down"
  /\ requests' = {}
  /\ mem' = [s \in Sensor |-> None]
  /\ delayOn' = [s \in Sensor |-> None]
  /\ armOn' = [s \in Sensor |-> None]
  /\ watch' = Listening({})
  /\ UNCHANGED <<area, reading, evaluating>>

Saved == [state |-> None, mode |-> ArmMode(area), revert |-> None,
          timer |-> "none", left |-> 0,
          bypassed |-> area.bypassed, bypassOpen |-> FALSE]

Restore ==
  /\ phase = "down"
  /\ phase' = "starting"
  /\ area' = CASE area.state = "arming"    -> Arm(Saved, ArmMode(area), FALSE, FALSE)
               [] area.state = "pending"   -> Trigger(Saved, None)
               [] area.state = "triggered" -> Trigger(Saved, 0)
               [] OTHER                    -> UpdateState(Saved, area.state)
  /\ UNCHANGED <<requests, reading, sensorVars, watch>>

Started ==
  /\ phase = "starting"
  /\ phase' = "running"
  /\ evaluating' = IF area.state \notin Mode THEN {}
                   ELSE {s \in Active(area, area.state) :
                           /\ reading[s] # "unknown"
                           /\ ~(reading[s] = "open" /\ s \in AllowOpen)}
  /\ watch' = Listening(ToWatch(area))
  /\ UNCHANGED <<area, requests, reading, mem, delayOn, armOn>>

Evaluate(s) ==
  /\ s \in evaluating
  /\ evaluating' = evaluating \ {s}
  /\ IF Allowed(s, reading[s], area.state)
     THEN UNCHANGED <<area, mem, delayOn, armOn>>
     ELSE Handle(s, "closed", reading[s])
  /\ Tells
  /\ UNCHANGED <<phase, requests, reading>>

-----------------------------------------------------------------------------
(* Time passes only when no timer is due: due timers fire first.           *)

Minus1(t) == IF t = None THEN None ELSE t - 1

Running == \/ area.timer # "none"
           \/ \E s \in Sensor : delayOn[s] # None \/ armOn[s] # None

SomethingDue == \/ area.timer # "none" /\ area.left = 0
                \/ \E s \in Sensor : 0 \in {delayOn[s], armOn[s]}

Tick ==
  /\ Up
  /\ Running /\ ~SomethingDue
  /\ area' = IF area.timer = "none" THEN area ELSE [area EXCEPT !.left = @ - 1]
  /\ delayOn' = [s \in Sensor |-> Minus1(delayOn[s])]
  /\ armOn' = [s \in Sensor |-> Minus1(armOn[s])]
  /\ UNCHANGED <<phase, requests, reading, mem, evaluating, watch>>

-----------------------------------------------------------------------------
Next ==
  \/ \E r \in Request : \/ RequestNoCode(r) \/ RequestWithCode(r)
                        \/ CodeRight(r) \/ CodeWrong(r)
  \/ SkipDelay \/ TriggerService
  \/ LeaveTimerFinished \/ EntryTimerFinished \/ TriggerTimerFinished
  \/ \E s \in Sensor : \/ \E new \in Readings[s] : SensorChanges(s, new)
                       \/ DelayOnFinished(s) \/ ArmTimerFinished(s)
                       \/ Evaluate(s)
  \/ Lists \/ \E l \in SUBSET Sensor : Listens(l)
  \/ Stop \/ Restore \/ Started
  \/ Tick

Spec == Init /\ [][Next]_vars

(* The loop runs every timer that is due, and time goes on.  Nobody has to *)
(* send a request, open a door or start Home Assistant.                    *)
Fairness ==
  /\ WF_vars(Tick)
  /\ WF_vars(LeaveTimerFinished)
  /\ WF_vars(EntryTimerFinished)
  /\ WF_vars(TriggerTimerFinished)
  /\ \A s \in Sensor : WF_vars(DelayOnFinished(s)) /\ WF_vars(ArmTimerFinished(s))

FairSpec == Spec /\ Fairness

-----------------------------------------------------------------------------
TypeOK ==
  /\ phase \in {"down", "starting", "running"}
  /\ area \in Area
  /\ requests \subseteq Request
  /\ reading \in [Sensor -> Reading]
  /\ mem \in [Sensor -> Reading \cup {None}]
  /\ delayOn \in [Sensor -> Nat \cup {None}]
  /\ armOn \in [Sensor -> Nat \cup {None}]
  /\ evaluating \subseteq Sensor
  /\ watch \in Watch

TimerFits(a) ==
  /\ a.timer = "entry" <=> a.state = "pending"
  /\ a.timer = "trigger" => a.state = "triggered"
  /\ a.state = "triggered" /\ SirenTime(a) > 0 => a.timer = "trigger"
  /\ a.timer = "leave" => a.state = "arming"
  /\ a.state = "arming" /\ a.revert # None => a.timer = "leave"

ModeFits(a) ==
  /\ a.state \in Mode => a.mode = a.state
  /\ a.state \in Countdown => a.mode \in Mode

(* The one timer the entity has is the timer of the state it is in: an     *)
(* entry countdown always has its timer, a siren that is to stop has its   *)
(* own, the exit timer runs in "arming" only, and nothing is running once  *)
(* the area is armed or disarmed.  The one gap: an arming without a        *)
(* _revert_state (restored after a restart) may have lost its timer.       *)
TimerFitsState == TimerFits(area)

(* The mode that is armed, or that a countdown is about, is the mode the   *)
(* sensors are filtered by (_arm_mode), also after a switch that failed    *)
(* and put the old mode back.                                              *)
ModeFitsState == ModeFits(area)

(* Once the entry countdown runs, no sensor and no service moves the       *)
(* moment of the alarm further away.                                       *)
EntryNeverExtended ==
  [][ area.state = "pending" /\ area'.state = "pending" /\ phase' = phase
      => area'.left <= area.left ]_vars

(* A disarmed area is set off by an always-on sensor that is violated or   *)
(* by the trigger service, whatever timers were left running by a previous *)
(* arming.                                                                 *)
DisarmedStaysQuiet ==
  [][ area.state = "disarmed" /\ area'.state \in {"pending", "triggered"}
      => TriggerService \/ \E s \in AlwaysOn : Violation(s, reading'[s]) ]_vars

(* An alarm that has gone off arms again by itself only at the end of the  *)
(* siren's time, and only in the mode in which it went off; a countdown to *)
(* the alarm does not arm at all.  (A request accepted before it went off  *)
(* may still land: those are the steps that take one from requests.)       *)
ReturnsToItsMode ==
  [][ /\ area.state \in {"pending", "triggered"}
      /\ area'.state \in Mode \cup {"arming"}
      /\ requests' = requests
      => /\ area.state = "triggered"
         /\ area'.state = area.mode
         /\ area.timer = "trigger" /\ area.left = 0 ]_vars

(* An armed area in which an active sensor is open, with nothing done or   *)
(* about to be done about it. *)
Silent(s) ==
  /\ phase = "running" /\ evaluating = {}
  /\ area.state \in Mode
  /\ s \in Active(area, area.state) \ AllowOpen
  /\ reading[s] = "open" /\ delayOn[s] = None

(* An opening that the listener does not hear: the list is to be renewed   *)
(* or just being renewed, or it went astray, when the mode or the bypassed *)
(* sensors changed without a signal or when two renewals crossed.          *)
Unheard(s) ==
  /\ reading'[s] # reading[s]
  /\ s \notin watch.list
  /\ watch.due \/ watch.jobs # {} \/ watch.astray

(* The area comes to be armed over an open sensor in five ways only: the   *)
(* handler remembers the sensor as open from before it was unavailable,    *)
(* and ignores it when it comes back open; a switch of modes is abandoned  *)
(* and the old mode put back unchecked; a switch bypasses other sensors    *)
(* and so drops this one from the bypassed; the option to ignore blocking  *)
(* sensors after a trigger is set; or the opening is unheard, the list of  *)
(* watched sensors being out of date.                                      *)
NoSilentOpening ==
  [][ \A s \in Sensor :
        ~Silent(s) /\ Silent(s)'
        => \/ reading[s] = "unavailable" /\ mem[s] = "open"
           \/ area.state = "arming" /\ area'.state = area.revert
           \/ s \in area.bypassed \ area'.bypassed /\ area'.bypassed # {}
           \/ area.state = "triggered" /\ IgnoreBlocking
           \/ Unheard(s) ]_vars

(* To its callers the area does no more than AreaContract says.  A start   *)
(* of Home Assistant is outside the contract. *)
entity   == [state |-> area.state, mode |-> area.mode, revert |-> area.revert]
Contract == INSTANCE AreaContract WITH ExitDelay <- {m \in Mode : ExitTime[m] > 0}
KeepsContract == Contract!Spec

(* A countdown ends: the exit delay in an armed or a disarmed area, the    *)
(* entry delay in the alarm or in someone having disarmed it.              *)
CountdownsEnd ==
  /\ area.state = "arming" ~> area.state # "arming"
  /\ area.state = "pending" ~> area.state # "pending"
=============================================================================
