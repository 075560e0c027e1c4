-------------------------- MODULE AlarmoAreaProofs --------------------------
(***************************************************************************)
(* Proofs about an area, for any modes, sensors and delays.                *)
(*                                                                         *)
(* Fits is what every step keeps of the entity's record; the lemmas say,   *)
(* operation by operation, from what an operation restores it.  Boot is    *)
(* the record while the entity is being restored and has no state yet.     *)
(* At the end, that what callers see of the area is what AreaContract says.*)
(***************************************************************************)
EXTENDS AlarmoArea, TLAPS

Boot == [ state      : State \cup {None},
          mode       : Mode \cup {None},
          revert     : Mode \cup {"disarmed", None},
          timer      : TimerKind,
          left       : Nat,
          bypassed   : SUBSET Sensor,
          bypassOpen : BOOLEAN ]

Fits(a) == a \in Area /\ TimerFits(a) /\ ModeFits(a)

(* No alarm, neither sounding nor counted down to. *)
Calm == Mode \cup {"disarmed", "arming"}

(* What an arming may start from: somewhere to go back to. *)
Armable(a) ==
  /\ a \in Area
  /\ a.mode \in Mode
  /\ \/ /\ a.state \in {"arming", "pending", "triggered"}
        /\ a.revert \in Mode \cup {"disarmed"}
     \/ /\ a.state \in Mode \cup {"disarmed"}
        /\ a.revert = a.state
        /\ a.timer = "none"
     \/ /\ a.state = "arming"
        /\ a.revert = None
        /\ a.timer \in {"none", "leave"}

LEMMA Names ==
  /\ None \notin Mode
  /\ None \notin {"disarmed", "triggered", "arming", "pending"}
  /\ None \notin Nat
  /\ \A m \in Mode : m \notin {"disarmed", "triggered", "arming", "pending"}
  /\ "disarmed" \notin Mode /\ "triggered" \notin Mode
  /\ "arming" \notin Mode /\ "pending" \notin Mode
BY ModeAssumption

LEMMA AreaInBoot == Area \subseteq Boot
BY DEF Area, Boot

LEMMA AtRest ==
  ASSUME NEW a \in Boot, TimerFits(a), a.state \in Mode \cup {"disarmed"}
  PROVE  a.timer = "none"
BY Names DEF Boot, TimerFits, TimerKind

LEMMA TimerSet ==
  ASSUME NEW a \in Boot, NEW k \in TimerKind, NEW d \in Nat
  PROVE  /\ SetTimer(a, k, d) \in Boot
         /\ a \in Area => SetTimer(a, k, d) \in Area
         /\ SetTimer(a, k, d).state = a.state
         /\ SetTimer(a, k, d).mode = a.mode
         /\ SetTimer(a, k, d).revert = a.revert
         /\ SetTimer(a, k, d).timer = k
         /\ SetTimer(a, k, d).left = d
BY DEF SetTimer, Boot, Area

LEMMA TimerCleared ==
  ASSUME NEW a \in Boot
  PROVE  /\ ClearTimer(a) \in Boot
         /\ a \in Area => ClearTimer(a) \in Area
         /\ ClearTimer(a).state = a.state
         /\ ClearTimer(a).mode = a.mode
         /\ ClearTimer(a).revert = a.revert
         /\ ClearTimer(a).timer = "none"
BY TimerSet DEF ClearTimer, TimerKind

(* Becoming armed or disarmed. *)
LEMMA RestFits ==
  ASSUME NEW a \in Boot, NEW new \in Mode \cup {"disarmed"},
         a.state = new => Fits(a)
  PROVE  /\ Fits(UpdateState(a, new))
         /\ UpdateState(a, new).state = new
<1>1. CASE a.state = new
  BY <1>1 DEF UpdateState
<1>2. CASE a.state # new
  <2> DEFINE b == ClearTimer(a)
             c == UpdateState(a, new)
  <2>1. b \in Boot /\ b.timer = "none"
    BY TimerCleared
  <2>2. c = [b EXCEPT !.state = new,
                      !.mode = IF new \in Mode THEN new
                               ELSE IF a.state = "disarmed" /\ new = "triggered"
                                    THEN None ELSE @,
                      !.revert = IF new \in Mode THEN None ELSE @]
    BY <1>2 DEF UpdateState
  <2>3. new # "triggered"
    BY Names
  <2> HIDE DEF b, c
  <2>4. /\ c \in Area /\ c.state = new /\ c.timer = "none"
        /\ new \in Mode => c.mode = new
    <3>1. /\ c.state = new /\ c.timer = "none"
          /\ new \in Mode => c.mode = new
      BY <2>1, <2>2 DEF Boot
    <3>2. c \in Area
      BY <2>1, <2>2, <2>3 DEF Boot, Area, State
    <3> QED BY <3>1, <3>2
  <2>5. TimerFits(c) /\ ModeFits(c)
    BY <2>4, Names DEF TimerFits, ModeFits, Countdown
  <2> QED BY <2>4, <2>5 DEF Fits, c
<1> QED BY <1>1, <1>2

(* Starting a countdown: the timer has been set before. *)
LEMMA CountdownFits ==
  ASSUME NEW a \in Boot, NEW new \in Countdown,
         a.mode \in Mode,
         a.timer = IF new = "arming" THEN "leave" ELSE "entry"
  PROVE  /\ Fits(UpdateState(a, new))
         /\ UpdateState(a, new).state = new
         /\ UpdateState(a, new).left = a.left
<1> DEFINE c == UpdateState(a, new)
<1>1. new \notin Mode \cup {"disarmed", "triggered"}
  BY Names DEF Countdown
<1>2. c = IF new = a.state THEN a ELSE [a EXCEPT !.state = new]
  BY <1>1 DEF UpdateState, Boot
<1>3. /\ c \in Area /\ c.state = new /\ c.timer = a.timer
      /\ c.mode = a.mode /\ c.left = a.left
  BY <1>1, <1>2 DEF Boot, Area, State
<1>4. TimerFits(c) /\ ModeFits(c)
  BY <1>1, <1>3 DEF TimerFits, ModeFits, Countdown
<1> QED BY <1>3, <1>4 DEF Fits

LEMMA SirenTimeInNat ==
  ASSUME NEW a \in Boot
  PROVE  SirenTime(a) \in Nat
BY ConfigAssumption DEF SirenTime, ArmMode, Boot

(* The alarm goes off, from whatever state. *)
LEMMA SoundFits ==
  ASSUME NEW a \in Boot
  PROVE  /\ Fits(Sound(a))
         /\ Sound(a).state = "triggered"
<1> DEFINE t == SirenTime(a)
           b == IF t = 0 THEN ClearTimer(a) ELSE SetTimer(a, "trigger", t)
           c == UpdateState(b, "triggered")
<1>1. t \in Nat
  BY SirenTimeInNat
<1>2. /\ b \in Boot /\ b.state = a.state /\ b.mode = a.mode
      /\ b.timer = IF t = 0 THEN "none" ELSE "trigger"
  <2>1. CASE t = 0
    BY <2>1, TimerCleared
  <2>2. CASE t # 0
    <3>1. "trigger" \in TimerKind
      BY DEF TimerKind
    <3>2. b = SetTimer(a, "trigger", t)
      BY <2>2
    <3> HIDE DEF t, b
    <3> QED BY <1>1, <2>2, <3>1, <3>2, TimerSet
  <2> QED BY <2>1, <2>2
<1> HIDE DEF t, b
<1>3. c = IF "triggered" = b.state THEN b
          ELSE [b EXCEPT !.state = "triggered",
                         !.mode = IF b.state = "disarmed" THEN None ELSE @]
  BY <1>2, Names DEF UpdateState, Boot
<1>4. /\ c \in Area /\ c.state = "triggered" /\ c.timer = b.timer
      /\ c.mode = IF b.state = "disarmed" THEN None ELSE b.mode
  <2> HIDE DEF c
  <2>1. CASE "triggered" = b.state
    BY <1>2, <1>3, <2>1 DEF Boot, Area, State
  <2>2. CASE "triggered" # b.state
    <3>1. c = [b EXCEPT !.state = "triggered",
                        !.mode = IF b.state = "disarmed" THEN None ELSE b.mode]
      BY <1>3, <2>2
    <3>2. /\ c.state = "triggered" /\ c.timer = b.timer
          /\ c.mode = IF b.state = "disarmed" THEN None ELSE b.mode
      BY <1>2, <3>1 DEF Boot
    <3>3. c \in Area
      BY <1>2, <3>1 DEF Boot, Area, State
    <3> QED BY <3>2, <3>3
  <2> QED BY <2>1, <2>2
<1>5. SirenTime(c) = t
  BY <1>2, <1>4 DEF SirenTime, ArmMode, t
<1>6. TimerFits(c) /\ ModeFits(c)
  BY <1>1, <1>2, <1>4, <1>5, Names DEF TimerFits, ModeFits, Countdown
<1>7. Sound(a) = c
  BY DEF Sound, b, t
<1> QED BY <1>4, <1>6, <1>7 DEF Fits

LEMMA DelayInNat ==
  ASSUME NEW a \in Boot, NEW delay \in Nat \cup {None}
  PROVE  /\ EffectiveDelay(a, delay) \in Nat
         /\ EffectiveDelay(a, delay) # 0 => a.mode \in Mode
         /\ delay = 0 => EffectiveDelay(a, delay) = 0
BY ConfigAssumption, Names DEF EffectiveDelay, ArmMode, Boot

(* A trigger request: from a countdown it needs the timer in order, unless *)
(* it asks for no delay.                                                   *)
LEMMA TriggerFits ==
  ASSUME NEW a \in Boot, NEW delay \in Nat \cup {None},
         a.state = "pending" /\ delay # 0 => Fits(a)
  PROVE  /\ Fits(Trigger(a, delay))
         /\ Trigger(a, delay).state \in {"pending", "triggered"}
         /\ a.state = "pending" /\ Trigger(a, delay).state = "pending"
            => Trigger(a, delay).left <= a.left
<1> DEFINE d == EffectiveDelay(a, delay)
<1>1. d \in Nat /\ (d # 0 => a.mode \in Mode) /\ (delay = 0 => d = 0)
  BY DelayInNat
<1>2. CASE d = 0
  <2>1. Trigger(a, delay) = Sound(a)
    BY <1>2 DEF Trigger
  <2> QED BY <2>1, SoundFits
<1>3. CASE d # 0 /\ a.state = "pending" /\ d >= a.left
  <2>1. Trigger(a, delay) = a
    BY <1>3 DEF Trigger
  <2> QED BY <2>1, <1>1, <1>3 DEF Boot
<1>4. CASE d # 0 /\ ~(a.state = "pending" /\ d >= a.left)
  <2> DEFINE b == SetTimer(a, "entry", d)
  <2>1. Trigger(a, delay) = UpdateState(b, "pending")
    BY <1>4 DEF Trigger
  <2>2. b \in Boot /\ b.mode \in Mode /\ b.timer = "entry" /\ b.left = d
    <3>1. "entry" \in TimerKind
      BY DEF TimerKind
    <3> HIDE DEF d
    <3> QED BY <1>1, <1>4, <3>1, TimerSet
  <2>3. /\ Fits(UpdateState(b, "pending"))
        /\ UpdateState(b, "pending").state = "pending"
        /\ UpdateState(b, "pending").left = d
    BY <2>2, CountdownFits DEF Countdown
  <2>4. a.state = "pending" => d <= a.left
    BY <1>1, <1>4 DEF Boot
  <2> QED BY <2>1, <2>3, <2>4
<1> QED BY <1>2, <1>3, <1>4

(* A failed arming leaves the area where it was, or sends it back. *)
LEMMA FailureFits ==
  ASSUME NEW a, Armable(a)
  PROVE  /\ Fits(ArmFailure(a))
         /\ ArmFailure(a).state \in Calm
<1> USE Names DEF Armable, Calm
<1>0. a \in Area /\ a \in Boot
  BY AreaInBoot
<1>1. CASE /\ a.state \in {"arming", "pending", "triggered"}
           /\ a.revert \in Mode \cup {"disarmed"}
  <2>1. a.revert \notin {None, a.state}
    BY <1>1
  <2>2. ArmFailure(a) = UpdateState(a, a.revert)
    BY <2>1 DEF ArmFailure
  <2>3. Fits(UpdateState(a, a.revert)) /\ UpdateState(a, a.revert).state = a.revert
    BY <1>0, <1>1, <2>1, RestFits
  <2> QED BY <1>1, <2>2, <2>3
<1>2. CASE /\ a.state \in Mode \cup {"disarmed"}
           /\ a.revert = a.state
           /\ a.timer = "none"
  <2> DEFINE b == ArmFailure(a)
  <2>1. b = IF a.revert \in Mode THEN [a EXCEPT !.mode = a.revert, !.revert = a.mode]
            ELSE a
    BY <1>2 DEF ArmFailure
  <2> HIDE DEF b
  <2>2. b \in Area
    BY <1>0, <1>2, <2>1 DEF Area
  <2>3. /\ b.state = a.state /\ b.timer = "none"
        /\ b.state \in Mode => b.mode = b.state
    BY <1>0, <1>2, <2>1 DEF Area
  <2>4. TimerFits(b) /\ ModeFits(b)
    BY <1>2, <2>3 DEF TimerFits, ModeFits, Countdown
  <2> QED BY <1>2, <2>2, <2>3, <2>4 DEF Fits, b
<1>3. CASE /\ a.state = "arming"
           /\ a.revert = None
           /\ a.timer \in {"none", "leave"}
  <2>1. ArmFailure(a) = a
    BY <1>3 DEF ArmFailure
  <2>2. TimerFits(a) /\ ModeFits(a)
    BY <1>3 DEF TimerFits, ModeFits, Countdown
  <2> QED BY <1>0, <1>3, <2>1, <2>2 DEF Fits
<1> QED BY <1>1, <1>2, <1>3

-----------------------------------------------------------------------------
LEMMA BypassInSensor ==
  ASSUME NEW a, NEW target, NEW st
  PROVE  Bypass(a, target, st) \in SUBSET Sensor
BY DEF Bypass, Violating, Active

LEMMA NothingBlocksBeforeStart ==
  ASSUME NEW a, NEW target, NEW st, phase # "running"
  PROVE  Blocking(a, target, st) = {}
BY DEF Blocking, Violating

(* The end of an arming: from an arming, from the siren when the sensors   *)
(* are to be ignored, or on restoring. *)
LEMMA ArmNowFits ==
  ASSUME NEW a \in Boot, NEW skip \in BOOLEAN, a.mode \in Mode,
         \/ Armable(a)
         \/ a.state = "triggered" /\ skip
         \/ a.state = None /\ phase # "running"
  PROVE  /\ Fits(ArmNow(a, skip))
         /\ ArmNow(a, skip).state \in Calm
<1> DEFINE bypass == Bypass(a, a.mode, a.mode)
           b == [a EXCEPT !.bypassed = IF bypass = {} THEN @ ELSE bypass]
<1>1. CASE Blocking(a, a.mode, a.mode) # {} /\ ~skip
  <2>1. Armable(a)
    BY <1>1, NothingBlocksBeforeStart
  <2>2. ArmNow(a, skip) = ArmFailure(a)
    BY <1>1 DEF ArmNow
  <2> QED BY <2>1, <2>2, FailureFits
<1>2. CASE ~(Blocking(a, a.mode, a.mode) # {} /\ ~skip)
  <2>1. ArmNow(a, skip) = UpdateState(b, a.mode)
    BY <1>2 DEF ArmNow
  <2>2. bypass \in SUBSET Sensor
    BY BypassInSensor
  <2>3. /\ b \in Boot /\ (a \in Area => b \in Area)
        /\ b.state = a.state /\ b.mode = a.mode /\ b.timer = a.timer
        /\ b.revert = a.revert
    BY <2>2 DEF Boot, Area
  <2> HIDE DEF b, bypass
  <2>4. b.state = a.mode => Fits(b)
    <3> SUFFICES ASSUME b.state = a.mode PROVE Fits(b)
      OBVIOUS
    <3>1. a \in Area /\ a.timer = "none"
      BY <2>3, Names DEF Armable
    <3> QED BY <2>3, <3>1, Names DEF Fits, TimerFits, ModeFits, Countdown
  <2>5. Fits(UpdateState(b, a.mode)) /\ UpdateState(b, a.mode).state = a.mode
    BY <2>3, <2>4, RestFits
  <2> QED BY <2>1, <2>5 DEF Calm
<1> QED BY <1>1, <1>2

LEMMA ArmDelayedFits ==
  ASSUME NEW a \in Boot, a.mode \in Mode,
         Armable(a) \/ (a.state = None /\ phase # "running")
  PROVE  /\ Fits(ArmDelayed(a))
         /\ ArmDelayed(a).state \in Calm
<1>1. CASE Blocking(a, a.mode, "arming") # {}
  <2>1. Armable(a)
    BY <1>1, NothingBlocksBeforeStart
  <2>2. ArmDelayed(a) = ArmFailure(a)
    BY <1>1 DEF ArmDelayed
  <2> QED BY <2>1, <2>2, FailureFits
<1>2. CASE Blocking(a, a.mode, "arming") = {}
  <2> DEFINE b == SetTimer(a, "leave", ExitTime[a.mode])
  <2>1. ArmDelayed(a) = UpdateState(b, "arming")
    BY <1>2 DEF ArmDelayed
  <2>2. ExitTime[a.mode] \in Nat /\ "leave" \in TimerKind
    BY ConfigAssumption DEF TimerKind
  <2>3. b \in Boot /\ b.mode \in Mode /\ b.timer = "leave"
    BY <2>2, TimerSet
  <2>4. /\ Fits(UpdateState(b, "arming"))
        /\ UpdateState(b, "arming").state = "arming"
    BY <2>3, CountdownFits DEF Countdown
  <2> QED BY <2>1, <2>4 DEF Calm
<1> QED BY <1>1, <1>2

LEMMA ArmFits ==
  ASSUME NEW a \in Boot, NEW m \in Mode, NEW skip \in BOOLEAN,
         NEW force \in BOOLEAN,
         \/ Armable([a EXCEPT !.mode = m, !.bypassOpen = force])
         \/ a.state = None /\ phase # "running"
  PROVE  /\ Fits(Arm(a, m, skip, force))
         /\ Arm(a, m, skip, force).state \in Calm
<1> DEFINE b == [a EXCEPT !.mode = m, !.bypassOpen = force]
<1>1. b \in Boot /\ b.mode \in Mode /\ b.state = a.state
  BY DEF Boot
<1>2. Arm(a, m, skip, force) =
        IF skip \/ ExitTime[m] = 0 THEN ArmNow(b, FALSE) ELSE ArmDelayed(b)
  BY DEF Arm
<1>3. Armable(b) \/ (b.state = None /\ phase # "running")
  BY <1>1
<1> HIDE DEF b
<1>4. Fits(ArmNow(b, FALSE)) /\ ArmNow(b, FALSE).state \in Calm
  BY <1>1, <1>3, ArmNowFits
<1>5. Fits(ArmDelayed(b)) /\ ArmDelayed(b).state \in Calm
  BY <1>1, <1>3, ArmDelayedFits
<1> QED BY <1>2, <1>4, <1>5

(* The exit delay ends, or is ended: the timer may have been cleared. *)
LEMMA FinishArmingFits ==
  ASSUME NEW a \in Area, a.state = "arming", a.mode \in Mode,
         a.timer \in {"none", "leave"}
  PROVE  /\ Fits(FinishArming(a))
         /\ FinishArming(a).state \in Calm
<1>1. Armable(a)
  BY DEF Armable, Area
<1> QED BY <1>1, AreaInBoot, ArmNowFits DEF FinishArming

LEMMA TriggerExpiredFits ==
  ASSUME NEW a \in Area, a.state = "triggered"
  PROVE  /\ Fits(TriggerExpired(a))
         /\ TriggerExpired(a).state \in Calm
<1> DEFINE b == ClearTimer(a)
<1>1. b \in Area /\ b \in Boot /\ b.state = "triggered" /\ b.mode = a.mode
  BY TimerCleared, AreaInBoot
<1> HIDE DEF b
<1>2. CASE DisarmAfterTrigger \/ ArmMode(a) = None
  <2> DEFINE c == [b EXCEPT !.bypassed = {}]
  <2>1. TriggerExpired(a) = UpdateState(c, "disarmed")
    BY <1>2 DEF TriggerExpired, b
  <2>2. c \in Boot /\ c.state # "disarmed"
    BY <1>1 DEF Boot
  <2>3. Fits(UpdateState(c, "disarmed")) /\ UpdateState(c, "disarmed").state = "disarmed"
    BY <2>2, RestFits
  <2> QED BY <2>1, <2>3 DEF Calm
<1>3. CASE ~(DisarmAfterTrigger \/ ArmMode(a) = None)
  <2>1. b.mode \in Mode
    BY <1>1, <1>3 DEF ArmMode, Area
  <2>2. CASE IgnoreBlocking
    <3>1. TriggerExpired(a) = ArmNow(b, TRUE)
      BY <1>3, <2>2 DEF TriggerExpired, b
    <3> QED BY <1>1, <2>1, <3>1, ArmNowFits
  <2>3. CASE ~IgnoreBlocking
    <3> DEFINE c == [b EXCEPT !.revert = "disarmed", !.bypassOpen = FALSE]
    <3>1. TriggerExpired(a) = ArmNow(c, FALSE)
      BY <1>3, <2>3 DEF TriggerExpired, b
    <3>2. c \in Area /\ c.mode = b.mode /\ c.state = "triggered" /\ c.revert = "disarmed"
      BY <1>1 DEF Area
    <3>3. Armable(c)
      BY <2>1, <3>2 DEF Armable
    <3> HIDE DEF c
    <3> QED BY <2>1, <3>1, <3>2, <3>3, AreaInBoot, ArmNowFits
  <2> QED BY <2>2, <2>3
<1> QED BY <1>2, <1>3

LEMMA SensorTriggerFits ==
  ASSUME NEW a, Fits(a), NEW s \in Sensor
  PROVE  /\ Fits(SensorTrigger(a, s))
         /\ a.state = "pending" /\ SensorTrigger(a, s).state = "pending"
            => SensorTrigger(a, s).left <= a.left
<1> DEFINE delay == IF s \in UseEntryDelay THEN EntryDelay[s] ELSE 0
<1>0. a \in Area /\ a \in Boot /\ TimerFits(a) /\ ModeFits(a)
  BY AreaInBoot DEF Fits
<1>1. delay \in Nat \cup {None}
  BY ConfigAssumption
<1>2. CASE s \in AlwaysOn
  <2>1. SensorTrigger(a, s) = Trigger(a, 0)
    BY <1>2 DEF SensorTrigger
  <2> QED BY <1>0, <2>1, TriggerFits
<1>3. CASE s \notin AlwaysOn /\ a.state = "arming"
  <2>1. SensorTrigger(a, s) = ArmFailure(a)
    BY <1>3, Names DEF SensorTrigger
  <2>2. Armable(a)
    BY <1>0, <1>3, Names DEF Armable, Area, TimerFits, ModeFits, TimerKind, Countdown
  <2> QED BY <1>3, <2>1, <2>2, FailureFits, Names DEF Calm
<1>4. CASE s \notin AlwaysOn /\ a.state \in Mode \cup {"pending"}
  <2>1. SensorTrigger(a, s) = Trigger(a, delay)
    BY <1>4, Names DEF SensorTrigger
  <2> HIDE DEF delay
  <2> QED BY <1>0, <1>1, <2>1, TriggerFits
<1>5. CASE s \notin AlwaysOn /\ a.state \notin Mode \cup {"pending", "arming"}
  <2>1. SensorTrigger(a, s) = a
    BY <1>5 DEF SensorTrigger
  <2> QED BY <1>0, <1>5, <2>1
<1> QED BY <1>2, <1>3, <1>4, <1>5

-----------------------------------------------------------------------------
Inv == TypeOK /\ TimerFitsState /\ ModeFitsState

(* What a step that keeps the other variables' types has to show. *)
Deadline ==
  area.state = "pending" /\ area'.state = "pending" /\ phase' = phase
  => area'.left <= area.left

AreaStep == Fits(area') /\ Deadline

LEMMA InvIsFits == Inv <=> TypeOK /\ Fits(area)
BY DEF Inv, TypeOK, Fits, TimerFitsState, ModeFitsState

LEMMA ToWatchTyped == \A a : ToWatch(a) \subseteq Sensor
BY DEF ToWatch

LEMMA ListsTyped == \A l \in SUBSET Sensor : Listening(l) \in Watch
BY DEF Listening, Watch

LEMMA InvInit == Init => Inv
<1> SUFFICES ASSUME Init PROVE Inv
  OBVIOUS
<1>1. area \in Area
  BY DEF Init, Area, State, TimerKind
<1>2. TypeOK
  BY <1>1, ListsTyped, ToWatchTyped DEF Init, TypeOK, Reading
<1>3. TimerFits(area) /\ ModeFits(area)
  BY Names DEF Init, TimerFits, ModeFits, Countdown
<1> QED BY <1>2, <1>3 DEF Inv, TimerFitsState, ModeFitsState

LEMMA KeepsArea == Inv /\ UNCHANGED area => AreaStep
<1> SUFFICES ASSUME Inv, UNCHANGED area PROVE AreaStep
  OBVIOUS
<1>1. Fits(area) /\ area \in Area
  BY InvIsFits DEF Fits
<1> QED BY <1>1 DEF AreaStep, Deadline, Area

LEMMA PerformStep ==
  ASSUME Inv, NEW r \in Request, Perform(r)
  PROVE  AreaStep /\ area'.state \in Calm
<1>0. /\ Fits(area) /\ area \in Area /\ area \in Boot
      /\ TimerFits(area) /\ ModeFits(area)
  BY InvIsFits, AreaInBoot DEF Fits
<1>1. CASE r.mode = "disarmed"
  <2> DEFINE b == [area EXCEPT !.bypassed = {}]
  <2>1. area' = UpdateState(b, "disarmed")
    BY <1>1 DEF Perform
  <2>2. /\ b \in Area /\ b \in Boot /\ b.state = area.state /\ b.mode = area.mode
        /\ b.timer = area.timer /\ b.revert = area.revert
    BY <1>0 DEF Area, Boot
  <2> HIDE DEF b
  <2>3. b.state = "disarmed" => Fits(b)
    BY <1>0, <2>2, Names DEF Fits, TimerFits, ModeFits, Countdown
  <2>4. Fits(area') /\ area'.state = "disarmed"
    BY <2>1, <2>2, <2>3, RestFits
  <2> QED BY <2>4 DEF AreaStep, Deadline, Calm
<1>2. CASE r.mode # "disarmed"
  <2> DEFINE fresh  == [area EXCEPT !.revert = "disarmed", !.bypassed = {}]
             switch == [area EXCEPT !.revert = area.state]
             a == IF area.state \in Mode THEN switch ELSE fresh
             b == [a EXCEPT !.mode = r.mode, !.bypassOpen = r.force]
  <2>1. r.mode \in Mode /\ r.skip \in BOOLEAN /\ r.force \in BOOLEAN
    BY <1>2 DEF Request
  <2>2. area' = Arm(a, r.mode, r.skip, r.force)
    BY <1>2 DEF Perform
  <2>3. ASSUME area.state \in Mode PROVE a \in Area /\ Armable(b)
    <3>1. a = [area EXCEPT !.revert = area.state]
      BY <2>3
    <3>2. a \in Area /\ a.state = area.state /\ a.revert = area.state /\ a.timer = area.timer
      BY <1>0, <2>3, <3>1 DEF Area
    <3>3. a.timer = "none"
      BY <1>0, <2>3, <3>2, AtRest
    <3> HIDE DEF a
    <3>4. /\ b \in Area /\ b.mode \in Mode /\ b.state = area.state
          /\ b.revert = area.state /\ b.timer = "none"
      BY <2>1, <3>2, <3>3 DEF Area
    <3>5. a \in Area /\ Armable(b)
      BY <2>3, <3>2, <3>4 DEF Armable
    <3> QED BY <3>5
  <2>4. ASSUME area.state \notin Mode PROVE a \in Area /\ Armable(b)
    <3>1. a = [area EXCEPT !.revert = "disarmed", !.bypassed = {}]
      BY <2>4
    <3>2. a \in Area /\ a.state = area.state /\ a.revert = "disarmed" /\ a.timer = area.timer
      BY <1>0, <3>1 DEF Area
    <3> HIDE DEF a
    <3>3. /\ b \in Area /\ b.mode \in Mode /\ b.state = area.state
          /\ b.revert = "disarmed" /\ b.timer = area.timer
      BY <2>1, <3>2 DEF Area
    <3>4. area.state = "disarmed" => area.timer = "none"
      BY <1>0, AtRest
    <3>5. area.state \in {"arming", "pending", "triggered", "disarmed"}
      BY <1>0, <2>4 DEF Area, State, Countdown
    <3>6. a \in Area /\ Armable(b)
      BY <3>2, <3>3, <3>4, <3>5 DEF Armable
    <3> QED BY <3>6
  <2>5. a \in Boot /\ Armable(b)
    BY <2>3, <2>4, AreaInBoot
  <2> HIDE DEF a
  <2>6. Fits(area') /\ area'.state \in Calm
    BY <2>1, <2>2, <2>5, ArmFits
  <2> QED BY <2>6, Names DEF AreaStep, Deadline, Calm
<1> QED BY <1>1, <1>2

(* From an arming area: its timer is the exit timer or none, and its mode  *)
(* is one. *)
LEMMA ArmingShape ==
  ASSUME Inv, area.state = "arming"
  PROVE  area \in Area /\ area.mode \in Mode /\ area.timer \in {"none", "leave"}
BY InvIsFits, Names DEF Fits, TimerFits, ModeFits, Countdown, Area, TimerKind

LEMMA TriggerStep ==
  ASSUME Inv, area' = Trigger(area, 0)
  PROVE  AreaStep
<1>1. Fits(area) /\ area \in Boot
  BY InvIsFits, AreaInBoot DEF Fits
<1>2. /\ Fits(Trigger(area, 0))
      /\ area.state = "pending" /\ Trigger(area, 0).state = "pending"
         => Trigger(area, 0).left <= area.left
  BY <1>1, TriggerFits
<1> QED BY <1>2 DEF AreaStep, Deadline

LEMMA SensorTriggerStep ==
  ASSUME Inv, NEW s \in Sensor, area' = SensorTrigger(area, s)
  PROVE  AreaStep
BY InvIsFits, SensorTriggerFits DEF AreaStep, Deadline

LEMMA FinishArmingStep ==
  ASSUME Inv, area.state = "arming", area' = FinishArming(area)
  PROVE  AreaStep
BY ArmingShape, FinishArmingFits DEF AreaStep, Deadline

LEMMA HandleStep ==
  ASSUME Inv, NEW s \in Sensor, NEW old, NEW new, Handle(s, old, new)
  PROVE  AreaStep
<1>1. CASE UNCHANGED area
  BY <1>1, KeepsArea
<1>2. CASE area' = SensorTrigger(area, s)
  BY <1>2, SensorTriggerStep
<1> QED BY <1>1, <1>2 DEF Handle

LEMMA RestoreStep ==
  ASSUME Inv, Restore
  PROVE  AreaStep
<1>0. area \in Area /\ area \in Boot /\ TimerFits(area) /\ ModeFits(area)
  BY InvIsFits, AreaInBoot DEF Fits
<1>1. /\ Saved \in Boot /\ Saved.state = None
      /\ Saved.mode = ArmMode(area)
  <2>1. ArmMode(area) \in Mode \cup {None}
    BY <1>0 DEF ArmMode, Area
  <2> QED BY <1>0, <2>1 DEF Saved, Boot, Area, TimerKind
<1>2. phase = "down" /\ phase' # phase
  BY DEF Restore
<1>3. CASE area.state = "arming"
  <2>1. area' = Arm(Saved, ArmMode(area), FALSE, FALSE)
    BY <1>3 DEF Restore
  <2>2. ArmMode(area) \in Mode
    BY <1>0, <1>3 DEF ArmMode, ModeFits, Countdown
  <2>3. Fits(area')
    BY <1>1, <1>2, <2>1, <2>2, ArmFits
  <2> QED BY <1>2, <2>3 DEF AreaStep, Deadline
<1>4. CASE area.state = "pending"
  <2>1. area' = Trigger(Saved, None)
    BY <1>4 DEF Restore
  <2> QED BY <1>1, <1>2, <2>1, TriggerFits, Names DEF AreaStep, Deadline
<1>5. CASE area.state = "triggered"
  <2>1. area' = Trigger(Saved, 0)
    BY <1>5 DEF Restore
  <2> QED BY <1>1, <1>2, <2>1, TriggerFits, Names DEF AreaStep, Deadline
<1>6. CASE area.state \in Mode \cup {"disarmed"}
  <2>1. area' = UpdateState(Saved, area.state)
    BY <1>6, Names DEF Restore
  <2> QED BY <1>1, <1>2, <1>6, <2>1, RestFits, Names DEF AreaStep, Deadline
<1> QED BY <1>0, <1>3, <1>4, <1>5, <1>6 DEF Area, State, Countdown

LEMMA TickStep ==
  ASSUME Inv, Tick
  PROVE  AreaStep
<1>0. area \in Area /\ TimerFits(area) /\ ModeFits(area) /\ Fits(area)
  BY InvIsFits DEF Fits
<1>1. CASE area.timer = "none"
  BY <1>1, KeepsArea DEF Tick
<1>2. CASE area.timer # "none"
  <2>1. area' = [area EXCEPT !.left = area.left - 1] /\ area.left # 0
    BY <1>2 DEF Tick, SomethingDue
  <2>2. /\ area' \in Area /\ area'.left = area.left - 1 /\ area.left \in Nat
        /\ area'.state = area.state /\ area'.mode = area.mode
        /\ area'.timer = area.timer /\ area'.revert = area.revert
    BY <1>0, <2>1 DEF Area
  <2>3. TimerFits(area') /\ ModeFits(area')
    BY <1>0, <2>2 DEF TimerFits, ModeFits, SirenTime, ArmMode
  <2> QED BY <2>2, <2>3 DEF AreaStep, Deadline, Fits
<1> QED BY <1>1, <1>2

-----------------------------------------------------------------------------
(* Every step of an area keeps its record in order and its deadline. *)
LEMMA StepsKeepArea ==
  ASSUME Inv, [Next]_vars
  PROVE  AreaStep
<1>0. area \in Area /\ area \in Boot /\ Fits(area) /\ TimerFits(area)
  BY InvIsFits, AreaInBoot DEF Fits
<1>1. ASSUME NEW r \in Request, RequestNoCode(r) PROVE AreaStep
  BY <1>1, PerformStep DEF RequestNoCode
<1>2. ASSUME NEW r \in Request, RequestWithCode(r) PROVE AreaStep
  BY <1>2, KeepsArea DEF RequestWithCode
<1>3. ASSUME NEW r \in Request, CodeRight(r) PROVE AreaStep
  BY <1>3, PerformStep DEF CodeRight
<1>4. ASSUME NEW r \in Request, CodeWrong(r) PROVE AreaStep
  BY <1>4, KeepsArea DEF CodeWrong
<1>5. CASE SkipDelay
  <2>1. CASE area.state = "arming"
    BY <1>5, <2>1, FinishArmingStep DEF SkipDelay
  <2>2. CASE area.state # "arming"
    BY <1>5, <2>2, TriggerStep DEF SkipDelay
  <2> QED BY <2>1, <2>2
<1>6. CASE TriggerService
  BY <1>6, TriggerStep DEF TriggerService
<1>7. CASE LeaveTimerFinished
  <2> DEFINE a == ClearTimer(area)
  <2>1. area.state = "arming" /\ area' = FinishArming(a)
    BY <1>0, <1>7 DEF LeaveTimerFinished, Due, TimerFits
  <2>2. a \in Area /\ a.state = "arming" /\ a.mode \in Mode /\ a.timer = "none"
    BY <1>0, <2>1, ArmingShape, TimerCleared
  <2> QED BY <2>1, <2>2, FinishArmingFits DEF AreaStep, Deadline
<1>8. CASE EntryTimerFinished
  <2> DEFINE a == ClearTimer(area)
  <2>1. area.state = "pending" /\ area' = Trigger(a, 0)
    BY <1>0, <1>8 DEF EntryTimerFinished, Due, TimerFits
  <2>2. a \in Boot
    BY <1>0, TimerCleared
  <2>3. Trigger(a, 0) = Sound(a)
    BY <2>2, DelayInNat DEF Trigger
  <2> QED BY <2>1, <2>2, <2>3, SoundFits DEF AreaStep, Deadline
<1>9. CASE TriggerTimerFinished
  <2>1. area.state = "triggered" /\ area' = TriggerExpired(area)
    BY <1>0, <1>9 DEF TriggerTimerFinished, Due, TimerFits
  <2> QED BY <1>0, <2>1, TriggerExpiredFits DEF AreaStep, Deadline
<1>10. ASSUME NEW s \in Sensor, NEW new \in Readings[s], SensorChanges(s, new)
       PROVE AreaStep
  BY <1>10, HandleStep, KeepsArea DEF SensorChanges
<1>11. ASSUME NEW s \in Sensor, DelayOnFinished(s) PROVE AreaStep
  BY <1>11, SensorTriggerStep, KeepsArea DEF DelayOnFinished
<1>12. ASSUME NEW s \in Sensor, ArmTimerFinished(s) PROVE AreaStep
  BY <1>12, FinishArmingStep, KeepsArea DEF ArmTimerFinished
<1>13. ASSUME NEW s \in Sensor, Evaluate(s) PROVE AreaStep
  BY <1>13, HandleStep, KeepsArea DEF Evaluate
<1>14. CASE Stop
  BY <1>14, KeepsArea DEF Stop
<1>15. CASE Restore
  BY <1>15, RestoreStep
<1>16. CASE Started
  BY <1>16, KeepsArea DEF Started
<1>17. CASE Tick
  BY <1>17, TickStep
<1>18. CASE UNCHANGED vars
  BY <1>18, KeepsArea DEF vars
<1>19. ASSUME Lists \/ \E l \in SUBSET Sensor : Listens(l) PROVE AreaStep
  BY <1>19, KeepsArea DEF Lists, Listens
<1> QED BY <1>1, <1>2, <1>3, <1>4, <1>5, <1>6, <1>7, <1>8, <1>9, <1>10, <1>11,
           <1>12, <1>13, <1>14, <1>15, <1>16, <1>17, <1>18, <1>19 DEF Next

(* The variables around the entity. *)
RestOK ==
  /\ phase \in {"down", "starting", "running"}
  /\ requests \subseteq Request
  /\ reading \in [Sensor -> Reading]
  /\ mem \in [Sensor -> Reading \cup {None}]
  /\ delayOn \in [Sensor -> Nat \cup {None}]
  /\ armOn \in [Sensor -> Nat \cup {None}]
  /\ evaluating \subseteq Sensor
  /\ watch \in Watch

LEMMA TellsTypes == ASSUME watch \in Watch, Tells PROVE watch' \in Watch
<1> DEFINE due == watch.due \/ (phase = "running" /\ area'.state # area.state)
           astray == watch.astray \/ ( /\ phase = "running"
                                      /\ area'.state = area.state
                                      /\ ToWatch(area') # ToWatch(area) )
<1>1. watch' = [watch EXCEPT !.due = due, !.astray = astray]
  BY DEF Tells
<1>2. due \in BOOLEAN /\ astray \in BOOLEAN
  BY DEF Watch
<1> HIDE DEF due, astray
<1> QED
  BY <1>1, <1>2 DEF Watch

LEMMA RenewalTypes ==
  ASSUME watch \in Watch, Lists \/ \E l \in SUBSET Sensor : Listens(l)
  PROVE  watch' \in Watch
<1>1. CASE Lists
  <2> DEFINE jobs == watch.jobs \cup {ToWatch(area)}
             astray == watch.jobs # {}
  <2>1. jobs \in SUBSET (SUBSET Sensor) /\ astray \in BOOLEAN
    BY ToWatchTyped DEF Watch
  <2>2. watch' = [list |-> {}, due |-> FALSE, jobs |-> jobs, astray |-> astray]
    BY <1>1 DEF Lists
  <2> HIDE DEF jobs, astray
  <2> QED
    BY <2>1, <2>2 DEF Watch
<1>2. ASSUME NEW l \in SUBSET Sensor, Listens(l) PROVE watch' \in Watch
  BY <1>2 DEF Listens, Watch
<1> QED
  BY <1>1, <1>2

LEMMA HandleTypes ==
  ASSUME RestOK, NEW s \in Sensor, NEW old \in Reading, NEW new \in Reading,
         Handle(s, old, new)
  PROVE  /\ mem' \in [Sensor -> Reading \cup {None}]
         /\ delayOn' \in [Sensor -> Nat \cup {None}]
         /\ armOn' \in [Sensor -> Nat \cup {None}]
<1>1. mem' \in [Sensor -> Reading \cup {None}]
  BY DEF Handle, RestOK
<1>2. armOn' \in [Sensor -> Nat \cup {None}]
  BY ConfigAssumption DEF Handle, RestOK
<1>3. delayOn' \in [Sensor -> Nat \cup {None}]
  <2> DEFINE stopped == IF new = "closed" THEN [delayOn EXCEPT ![s] = None]
                        ELSE delayOn
  <2>1. delayOn' = stopped \/ delayOn' = [stopped EXCEPT ![s] = DelayOn[s]]
    BY DEF Handle
  <2>2. stopped \in [Sensor -> Nat \cup {None}]
    BY DEF RestOK
  <2> HIDE DEF stopped
  <2> QED BY <2>1, <2>2, ConfigAssumption
<1> QED BY <1>1, <1>2, <1>3

LEMMA StepsKeepRest ==
  ASSUME RestOK, [Next]_vars
  PROVE  RestOK'
<1> USE DEF RestOK
<1>1. ASSUME NEW r \in Request,
             \/ RequestNoCode(r) \/ RequestWithCode(r)
             \/ CodeRight(r) \/ CodeWrong(r)
      PROVE RestOK'
  BY <1>1, TellsTypes DEF RequestNoCode, RequestWithCode, CodeRight, CodeWrong, sensorVars
<1>2. CASE \/ SkipDelay \/ TriggerService
           \/ LeaveTimerFinished \/ EntryTimerFinished \/ TriggerTimerFinished
  BY <1>2, TellsTypes DEF SkipDelay, TriggerService, LeaveTimerFinished,
     EntryTimerFinished, TriggerTimerFinished, sensorVars
<1>3. ASSUME NEW s \in Sensor, NEW new \in Readings[s], SensorChanges(s, new)
      PROVE RestOK'
  <2>1. new \in Reading /\ reading[s] \in Reading
    BY ConfigAssumption
  <2>2. /\ mem' \in [Sensor -> Reading \cup {None}]
        /\ delayOn' \in [Sensor -> Nat \cup {None}]
        /\ armOn' \in [Sensor -> Nat \cup {None}]
    BY <1>3, <2>1, HandleTypes DEF SensorChanges
  <2> QED BY <1>3, <2>1, <2>2, TellsTypes DEF SensorChanges
<1>4. ASSUME NEW s \in Sensor, DelayOnFinished(s) PROVE RestOK'
  BY <1>4, TellsTypes DEF DelayOnFinished
<1>5. ASSUME NEW s \in Sensor, ArmTimerFinished(s) PROVE RestOK'
  BY <1>5, TellsTypes DEF ArmTimerFinished
<1>6. ASSUME NEW s \in Sensor, Evaluate(s) PROVE RestOK'
  <2>1. "closed" \in Reading /\ reading[s] \in Reading
    BY DEF Reading
  <2>2. /\ mem' \in [Sensor -> Reading \cup {None}]
        /\ delayOn' \in [Sensor -> Nat \cup {None}]
        /\ armOn' \in [Sensor -> Nat \cup {None}]
    BY <1>6, <2>1, HandleTypes DEF Evaluate
  <2> QED BY <1>6, <2>2, TellsTypes DEF Evaluate
<1>7. CASE Stop
  BY <1>7, ListsTyped DEF Stop
<1>8. CASE Restore
  BY <1>8 DEF Restore, sensorVars
<1>9. CASE Started
  BY <1>9, ListsTyped, ToWatchTyped DEF Started, Active
<1>10. CASE Tick
  <2>1. /\ delayOn' = [s \in Sensor |-> Minus1(delayOn[s])]
        /\ armOn' = [s \in Sensor |-> Minus1(armOn[s])]
        /\ \A s \in Sensor : 0 \notin {delayOn[s], armOn[s]}
    BY <1>10 DEF Tick, SomethingDue
  <2>2. \A s \in Sensor : /\ Minus1(delayOn[s]) \in Nat \cup {None}
                          /\ Minus1(armOn[s]) \in Nat \cup {None}
    BY <2>1, Names DEF Minus1
  <2> QED BY <1>10, <2>1, <2>2 DEF Tick
<1>11. CASE UNCHANGED vars
  BY <1>11 DEF vars
<1>12. ASSUME Lists \/ \E l \in SUBSET Sensor : Listens(l) PROVE RestOK'
  BY <1>12, RenewalTypes DEF Lists, Listens, sensorVars
<1> QED BY <1>1, <1>2, <1>3, <1>4, <1>5, <1>6, <1>7, <1>8, <1>9, <1>10, <1>11, <1>12
        DEF Next

LEMMA InvStep == Inv /\ [Next]_vars => Inv'
<1> SUFFICES ASSUME Inv, [Next]_vars PROVE Inv'
  OBVIOUS
<1>1. AreaStep
  BY StepsKeepArea
<1>2. RestOK'
  BY StepsKeepRest DEF Inv, TypeOK, RestOK
<1> QED BY <1>1, <1>2
        DEF AreaStep, Fits, RestOK, Inv, TypeOK, TimerFitsState, ModeFitsState

LEMMA InvAlways == Spec => []Inv
BY InvInit, InvStep, PTL DEF Spec

(* Every variable keeps its type. *)
THEOREM TypeCorrect == Spec => []TypeOK
<1>1. Inv => TypeOK
  BY DEF Inv
<1> QED BY InvAlways, <1>1, PTL

(* A countdown always has the timer that ends it, and a timer never        *)
(* outlives the state it belongs to. *)
THEOREM TimersCorrect == Spec => []TimerFitsState
<1>1. Inv => TimerFitsState
  BY DEF Inv
<1> QED BY InvAlways, <1>1, PTL

(* The mode the sensors are filtered by is the mode that is armed. *)
THEOREM ModeCorrect == Spec => []ModeFitsState
<1>1. Inv => ModeFitsState
  BY DEF Inv
<1> QED BY InvAlways, <1>1, PTL

(* Nothing moves the moment of the alarm further away. *)
THEOREM EntryDeadlineHolds == Spec => EntryNeverExtended
<1>1. Inv /\ [Next]_vars
      => [area.state = "pending" /\ area'.state = "pending" /\ phase' = phase
          => area'.left <= area.left]_vars
  BY StepsKeepArea DEF AreaStep, Deadline
<1> QED BY InvAlways, <1>1, PTL DEF Spec, EntryNeverExtended

-----------------------------------------------------------------------------
(* What may set off an area, and what an area does after it went off. *)

Alarm == {"pending", "triggered"}

LEMMA CalmIsNoAlarm ==
  /\ Calm \cap Alarm = {} /\ Mode \cap Alarm = {} /\ "arming" \notin Mode \cup Alarm
  /\ State = Calm \cup Alarm
BY Names DEF Calm, Alarm, State, Countdown

(* A sensor that triggers leaves the area alone, sets it off, or ends its  *)
(* arming. *)
LEMMA SensorTriggerLeads ==
  ASSUME NEW a, Fits(a), NEW s \in Sensor
  PROVE  \/ SensorTrigger(a, s) = a /\ a.state \in {"disarmed", "triggered"}
         \/ SensorTrigger(a, s).state \in Alarm /\ (a.state = "disarmed" => s \in AlwaysOn)
         \/ a.state = "arming" /\ SensorTrigger(a, s) = ArmFailure(a)
            /\ SensorTrigger(a, s).state \in Calm
<1> DEFINE delay == IF s \in UseEntryDelay THEN EntryDelay[s] ELSE 0
<1>0. a \in Area /\ a \in Boot /\ TimerFits(a) /\ ModeFits(a)
  BY AreaInBoot DEF Fits
<1>1. delay \in Nat \cup {None}
  BY ConfigAssumption
<1>2. CASE s \in AlwaysOn
  <2>1. SensorTrigger(a, s) = Trigger(a, 0)
    BY <1>2 DEF SensorTrigger
  <2> QED BY <1>0, <1>2, <2>1, TriggerFits DEF Alarm
<1>3. CASE s \notin AlwaysOn /\ a.state = "arming"
  <2>1. SensorTrigger(a, s) = ArmFailure(a)
    BY <1>3, Names DEF SensorTrigger
  <2>2. Armable(a)
    BY <1>0, <1>3, Names DEF Armable, Area, TimerFits, ModeFits, TimerKind, Countdown
  <2> QED BY <1>3, <2>1, <2>2, FailureFits
<1>4. CASE s \notin AlwaysOn /\ a.state \in Mode \cup {"pending"}
  <2>1. SensorTrigger(a, s) = Trigger(a, delay)
    BY <1>4, Names DEF SensorTrigger
  <2> HIDE DEF delay
  <2>2. Trigger(a, delay).state \in Alarm
    BY <1>0, <1>1, TriggerFits DEF Alarm
  <2> QED BY <1>4, <2>1, <2>2, Names
<1>5. CASE s \notin AlwaysOn /\ a.state \notin Mode \cup {"pending", "arming"}
  <2>1. SensorTrigger(a, s) = a
    BY <1>5 DEF SensorTrigger
  <2> QED BY <1>0, <1>5, <2>1 DEF Area, State, Countdown
<1> QED BY <1>2, <1>3, <1>4, <1>5

LEMMA HandleLeads ==
  ASSUME NEW s \in Sensor, NEW old, NEW new, Handle(s, old, new)
  PROVE  \/ UNCHANGED area
         \/ area' = SensorTrigger(area, s) /\ ~Allowed(s, new, area.state)
BY DEF Handle

LEMMA FinishArmingLeads ==
  ASSUME Inv, area.state = "arming", NEW a \in {area, ClearTimer(area)}
  PROVE  FinishArming(a).state \in Calm
<1>1. a \in Area /\ a.state = "arming" /\ a.mode \in Mode /\ a.timer \in {"none", "leave"}
  BY ArmingShape, AreaInBoot, TimerCleared
<1> QED BY <1>1, FinishArmingFits

LEMMA TriggerLeads == Inv => Trigger(area, 0).state \in Alarm
BY InvIsFits, AreaInBoot, TriggerFits DEF Fits, Alarm

LEMMA QuietStep ==
  ASSUME Inv, [Next]_vars, area.state = "disarmed", area'.state \in Alarm
  PROVE  TriggerService \/ \E s \in AlwaysOn : Violation(s, reading'[s])
<1> USE CalmIsNoAlarm DEF Calm
<1>0. Fits(area) /\ area \in Area /\ TimerFits(area) /\ AlwaysOn \subseteq Sensor
  BY InvIsFits, ConfigAssumption DEF Fits
<1>1. ASSUME UNCHANGED area PROVE FALSE
  BY <1>1
<1>2. ASSUME NEW r \in Request, Perform(r) PROVE FALSE
  BY <1>2, PerformStep
<1>3. ASSUME NEW s \in Sensor, area' = SensorTrigger(area, s) PROVE s \in AlwaysOn
  BY <1>0, <1>3, SensorTriggerLeads
<1>4. ASSUME NEW s \in Sensor, NEW old, NEW new, Handle(s, old, new)
      PROVE  s \in AlwaysOn /\ Violation(s, new)
  BY <1>1, <1>3, <1>4, HandleLeads DEF Allowed
<1>5. ASSUME NEW r \in Request,
             RequestNoCode(r) \/ RequestWithCode(r) \/ CodeRight(r) \/ CodeWrong(r)
      PROVE  FALSE
  BY <1>1, <1>2, <1>5 DEF RequestNoCode, RequestWithCode, CodeRight, CodeWrong
<1>6. CASE SkipDelay \/ LeaveTimerFinished \/ EntryTimerFinished \/ TriggerTimerFinished
  BY <1>0, <1>6 DEF SkipDelay, Countdown, LeaveTimerFinished, EntryTimerFinished,
                    TriggerTimerFinished, Due, TimerFits
<1>7. ASSUME NEW s \in Sensor, NEW new \in Readings[s], SensorChanges(s, new)
      PROVE  s \in AlwaysOn /\ Violation(s, reading'[s])
  <2>1. reading'[s] = new
    BY <1>7 DEF SensorChanges, Inv, TypeOK
  <2> QED
    BY <1>1, <1>4, <1>7, <2>1 DEF SensorChanges
<1>8. ASSUME NEW s \in Sensor, DelayOnFinished(s)
      PROVE  s \in AlwaysOn /\ Violation(s, reading'[s])
  BY <1>1, <1>3, <1>8 DEF DelayOnFinished
<1>9. ASSUME NEW s \in Sensor, ArmTimerFinished(s) PROVE FALSE
  BY <1>1, <1>9 DEF ArmTimerFinished
<1>10. ASSUME NEW s \in Sensor, Evaluate(s)
       PROVE  s \in AlwaysOn /\ Violation(s, reading'[s])
  BY <1>1, <1>4, <1>10 DEF Evaluate
<1>11. CASE Restore
  <2>1. area' = UpdateState(Saved, area.state)
    BY <1>11 DEF Restore
  <2>2. area'.state = "disarmed"
    BY <2>1 DEF UpdateState, ClearTimer, SetTimer, Saved
  <2> QED
    BY <2>2
<1>12. CASE Stop \/ Started
  BY <1>1, <1>12 DEF Stop, Started
<1>13. CASE Tick
  <2>1. area'.state = area.state
    BY <1>0, <1>13 DEF Tick, Area
  <2> QED
    BY <2>1
<1>14. CASE UNCHANGED vars
  BY <1>1, <1>14 DEF vars
<1>15. ASSUME Lists \/ \E l \in SUBSET Sensor : Listens(l) PROVE FALSE
  BY <1>1, <1>15 DEF Lists, Listens
<1> QED
  BY <1>0, <1>5, <1>6, <1>7, <1>8, <1>9, <1>10, <1>11, <1>12, <1>13, <1>14, <1>15 DEF Next

(* A disarmed area is set off by an always-on sensor or the service only. *)
THEOREM DisarmedIsQuiet == Spec => DisarmedStaysQuiet
<1>1. Inv /\ [Next]_vars
      => [area.state = "disarmed" /\ area'.state \in {"pending", "triggered"}
          => TriggerService \/ \E s \in AlwaysOn : Violation(s, reading'[s])]_vars
  BY QuietStep DEF Alarm
<1> QED BY InvAlways, <1>1, PTL DEF Spec, DisarmedStaysQuiet

(* The end of the siren's time: disarmed, or armed again as it was. *)
LEMMA ExpiryReturns ==
  ASSUME NEW a \in Area, a.state = "triggered"
  PROVE  TriggerExpired(a).state \in {"disarmed", a.mode}
<1> DEFINE b == ClearTimer(a)
<1>1. b \in Boot /\ b.state = "triggered" /\ b.mode = a.mode
  BY TimerCleared, AreaInBoot
<1> HIDE DEF b
<1>2. ASSUME NEW c \in Boot, NEW new PROVE UpdateState(c, new).state = new
  BY <1>2 DEF UpdateState, ClearTimer, SetTimer, Boot
<1>3. ASSUME NEW c \in Boot, NEW bs PROVE [c EXCEPT !.bypassed = bs].mode = c.mode
  BY DEF Boot
<1>4. ASSUME NEW c \in Boot, NEW skip, c.mode = a.mode
      PROVE  \/ ArmNow(c, skip).state = a.mode
             \/ ~skip /\ ArmNow(c, skip) = ArmFailure(c)
  <2>1. Bypass(c, c.mode, c.mode) \in SUBSET Sensor
    BY BypassInSensor
  <2>2. [c EXCEPT !.bypassed = IF Bypass(c, c.mode, c.mode) = {} THEN @
                               ELSE Bypass(c, c.mode, c.mode)] \in Boot
    BY <2>1 DEF Boot
  <2> QED
    BY <1>2, <1>4, <2>2 DEF ArmNow
<1>5. CASE DisarmAfterTrigger \/ ArmMode(a) = None
  <2>1. TriggerExpired(a) = UpdateState([b EXCEPT !.bypassed = {}], "disarmed")
    BY <1>5 DEF TriggerExpired, b
  <2>2. [b EXCEPT !.bypassed = {}] \in Boot
    BY <1>1 DEF Boot
  <2> QED
    BY <1>2, <2>1, <2>2
<1>6. CASE ~(DisarmAfterTrigger \/ ArmMode(a) = None) /\ IgnoreBlocking
  <2>1. TriggerExpired(a) = ArmNow(b, TRUE)
    BY <1>6 DEF TriggerExpired, b
  <2> QED
    BY <1>1, <1>4, <2>1
<1>7. CASE ~(DisarmAfterTrigger \/ ArmMode(a) = None) /\ ~IgnoreBlocking
  <2> DEFINE c == [b EXCEPT !.revert = "disarmed", !.bypassOpen = FALSE]
  <2>1. TriggerExpired(a) = ArmNow(c, FALSE)
    BY <1>7 DEF TriggerExpired, b
  <2>2. c \in Boot /\ c.mode = a.mode /\ c.state = "triggered" /\ c.revert = "disarmed"
    BY <1>1 DEF Boot
  <2> HIDE DEF c
  <2>3. ArmFailure(c).state = "disarmed"
    BY <1>2, <2>2, Names DEF ArmFailure
  <2> QED
    BY <1>4, <2>1, <2>2, <2>3
<1> QED
  BY <1>5, <1>6, <1>7

LEMMA ReturnStep ==
  ASSUME Inv, [Next]_vars, area.state \in Alarm, area'.state \in Mode \cup {"arming"},
         requests' = requests
  PROVE  /\ area.state = "triggered"
         /\ area'.state = area.mode
         /\ area.timer = "trigger" /\ area.left = 0
<1> USE CalmIsNoAlarm DEF Calm
<1>0. Fits(area) /\ area \in Area /\ TimerFits(area) /\ area.state \notin Mode \cup {"arming"}
  BY InvIsFits DEF Fits
<1>1. ASSUME UNCHANGED area PROVE FALSE
  BY <1>0, <1>1
<1>2. ASSUME area'.state \in Alarm \cup {"disarmed"} PROVE FALSE
  BY <1>2, Names
<1>3. ASSUME NEW s \in Sensor, area' = SensorTrigger(area, s) PROVE FALSE
  BY <1>0, <1>1, <1>2, <1>3, SensorTriggerLeads
<1>4. ASSUME NEW s \in Sensor, NEW old, NEW new, Handle(s, old, new) PROVE FALSE
  BY <1>1, <1>3, <1>4, HandleLeads
<1>5. ASSUME NEW r \in Request, RequestNoCode(r) PROVE FALSE
  <2>1. r.mode = "disarmed" /\ Perform(r)
    BY <1>0, <1>5 DEF RequestNoCode, Accepts, Alarm
  <2>2. area' = UpdateState([area EXCEPT !.bypassed = {}], "disarmed")
    BY <2>1 DEF Perform
  <2>3. [area EXCEPT !.bypassed = {}] \in Area /\ [area EXCEPT !.bypassed = {}].state # "disarmed"
    BY <1>0 DEF Area, Alarm
  <2>4. area'.state = "disarmed"
    BY <2>2, <2>3, RestFits, AreaInBoot
  <2> QED
    BY <1>2, <2>4
<1>6. ASSUME NEW r \in Request, RequestWithCode(r) \/ CodeRight(r) \/ CodeWrong(r) PROVE FALSE
  BY <1>1, <1>6 DEF RequestWithCode, CodeRight, CodeWrong
<1>7. CASE SkipDelay \/ TriggerService
  <2>1. area' = Trigger(area, 0)
    BY <1>0, <1>7 DEF SkipDelay, TriggerService
  <2> QED
    BY <1>2, <2>1, TriggerLeads
<1>8. CASE LeaveTimerFinished
  BY <1>0, <1>8 DEF LeaveTimerFinished, Due, TimerFits
<1>9. CASE EntryTimerFinished
  <2>1. area' = Trigger(ClearTimer(area), 0) /\ ClearTimer(area) \in Boot
    BY <1>0, <1>9, AreaInBoot, TimerCleared DEF EntryTimerFinished
  <2>2. area'.state \in Alarm
    BY <2>1, TriggerFits DEF Alarm
  <2> QED
    BY <1>2, <2>2
<1>10. CASE TriggerTimerFinished
  <2>1. /\ area.timer = "trigger" /\ area.left = 0 /\ area.state = "triggered"
        /\ area' = TriggerExpired(area)
    BY <1>0, <1>10 DEF TriggerTimerFinished, Due, TimerFits
  <2>2. area'.state \in {"disarmed", area.mode}
    BY <1>0, <2>1, ExpiryReturns
  <2> QED
    BY <1>2, <2>1, <2>2
<1>11. ASSUME NEW s \in Sensor, NEW new \in Readings[s], SensorChanges(s, new) PROVE FALSE
  BY <1>1, <1>4, <1>11 DEF SensorChanges
<1>12. ASSUME NEW s \in Sensor, DelayOnFinished(s) \/ ArmTimerFinished(s) PROVE FALSE
  BY <1>0, <1>1, <1>3, <1>12 DEF DelayOnFinished, ArmTimerFinished
<1>13. ASSUME NEW s \in Sensor, Evaluate(s) PROVE FALSE
  BY <1>1, <1>4, <1>13 DEF Evaluate
<1>14. CASE Restore
  <2>1. area' = Trigger(Saved, None) \/ area' = Trigger(Saved, 0)
    BY <1>14, Names DEF Restore, Alarm
  <2>2. Saved \in Boot /\ Saved.state = None
    <3>1. ArmMode(area) \in Mode \cup {None}
      BY <1>0 DEF ArmMode, Area
    <3> QED
      BY <1>0, <3>1 DEF Saved, Boot, Area, TimerKind
  <2>3. area'.state \in Alarm
    BY <2>1, <2>2, TriggerFits, Names DEF Alarm
  <2> QED
    BY <1>2, <2>3
<1>15. CASE Stop \/ Started
  BY <1>1, <1>15 DEF Stop, Started
<1>16. CASE Tick
  <2>1. area'.state = area.state
    BY <1>0, <1>16 DEF Tick, Area
  <2> QED
    BY <1>2, <2>1
<1>17. CASE UNCHANGED vars
  BY <1>1, <1>17 DEF vars
<1>18. ASSUME Lists \/ \E l \in SUBSET Sensor : Listens(l) PROVE FALSE
  BY <1>1, <1>18 DEF Lists, Listens
<1> QED
  BY <1>5, <1>6, <1>7, <1>8, <1>9, <1>10, <1>11, <1>12, <1>13, <1>14, <1>15, <1>16, <1>17,
     <1>18 DEF Next

(* After an alarm an area arms again only as it was, and only when the     *)
(* siren's time is over. *)
THEOREM AlarmReturns == Spec => ReturnsToItsMode
<1>1. Inv /\ [Next]_vars
      => [/\ area.state \in {"pending", "triggered"}
          /\ area'.state \in Mode \cup {"arming"}
          /\ requests' = requests
          => /\ area.state = "triggered"
             /\ area'.state = area.mode
             /\ area.timer = "trigger" /\ area.left = 0]_vars
  BY ReturnStep DEF Alarm
<1> QED BY InvAlways, <1>1, PTL DEF Spec, ReturnsToItsMode

-----------------------------------------------------------------------------
(* How an area comes to be armed over an open sensor.  While the sensors   *)
(* are looked at on startup, an open sensor of an armed area is still to   *)
(* be looked at or waits for its own delay. *)

LooksAtOpen ==
  evaluating # {} =>
    /\ phase = "running"
    /\ area.state \in Mode \cup Alarm
    /\ area.state \in Mode =>
         \A s \in Active(area, area.state) \ AllowOpen :
            reading[s] = "open" /\ delayOn[s] = None => s \in evaluating

(* A reading "open" is not overlooked in an armed area. *)
LEMMA OpenIsHandled ==
  ASSUME Inv, area.state \in Mode, UNCHANGED area,
         NEW s \in Active(area, area.state), NEW old,
         ~Reverted(s, old, "open"), Handle(s, old, "open")
  PROVE  delayOn'[s] # None
<1>0. s \in Sensor /\ Fits(area) /\ area \in Area /\ area.mode = area.state
  BY InvIsFits DEF Active, Fits, ModeFits
<1>1. ~OutOfMode(s)
  BY <1>0, Names DEF OutOfMode, ArmMode, Active
<1>2. ~Allowed(s, "open", area.state)
  BY Names DEF Allowed, Violation
<1>3. area' # SensorTrigger(area, s)
  BY <1>0, SensorTriggerLeads, CalmIsNoAlarm, Names
<1>4. delayOn' = [delayOn EXCEPT ![s] = DelayOn[s]]
  BY <1>1, <1>2, <1>3 DEF Handle
<1>5. delayOn'[s] = DelayOn[s] /\ DelayOn[s] \in Nat
  BY <1>0, <1>4, ConfigAssumption DEF Inv, TypeOK
<1> QED
  BY <1>5, Names

(* Only the sensor's own wait changes, and an open one's is not ended. *)
LEMMA OthersWait ==
  ASSUME Inv, NEW t \in Sensor, NEW old, NEW new, Handle(t, old, new),
         NEW s \in Sensor, s # t
  PROVE  delayOn'[s] = delayOn[s]
BY DEF Handle, Inv, TypeOK

LEMMA LooksInit == Init => LooksAtOpen
BY DEF Init, LooksAtOpen

LEMMA LooksEvaluate ==
  ASSUME Inv, LooksAtOpen, NEW t \in Sensor, Evaluate(t), evaluating' # {}
  PROVE  LooksAtOpen'
<1> USE CalmIsNoAlarm, Names
<1>0. /\ phase = "running" /\ phase' = phase /\ area.state \in Mode \cup Alarm
      /\ Fits(area) /\ UNCHANGED reading /\ evaluating' = evaluating \ {t}
  BY InvIsFits DEF Evaluate, LooksAtOpen, Fits
<1>1. CASE UNCHANGED <<area, delayOn>> /\ Allowed(t, reading[t], area.state)
  <2>1. ASSUME area.state \in Mode, NEW s \in Active(area, area.state) \ AllowOpen,
               reading[s] = "open", delayOn[s] = None
        PROVE  s \in evaluating \ {t}
    BY <1>1, <2>1 DEF Evaluate, LooksAtOpen, Allowed, Violation
  <2> QED
    BY <1>0, <1>1, <2>1 DEF LooksAtOpen
<1>2. CASE UNCHANGED area /\ Handle(t, "closed", reading[t])
  <2>1. ASSUME area.state \in Mode, NEW s \in Active(area, area.state) \ AllowOpen,
               reading[s] = "open", delayOn'[s] = None
        PROVE  s \in evaluating \ {t}
    <3>1. s \in Sensor
      BY DEF Active
    <3>2. s # t
      BY <1>2, <2>1, OpenIsHandled DEF Reverted
    <3>3. delayOn[s] = None
      BY <1>2, <2>1, <3>1, <3>2, OthersWait
    <3> QED
      BY <2>1, <3>2, <3>3 DEF Evaluate, LooksAtOpen
  <2> QED
    BY <1>0, <1>2, <2>1 DEF LooksAtOpen
<1>3. CASE area' = SensorTrigger(area, t)
  <2>1. area'.state \in Alarm
    BY <1>0, <1>3, SensorTriggerLeads DEF Alarm
  <2> QED
    BY <1>0, <2>1 DEF LooksAtOpen
<1> QED
  BY <1>1, <1>2, <1>3, HandleLeads DEF Evaluate

LEMMA LooksStep ==
  ASSUME Inv, LooksAtOpen, [Next]_vars
  PROVE  LooksAtOpen'
<1>1. ASSUME evaluating' = {} PROVE LooksAtOpen'
  BY <1>1 DEF LooksAtOpen
<1>2. ASSUME Up, UNCHANGED evaluating PROVE LooksAtOpen'
  BY <1>1, <1>2 DEF Up
<1>3. ASSUME NEW r \in Request,
             RequestNoCode(r) \/ RequestWithCode(r) \/ CodeRight(r) \/ CodeWrong(r)
      PROVE  LooksAtOpen'
  BY <1>2, <1>3 DEF RequestNoCode, RequestWithCode, CodeRight, CodeWrong, sensorVars
<1>4. CASE \/ SkipDelay \/ TriggerService
           \/ LeaveTimerFinished \/ EntryTimerFinished \/ TriggerTimerFinished
  BY <1>2, <1>4 DEF SkipDelay, TriggerService, LeaveTimerFinished, EntryTimerFinished,
                    TriggerTimerFinished, Due, sensorVars
<1>5. ASSUME NEW s \in Sensor, NEW new, SensorChanges(s, new) PROVE LooksAtOpen'
  BY <1>1, <1>5 DEF SensorChanges
<1>6. ASSUME NEW s \in Sensor, DelayOnFinished(s) \/ ArmTimerFinished(s) PROVE LooksAtOpen'
  BY <1>2, <1>6 DEF DelayOnFinished, ArmTimerFinished
<1>7. ASSUME NEW s \in Sensor, Evaluate(s) PROVE LooksAtOpen'
  BY <1>1, <1>7, LooksEvaluate
<1>8. CASE Restore
  BY <1>1, <1>8 DEF Restore, sensorVars, LooksAtOpen
<1>9. CASE Started
  BY <1>9, Names DEF Started, LooksAtOpen, Active, Inv, TypeOK
<1>10. CASE Stop \/ Tick
  BY <1>2, <1>10 DEF Stop, Tick
<1>11. CASE UNCHANGED vars
  BY <1>11 DEF vars, LooksAtOpen, Alarm
<1>12. ASSUME Lists \/ \E l \in SUBSET Sensor : Listens(l) PROVE LooksAtOpen'
  BY <1>12 DEF Lists, Listens, sensorVars, LooksAtOpen, Alarm
<1> QED
  BY <1>3, <1>4, <1>5, <1>6, <1>7, <1>8, <1>9, <1>10, <1>11, <1>12 DEF Next

LEMMA LooksAlways == Spec => []LooksAtOpen
BY InvAlways, LooksInit, LooksStep, PTL DEF Spec

(* The listener hears the sensors it is to hear, or is being renewed with  *)
(* the right list, unless a signal is under way or it has gone astray. *)
ListCurrent ==
  phase = "running" /\ ~watch.due /\ ~watch.astray =>
    /\ watch.jobs = {} => watch.list = ToWatch(area)
    /\ watch.jobs \subseteq {ToWatch(area)}

LEMMA CurrentInit == Init => ListCurrent
BY DEF Init, ListCurrent, Listening

LEMMA TellsKeepsCurrent ==
  ASSUME watch \in Watch, ListCurrent, Tells, UNCHANGED phase
  PROVE  ListCurrent'
<1>1. watch'.list = watch.list /\ watch'.jobs = watch.jobs
  BY DEF Tells, Watch
<1>2. ASSUME phase = "running", ~watch'.due, ~watch'.astray
      PROVE  ~watch.due /\ ~watch.astray /\ ToWatch(area') = ToWatch(area)
  BY <1>2 DEF Tells, Watch
<1> QED
  BY <1>1, <1>2 DEF ListCurrent

LEMMA SameKeepsCurrent ==
  ASSUME ListCurrent, UNCHANGED <<phase, watch>>, ToWatch(area') = ToWatch(area)
  PROVE  ListCurrent'
BY DEF ListCurrent

LEMMA RenewalKeepsCurrent ==
  ASSUME watch \in Watch, ListCurrent, Lists \/ \E l \in SUBSET Sensor : Listens(l)
  PROVE  ListCurrent'
<1>1. CASE Lists
  BY <1>1 DEF Lists, ListCurrent
<1>2. ASSUME NEW l \in SUBSET Sensor, Listens(l) PROVE ListCurrent'
  <2>1. /\ UNCHANGED <<phase, area>> /\ l \in watch.jobs
        /\ watch'.list = l /\ watch'.jobs = watch.jobs \ {l}
        /\ watch'.due = watch.due /\ watch'.astray = watch.astray
    BY <1>2 DEF Listens, Watch
  <2> QED
    BY <2>1 DEF ListCurrent
<1> QED
  BY <1>1, <1>2

LEMMA CurrentStep ==
  ASSUME Inv, ListCurrent, [Next]_vars
  PROVE  ListCurrent'
<1>0. watch \in Watch /\ area \in Area
  BY DEF Inv, TypeOK
<1>1. ASSUME Tells, UNCHANGED phase PROVE ListCurrent'
  BY <1>0, <1>1, TellsKeepsCurrent
<1>2. ASSUME UNCHANGED <<phase, area, watch>> PROVE ListCurrent'
  BY <1>2, SameKeepsCurrent
<1>3. ASSUME NEW r \in Request, RequestNoCode(r) \/ CodeRight(r) PROVE ListCurrent'
  BY <1>1, <1>3 DEF RequestNoCode, CodeRight
<1>4. ASSUME NEW r \in Request, RequestWithCode(r) \/ CodeWrong(r) PROVE ListCurrent'
  BY <1>2, <1>4 DEF RequestWithCode, CodeWrong
<1>5. CASE \/ SkipDelay \/ TriggerService
           \/ LeaveTimerFinished \/ EntryTimerFinished \/ TriggerTimerFinished
  BY <1>1, <1>5 DEF SkipDelay, TriggerService, LeaveTimerFinished, EntryTimerFinished,
                    TriggerTimerFinished
<1>6. ASSUME NEW s \in Sensor,
             \/ \E new \in Readings[s] : SensorChanges(s, new)
             \/ DelayOnFinished(s) \/ ArmTimerFinished(s) \/ Evaluate(s)
      PROVE  ListCurrent'
  BY <1>1, <1>6 DEF SensorChanges, DelayOnFinished, ArmTimerFinished, Evaluate
<1>7. ASSUME Lists \/ \E l \in SUBSET Sensor : Listens(l) PROVE ListCurrent'
  BY <1>0, <1>7, RenewalKeepsCurrent
<1>8. CASE Stop \/ Restore
  BY <1>8 DEF Stop, Restore, ListCurrent
<1>9. CASE Started
  BY <1>9 DEF Started, ListCurrent, Listening
<1>10. CASE Tick
  <2>1. /\ area'.state = area.state /\ area'.mode = area.mode
        /\ area'.bypassed = area.bypassed
    BY <1>0, <1>10 DEF Tick, Area
  <2>2. ToWatch(area') = ToWatch(area)
    BY <2>1 DEF ToWatch, ArmMode
  <2> QED
    BY <1>10, <2>2, SameKeepsCurrent DEF Tick
<1>11. CASE UNCHANGED vars
  BY <1>2, <1>11 DEF vars
<1> QED
  BY <1>3, <1>4, <1>5, <1>6, <1>7, <1>8, <1>9, <1>10, <1>11 DEF Next

LEMMA CurrentAlways == Spec => []ListCurrent
BY InvAlways, CurrentInit, CurrentStep, PTL DEF Spec

(* An arming that succeeds leaves an open sensor unbypassed only when it   *)
(* bypasses others instead. *)
LEMMA ArmNowOverOpen ==
  ASSUME phase = "running", NEW a \in Area, a.mode \in Mode,
         NEW s \in Sensor \ AllowOpen, reading[s] = "open",
         s \in Active(ArmNow(a, FALSE), a.mode)
  PROVE  \/ ArmNow(a, FALSE) = ArmFailure(a)
         \/ s \in a.bypassed \ ArmNow(a, FALSE).bypassed /\ ArmNow(a, FALSE).bypassed # {}
<1> DEFINE bypass == Bypass(a, a.mode, a.mode)
           b == [a EXCEPT !.bypassed = IF bypass = {} THEN @ ELSE bypass]
           c == ArmNow(a, FALSE)
<1> SUFFICES ASSUME c # ArmFailure(a)
             PROVE  s \in a.bypassed \ c.bypassed /\ c.bypassed # {}
  OBVIOUS
<1>1. Blocking(a, a.mode, a.mode) = {} /\ c = UpdateState(b, a.mode)
  BY DEF ArmNow
<1>2. bypass \in SUBSET Sensor
  BY BypassInSensor
<1>3. b \in Area /\ b.bypassed = IF bypass = {} THEN a.bypassed ELSE bypass
  BY <1>2 DEF Area
<1> HIDE DEF b
<1>4. c.bypassed = b.bypassed
  BY <1>1, <1>3 DEF UpdateState, ClearTimer, SetTimer, Area
<1> HIDE DEF c
<1>5. s \notin c.bypassed /\ (a.mode \in SensorModes[s] \/ s \in AlwaysOn)
  BY DEF Active, c
<1>6. s \in a.bypassed
  <2> SUFFICES ASSUME s \notin a.bypassed PROVE FALSE
    OBVIOUS
  <2>1. s \in Active(a, a.mode)
    BY <1>5 DEF Active
  <2>2. ~Allowed(s, reading[s], a.mode)
    BY Names DEF Allowed, Violation
  <2>3. s \in Violating(a, a.mode, a.mode)
    BY <2>1, <2>2 DEF Violating
  <2>4. s \in bypass
    BY <1>1, <2>3 DEF Blocking
  <2> QED
    BY <1>3, <1>4, <1>5, <2>4
<1> QED
  BY <1>3, <1>4, <1>5, <1>6

LEMMA FailureGoesBack ==
  ASSUME NEW a \in Area
  PROVE  /\ ArmFailure(a).bypassed = a.bypassed
         /\ ArmFailure(a).state \in {a.state, a.revert}
         /\ a.revert \notin {None, a.state} => ArmFailure(a).state = a.revert
BY DEF ArmFailure, UpdateState, ClearTimer, SetTimer, Area

LEMMA ArmOverOpen ==
  ASSUME phase = "running", NEW a \in Area, NEW m \in Mode, NEW skip \in BOOLEAN,
         NEW force \in BOOLEAN, NEW s \in Sensor \ AllowOpen, reading[s] = "open",
         Arm(a, m, skip, force).state \in Mode,
         s \in Active(Arm(a, m, skip, force), Arm(a, m, skip, force).state)
  PROVE  \/ /\ Arm(a, m, skip, force).bypassed = a.bypassed
            /\ Arm(a, m, skip, force).state \in {a.state, a.revert}
            /\ a.revert \notin {None, a.state} => Arm(a, m, skip, force).state = a.revert
         \/ /\ s \in a.bypassed \ Arm(a, m, skip, force).bypassed
            /\ Arm(a, m, skip, force).bypassed # {}
<1> DEFINE b == [a EXCEPT !.mode = m, !.bypassOpen = force]
           c == Arm(a, m, skip, force)
<1>1. /\ b \in Area /\ b.mode = m /\ b.state = a.state /\ b.revert = a.revert
      /\ b.bypassed = a.bypassed
  BY DEF Area
<1>2. c = IF skip \/ ExitTime[m] = 0 THEN ArmNow(b, FALSE) ELSE ArmDelayed(b)
  BY DEF Arm
<1> HIDE DEF b, c
<1>3. CASE c = ArmFailure(b)
  BY <1>1, <1>3, FailureGoesBack DEF c
<1>4. CASE c = ArmNow(b, FALSE) /\ c # ArmFailure(b)
  <2>1. c.state = m
    <3> DEFINE d == [b EXCEPT !.bypassed = IF Bypass(b, b.mode, b.mode) = {} THEN @
                                            ELSE Bypass(b, b.mode, b.mode)]
    <3>1. c = UpdateState(d, m)
      BY <1>1, <1>4 DEF ArmNow
    <3>2. d \in Area
      BY <1>1, BypassInSensor DEF Area
    <3> HIDE DEF d
    <3> QED
      BY <3>1, <3>2 DEF UpdateState, ClearTimer, SetTimer, Area
  <2>2. s \in Active(ArmNow(b, FALSE), b.mode)
    BY <1>1, <1>4, <2>1 DEF c
  <2>3. s \in b.bypassed \ c.bypassed /\ c.bypassed # {}
    BY <1>1, <1>4, <2>2, ArmNowOverOpen
  <2> QED
    BY <1>1, <2>3 DEF c
<1>5. CASE c = ArmDelayed(b) /\ c # ArmFailure(b)
  <2>1. c = UpdateState(SetTimer(b, "leave", ExitTime[m]), "arming")
    BY <1>1, <1>5 DEF ArmDelayed
  <2>2. c.state = "arming"
    BY <1>1, <2>1, Names DEF UpdateState, SetTimer, Area
  <2> QED
    BY <2>2, Names DEF c
<1> QED
  BY <1>2, <1>3, <1>4, <1>5

-----------------------------------------------------------------------------
(* What the steps that arm the area have to show, for a sensor s. *)
Excused(s) ==
  \/ reading[s] = "unavailable" /\ mem[s] = "open"
  \/ area.state = "arming" /\ area'.state = area.revert
  \/ s \in area.bypassed \ area'.bypassed /\ area'.bypassed # {}
  \/ area.state = "triggered" /\ IgnoreBlocking
  \/ Unheard(s)

LEMMA NewlySilent ==
  ASSUME NEW s, ~Silent(s), Silent(s)', UNCHANGED <<phase, evaluating>>,
         reading'[s] = reading[s], delayOn'[s] = delayOn[s]
  PROVE  area'.state # area.state \/ area'.bypassed # area.bypassed
BY DEF Silent, Active

LEMMA PerformOverOpen ==
  ASSUME Inv, NEW r \in Request, Perform(r), NEW s \in Sensor, ~Silent(s), Silent(s)',
         UNCHANGED <<phase, reading, delayOn, evaluating>>
  PROVE  Excused(s)
<1>0. /\ Fits(area) /\ area \in Area /\ phase = "running"
      /\ s \in Active(area', area'.state) /\ s \in Sensor \ AllowOpen
      /\ reading[s] = "open" /\ area'.state \in Mode
  BY InvIsFits DEF Fits, Silent
<1>1. CASE r.mode = "disarmed"
  <2>1. area' = UpdateState([area EXCEPT !.bypassed = {}], "disarmed")
    BY <1>1 DEF Perform
  <2>2. area'.state = "disarmed"
    BY <1>0, <2>1 DEF UpdateState, ClearTimer, SetTimer, Area
  <2> QED
    BY <1>0, <2>2, Names
<1>2. CASE r.mode # "disarmed" /\ area.state \in Mode
  <2> DEFINE a == [area EXCEPT !.revert = area.state]
  <2>1. area' = Arm(a, r.mode, r.skip, r.force)
    BY <1>2 DEF Perform
  <2>2. /\ a \in Area /\ a.state = area.state /\ a.revert = area.state
        /\ a.bypassed = area.bypassed
    BY <1>0, <1>2 DEF Area
  <2>3. r.mode \in Mode /\ r.skip \in BOOLEAN /\ r.force \in BOOLEAN
    BY <1>2 DEF Request
  <2> HIDE DEF a
  <2>4. \/ area'.bypassed = area.bypassed /\ area'.state = area.state
        \/ s \in area.bypassed \ area'.bypassed /\ area'.bypassed # {}
    BY <1>0, <2>1, <2>2, <2>3, ArmOverOpen
  <2> QED
    BY <2>4, NewlySilent DEF Excused
<1>3. CASE r.mode # "disarmed" /\ area.state \notin Mode
  <2> DEFINE a == [area EXCEPT !.revert = "disarmed", !.bypassed = {}]
  <2>1. area' = Arm(a, r.mode, r.skip, r.force)
    BY <1>3 DEF Perform
  <2>2. /\ a \in Area /\ a.state = area.state /\ a.revert = "disarmed"
        /\ a.bypassed = {}
    BY <1>0, <1>3 DEF Area
  <2>3. r.mode \in Mode /\ r.skip \in BOOLEAN /\ r.force \in BOOLEAN
    BY <1>3 DEF Request
  <2> HIDE DEF a
  <2>4. area'.state \in {area.state, "disarmed"}
    BY <1>0, <2>1, <2>2, <2>3, ArmOverOpen
  <2> QED
    BY <1>0, <1>3, <2>4, Names
<1> QED
  BY <1>1, <1>2, <1>3

LEMMA FinishOverOpen ==
  ASSUME Inv, area.state = "arming", NEW a \in {area, ClearTimer(area)},
         area' = FinishArming(a), NEW s \in Sensor, Silent(s)',
         UNCHANGED <<phase, reading>>
  PROVE  Excused(s)
<1>1. /\ a \in Area /\ a.state = "arming" /\ a.mode \in Mode
      /\ a.revert = area.revert /\ a.bypassed = area.bypassed
  BY ArmingShape, AreaInBoot, TimerCleared DEF ClearTimer, SetTimer, Area
<1>2. /\ phase = "running" /\ s \in Sensor \ AllowOpen /\ reading[s] = "open"
      /\ area'.state \in Mode /\ s \in Active(area', area'.state)
  BY DEF Silent
<1>3. CASE area' = ArmFailure(a)
  BY <1>1, <1>2, <1>3, FailureGoesBack, Names DEF Excused
<1>4. CASE area' # ArmFailure(a)
  <2> DEFINE d == [a EXCEPT !.bypassed = IF Bypass(a, a.mode, a.mode) = {} THEN @
                                          ELSE Bypass(a, a.mode, a.mode)]
  <2>1. area' = UpdateState(d, a.mode)
    BY <1>4 DEF FinishArming, ArmNow
  <2>2. d \in Area
    BY <1>1, BypassInSensor DEF Area
  <2> HIDE DEF d
  <2>3. area'.state = a.mode
    BY <2>1, <2>2 DEF UpdateState, ClearTimer, SetTimer, Area
  <2> QED
    BY <1>1, <1>2, <1>4, <2>3, ArmNowOverOpen DEF FinishArming, Excused
<1> QED
  BY <1>3, <1>4

LEMMA ExpiredOverOpen ==
  ASSUME Inv, area.state = "triggered", area' = TriggerExpired(area),
         NEW s \in Sensor, Silent(s)', UNCHANGED <<phase, reading>>
  PROVE  Excused(s)
<1> DEFINE b == ClearTimer(area)
           c == [b EXCEPT !.revert = "disarmed", !.bypassOpen = FALSE]
<1>0. /\ phase = "running" /\ s \in Sensor \ AllowOpen /\ reading[s] = "open"
      /\ area'.state \in Mode /\ s \in Active(area', area'.state)
  BY DEF Silent
<1>1. /\ area \in Area /\ b \in Area /\ b.state = "triggered"
      /\ b.mode = area.mode /\ b.bypassed = area.bypassed
  BY InvIsFits, AreaInBoot, TimerCleared DEF Fits, ClearTimer, SetTimer, Area
<1> HIDE DEF b
<1>2. /\ c \in Area /\ c.state = "triggered" /\ c.revert = "disarmed"
      /\ c.mode = area.mode /\ c.bypassed = area.bypassed
  BY <1>1 DEF Area
<1>3. CASE DisarmAfterTrigger \/ ArmMode(area) = None
  <2>1. area' = UpdateState([b EXCEPT !.bypassed = {}], "disarmed")
    BY <1>3 DEF TriggerExpired, b
  <2>2. area'.state = "disarmed"
    BY <1>1, <2>1 DEF UpdateState, ClearTimer, SetTimer, Area
  <2> QED
    BY <1>0, <2>2, Names
<1>4. CASE IgnoreBlocking
  BY <1>4 DEF Excused
<1>5. CASE ~(DisarmAfterTrigger \/ ArmMode(area) = None) /\ ~IgnoreBlocking
  <2>1. area' = ArmNow(c, FALSE)
    BY <1>5 DEF TriggerExpired, b
  <2>2. c.mode \in Mode
    BY <1>1, <1>2, <1>5 DEF ArmMode, Area
  <2> HIDE DEF c
  <2>3. area' # ArmFailure(c)
    BY <1>0, <1>2, FailureGoesBack, Names
  <2>4. area'.state = c.mode
    <3> DEFINE d == [c EXCEPT !.bypassed = IF Bypass(c, c.mode, c.mode) = {} THEN @
                                            ELSE Bypass(c, c.mode, c.mode)]
    <3>1. area' = UpdateState(d, c.mode)
      BY <2>1, <2>3 DEF ArmNow
    <3>2. d \in Area
      BY <1>2, BypassInSensor DEF Area
    <3> HIDE DEF d
    <3> QED
      BY <3>1, <3>2 DEF UpdateState, ClearTimer, SetTimer, Area
  <2> QED
    BY <1>0, <1>2, <2>1, <2>2, <2>3, <2>4, ArmNowOverOpen DEF Excused
<1> QED
  BY <1>3, <1>4, <1>5

LEMMA SensorOverOpen ==
  ASSUME Inv, NEW t \in Sensor, area' = SensorTrigger(area, t), NEW s, Silent(s)'
  PROVE  Excused(s)
<1>1. Fits(area) /\ area \in Area /\ area'.state \in Mode
  BY InvIsFits DEF Fits, Silent
<1>2. area.state = "arming" /\ area' = ArmFailure(area)
  BY <1>1, SensorTriggerLeads, CalmIsNoAlarm, Names
<1> QED
  BY <1>1, <1>2, FailureGoesBack, Names DEF Excused

(* A reading that comes in. *)
LEMMA ChangeOverOpen ==
  ASSUME Inv, ListCurrent, NEW t \in Sensor, NEW new, SensorChanges(t, new),
         NEW s \in Sensor, ~Silent(s), Silent(s)'
  PROVE  Excused(s)
<1>0. /\ UNCHANGED <<phase, evaluating>> /\ phase = "running"
      /\ reading' = [reading EXCEPT ![t] = new] /\ reading \in [Sensor -> Reading]
      /\ reading'[s] = "open" /\ delayOn'[s] = None /\ s \notin AllowOpen
      /\ area'.state \in Mode /\ s \in Active(area', area'.state)
  BY DEF SensorChanges, Silent, Inv, TypeOK
<1>1. CASE area' = SensorTrigger(area, t)
  BY <1>1, SensorOverOpen
<1>2. CASE UNCHANGED area /\ s # t
  <2>1. reading'[s] = reading[s]
    BY <1>0, <1>2
  <2>2. delayOn'[s] = delayOn[s]
    BY <1>2, OthersWait DEF SensorChanges
  <2> QED
    BY <1>0, <1>2, <2>1, <2>2, NewlySilent
<1>3. CASE UNCHANGED area /\ s = t
  <2>1. new = "open"
    BY <1>0, <1>3
  <2>2. area.mode = area.state /\ area.state \in Mode /\ s \in Active(area, area.state)
    BY <1>0, <1>3 DEF Inv, ModeFitsState, ModeFits
  <2>3. s \in ToWatch(area) /\ ~Initial(s, reading[s], new)
    BY <1>0, <2>1, <2>2, Names DEF ToWatch, Active, ArmMode, Initial
  <2>4. CASE s \in watch.list
    <3>1. Handle(s, reading[s], "open")
      BY <1>3, <2>1, <2>3, <2>4 DEF SensorChanges
    <3>2. Reverted(s, reading[s], "open")
      BY <1>0, <1>3, <2>2, <3>1, OpenIsHandled
    <3> QED
      BY <3>2 DEF Reverted, Excused
  <2>5. CASE s \notin watch.list
    <3>1. watch.due \/ watch.jobs # {} \/ watch.astray
      BY <1>0, <2>3, <2>5 DEF ListCurrent
    <3>2. reading'[s] # reading[s]
      BY <1>3 DEF SensorChanges, Inv, TypeOK
    <3> QED
      BY <2>5, <3>1, <3>2 DEF Excused, Unheard
  <2> QED
    BY <2>4, <2>5
<1> QED
  BY <1>1, <1>2, <1>3, HandleLeads DEF SensorChanges

(* The last reading that is looked at on startup. *)
LEMMA EvaluateOverOpen ==
  ASSUME Inv, LooksAtOpen, NEW t \in Sensor, Evaluate(t),
         NEW s \in Sensor, Silent(s)'
  PROVE  Excused(s)
<1>0. /\ UNCHANGED <<phase, reading>> /\ t \in evaluating /\ evaluating \ {t} = {}
      /\ reading[s] = "open" /\ delayOn'[s] = None /\ s \notin AllowOpen
      /\ area'.state \in Mode /\ s \in Active(area', area'.state)
  BY DEF Evaluate, Silent
<1>1. CASE area' = SensorTrigger(area, t)
  BY <1>1, SensorOverOpen
<1>2. CASE UNCHANGED area /\ s # t
  <2>1. delayOn'[s] = delayOn[s]
    BY <1>2, OthersWait DEF Evaluate
  <2>2. s \in evaluating
    BY <1>0, <1>2, <2>1 DEF LooksAtOpen
  <2> QED
    BY <1>0, <1>2, <2>2
<1>3. CASE UNCHANGED area /\ s = t
  <2>1. ~Allowed(s, reading[s], area.state)
    BY <1>0, <1>3, Names DEF Allowed, Violation
  <2>2. Handle(s, "closed", "open") /\ ~Reverted(s, "closed", "open")
    BY <1>0, <1>3, <2>1 DEF Evaluate, Reverted
  <2> QED
    BY <1>0, <1>3, <2>2, OpenIsHandled
<1> QED
  BY <1>1, <1>2, <1>3, HandleLeads DEF Evaluate

LEMMA DelayOverOpen ==
  ASSUME Inv, NEW t \in Sensor, DelayOnFinished(t), NEW s \in Sensor,
         ~Silent(s), Silent(s)'
  PROVE  Excused(s)
<1>0. /\ UNCHANGED <<phase, reading, evaluating>> /\ reading[s] = "open"
      /\ delayOn' = [delayOn EXCEPT ![t] = None]
  BY DEF DelayOnFinished, Silent
<1>1. CASE area' = SensorTrigger(area, t)
  BY <1>1, SensorOverOpen
<1>2. CASE UNCHANGED area /\ ~Violation(t, reading[t])
  <2>1. s # t
    BY <1>0, <1>2 DEF Violation
  <2>2. delayOn'[s] = delayOn[s]
    BY <1>0, <2>1 DEF Inv, TypeOK
  <2> QED
    BY <1>0, <1>2, <2>2, NewlySilent
<1> QED
  BY <1>1, <1>2 DEF DelayOnFinished

LEMMA SilenceStep ==
  ASSUME Inv, LooksAtOpen, ListCurrent, [Next]_vars, NEW s \in Sensor, ~Silent(s), Silent(s)'
  PROVE  Excused(s)
<1>0. Fits(area) /\ area \in Area /\ TimerFits(area) /\ area'.state \in Mode
  BY InvIsFits DEF Fits, Silent
<1>1. ASSUME UNCHANGED <<phase, area, reading, evaluating>>, delayOn'[s] = delayOn[s]
      PROVE  FALSE
  BY <1>1, NewlySilent
<1>2. ASSUME area'.state \in Alarm PROVE FALSE
  BY <1>0, <1>2, CalmIsNoAlarm
<1>3. ASSUME NEW r \in Request, RequestNoCode(r) \/ CodeRight(r) PROVE Excused(s)
  BY <1>3, PerformOverOpen DEF RequestNoCode, CodeRight, sensorVars
<1>4. ASSUME NEW r \in Request, RequestWithCode(r) \/ CodeWrong(r) PROVE Excused(s)
  BY <1>1, <1>4 DEF RequestWithCode, CodeWrong, sensorVars
<1>5. CASE SkipDelay /\ area.state = "arming"
  BY <1>5, FinishOverOpen DEF SkipDelay
<1>6. CASE (SkipDelay /\ area.state # "arming") \/ TriggerService
  BY <1>2, <1>6, TriggerLeads DEF SkipDelay, TriggerService
<1>7. CASE LeaveTimerFinished
  BY <1>0, <1>7, FinishOverOpen DEF LeaveTimerFinished, Due, TimerFits
<1>8. CASE EntryTimerFinished
  <2>1. area' = Trigger(ClearTimer(area), 0) /\ ClearTimer(area) \in Boot
    BY <1>0, <1>8, AreaInBoot, TimerCleared DEF EntryTimerFinished
  <2> QED
    BY <1>2, <2>1, TriggerFits DEF Alarm
<1>9. CASE TriggerTimerFinished
  BY <1>0, <1>9, ExpiredOverOpen DEF TriggerTimerFinished, Due, TimerFits
<1>10. ASSUME NEW t \in Sensor, NEW new \in Readings[t], SensorChanges(t, new)
       PROVE  Excused(s)
  BY <1>10, ChangeOverOpen
<1>11. ASSUME NEW t \in Sensor, DelayOnFinished(t) PROVE Excused(s)
  BY <1>11, DelayOverOpen
<1>12. ASSUME NEW t \in Sensor, ArmTimerFinished(t) PROVE Excused(s)
  <2>1. CASE area.state = "arming"
    BY <1>12, <2>1, FinishOverOpen DEF ArmTimerFinished
  <2>2. CASE area.state # "arming"
    BY <1>1, <1>12, <2>2 DEF ArmTimerFinished
  <2> QED
    BY <2>1, <2>2
<1>13. ASSUME NEW t \in Sensor, Evaluate(t) PROVE Excused(s)
  BY <1>13, EvaluateOverOpen
<1>14. CASE Stop \/ Restore
  BY <1>14 DEF Stop, Restore, Silent
<1>15. CASE Started
  <2>1. /\ UNCHANGED <<area, reading>> /\ area.state \in Mode /\ evaluating' = {}
        /\ s \in Active(area, area.state) \ AllowOpen /\ reading[s] = "open"
    BY <1>15 DEF Started, Silent
  <2> QED
    BY <1>15, <2>1 DEF Started
<1>16. CASE Tick
  <2>1. area'.state = area.state /\ area'.bypassed = area.bypassed
    BY <1>0, <1>16 DEF Tick, Area
  <2>2. delayOn'[s] = Minus1(delayOn[s]) /\ delayOn[s] # 0 /\ delayOn'[s] = None
        /\ delayOn[s] \in Nat \cup {None}
    BY <1>16 DEF Tick, SomethingDue, Silent, Inv, TypeOK
  <2>3. delayOn[s] = None
    BY <2>2, Names DEF Minus1
  <2> QED
    BY <1>16, <2>1, <2>2, <2>3, NewlySilent DEF Tick
<1>17. CASE UNCHANGED vars
  BY <1>1, <1>17 DEF vars
<1>18. ASSUME Lists \/ \E l \in SUBSET Sensor : Listens(l) PROVE FALSE
  BY <1>1, <1>18 DEF Lists, Listens, sensorVars
<1> QED
  BY <1>3, <1>4, <1>5, <1>6, <1>7, <1>8, <1>9, <1>10, <1>11, <1>12, <1>13, <1>14,
     <1>15, <1>16, <1>17, <1>18 DEF Next

(* An area comes to be armed over an open sensor in the five ways only     *)
(* that the code leaves. *)
THEOREM OpeningsAreSeen == Spec => NoSilentOpening
<1>1. Inv /\ LooksAtOpen /\ ListCurrent /\ [Next]_vars
      => [\A s \in Sensor :
            ~Silent(s) /\ Silent(s)'
            => \/ reading[s] = "unavailable" /\ mem[s] = "open"
               \/ area.state = "arming" /\ area'.state = area.revert
               \/ s \in area.bypassed \ area'.bypassed /\ area'.bypassed # {}
               \/ area.state = "triggered" /\ IgnoreBlocking
               \/ Unheard(s)]_vars
  BY SilenceStep DEF Excused
<1> QED BY InvAlways, LooksAlways, CurrentAlways, <1>1, PTL DEF Spec, NoSilentOpening

-----------------------------------------------------------------------------
(***************************************************************************)
(* An area implements its contract, for any modes, sensors and delays, as  *)
(* long as Home Assistant is not stopped.                                  *)
(*                                                                         *)
(* The refinement maps the entity's record to the three fields that its    *)
(* callers see (View).  A lemma per operation says that View turns the     *)
(* operation into the contract's.                                          *)
(***************************************************************************)

View(a) == [state |-> a.state, mode |-> a.mode, revert |-> a.revert]

LEMMA EntityIsView == entity = View(area) /\ entity' = View(area')
BY DEF entity, View

-----------------------------------------------------------------------------
(* Operations *)

(* The timer, the bypassed sensors and the option to bypass are not seen. *)
LEMMA ViewOfTimer ==
  ASSUME NEW a \in Area, NEW k, NEW d
  PROVE  View(SetTimer(a, k, d)) = View(a) /\ View(ClearTimer(a)) = View(a)
BY DEF View, SetTimer, ClearTimer, Area

LEMMA ViewOfBypass ==
  ASSUME NEW a \in Area, NEW b
  PROVE  View([a EXCEPT !.bypassed = b]) = View(a)
BY DEF View, Area

LEMMA ViewOfUpdate ==
  ASSUME NEW a \in Area, NEW new \in State
  PROVE  View(UpdateState(a, new)) = Contract!UpdateState(View(a), new)
<1>1. CASE new = a.state
  BY <1>1 DEF View, UpdateState, Contract!UpdateState
<1>2. CASE new # a.state
  <2> DEFINE b == IF new \in Mode \cup {"disarmed"} THEN ClearTimer(a) ELSE a
  <2>1. b \in Area /\ b.state = a.state /\ b.mode = a.mode /\ b.revert = a.revert
    BY AreaInBoot, TimerCleared
  <2>2. UpdateState(a, new) =
          [b EXCEPT !.state  = new,
                    !.mode   = IF new \in Mode THEN new
                               ELSE IF a.state = "disarmed" /\ new = "triggered"
                                    THEN None ELSE b.mode,
                    !.revert = IF new \in Mode THEN None ELSE b.revert]
    BY <1>2 DEF UpdateState
  <2> HIDE DEF b
  <2> QED
    BY <1>2, <2>1, <2>2 DEF View, Contract!UpdateState, Area
<1> QED
  BY <1>1, <1>2

LEMMA ViewOfFailure ==
  ASSUME NEW a \in Area
  PROVE  View(ArmFailure(a)) = Contract!ArmFailure(View(a))
<1>1. CASE a.revert \notin {None, a.state}
  <2>1. a.revert \in State
    BY <1>1 DEF Area, State
  <2> QED
    BY <1>1, <2>1, ViewOfUpdate DEF ArmFailure, Contract!ArmFailure, View
<1>2. CASE a.revert \in {None, a.state}
  BY <1>2 DEF ArmFailure, Contract!ArmFailure, View, Area
<1> QED
  BY <1>1, <1>2

(* Whether sensors block is the contract's choice. *)
LEMMA ViewOfArmNow ==
  ASSUME NEW a \in Area, a.mode \in Mode, NEW skipValidation \in BOOLEAN
  PROVE  \E ok \in BOOLEAN : View(ArmNow(a, skipValidation)) = Contract!ArmNow(View(a), ok)
<1>1. CASE Blocking(a, a.mode, a.mode) # {} /\ ~skipValidation
  <2>1. View(ArmNow(a, skipValidation)) = Contract!ArmNow(View(a), FALSE)
    BY <1>1, ViewOfFailure DEF ArmNow, Contract!ArmNow
  <2> QED
    BY <2>1
<1>2. CASE ~(Blocking(a, a.mode, a.mode) # {} /\ ~skipValidation)
  <2> DEFINE bypass == Bypass(a, a.mode, a.mode)
  <2> DEFINE b == [a EXCEPT !.bypassed = IF bypass = {} THEN a.bypassed ELSE bypass]
  <2>1. ArmNow(a, skipValidation) = UpdateState(b, a.mode)
    BY <1>2 DEF ArmNow
  <2>2. b \in Area
    <3>1. bypass \subseteq Sensor
      BY BypassInSensor
    <3> QED
      BY <3>1 DEF Area
  <2>3. View(b) = View(a)
    BY ViewOfBypass
  <2>4. View(UpdateState(b, a.mode)) = Contract!UpdateState(View(a), a.mode)
    BY <2>2, <2>3, ViewOfUpdate DEF State
  <2>5. View(a).mode = a.mode
    BY DEF View
  <2>6. View(ArmNow(a, skipValidation)) = Contract!ArmNow(View(a), TRUE)
    BY <2>1, <2>4, <2>5 DEF Contract!ArmNow
  <2> QED
    BY <2>6
<1> QED
  BY <1>1, <1>2

(* The entity a, whose _revert_state a request has set, was held before. *)
Remembers(a, held) ==
  /\ a \in Area /\ held \in Area
  /\ a.state = held.state
  /\ a.revert = IF a.state \in Mode THEN a.state ELSE "disarmed"
  /\ View(a) = [View(held) EXCEPT !.revert = a.revert]

(* A request that has been accepted, in whatever state it lands. *)
LEMMA ViewOfRequest ==
  ASSUME NEW a, NEW held, Remembers(a, held),
         NEW m \in Mode, NEW skip \in BOOLEAN, NEW force \in BOOLEAN
  PROVE  \E ok \in BOOLEAN :
           View(Arm(a, m, skip, force)) = Contract!Requested(View(held), m, skip, ok)
<1> DEFINE b == [a EXCEPT !.mode = m, !.bypassOpen = force]
<1> DEFINE f == [View(a) EXCEPT !.mode = m]
<1> DEFINE e == View(held)
<1> USE DEF Remembers
<1>1. b \in Area /\ b.mode = m
  BY DEF Area
<1>2. View(b) = f
  BY DEF View, Area
<1>3. m \in {n \in Mode : ExitTime[n] > 0} <=> ExitTime[m] # 0
  BY ConfigAssumption
<1>4. Arm(a, m, skip, force) = IF skip \/ ExitTime[m] = 0 THEN ArmNow(b, FALSE)
                               ELSE ArmDelayed(b)
  BY DEF Arm
<1>5. \A ok \in BOOLEAN : Contract!Requested(e, m, skip, ok) =
         IF skip \/ ExitTime[m] = 0 THEN Contract!ArmNow(f, ok)
         ELSE IF ok THEN Contract!UpdateState(f, "arming") ELSE Contract!ArmFailure(f)
  <2>1. [e EXCEPT !.revert = IF e.state \in Mode THEN e.state ELSE "disarmed"] = View(a)
    BY DEF View
  <2> HIDE DEF e
  <2> QED
    BY <1>3, <2>1 DEF Contract!Requested, Contract!Arm
<1> HIDE DEF b, f, e
<1>6. CASE skip \/ ExitTime[m] = 0
  <2>1. PICK ok \in BOOLEAN : View(ArmNow(b, FALSE)) = Contract!ArmNow(View(b), ok)
    BY <1>1, ViewOfArmNow
  <2> QED
    BY <1>2, <1>4, <1>5, <1>6, <2>1 DEF e
<1>7. CASE ~(skip \/ ExitTime[m] = 0)
  <2>1. CASE Blocking(b, b.mode, "arming") # {}
    <3>1. View(ArmDelayed(b)) = Contract!ArmFailure(f)
      BY <1>1, <1>2, <2>1, ViewOfFailure DEF ArmDelayed
    <3> QED
      BY <1>4, <1>5, <1>7, <3>1 DEF e
  <2>2. CASE Blocking(b, b.mode, "arming") = {}
    <3> DEFINE c == SetTimer(b, "leave", ExitTime[b.mode])
    <3>1. c \in Area /\ View(c) = f
      BY <1>1, <1>2, AreaInBoot, TimerSet, ViewOfTimer, ConfigAssumption DEF TimerKind
    <3>2. View(UpdateState(c, "arming")) = Contract!UpdateState(f, "arming")
      BY <3>1, ViewOfUpdate DEF State, Countdown
    <3>3. View(ArmDelayed(b)) = Contract!UpdateState(f, "arming")
      BY <2>2, <3>2 DEF ArmDelayed
    <3> QED
      BY <1>4, <1>5, <1>7, <3>3 DEF e
  <2> QED
    BY <2>1, <2>2
<1> QED
  BY <1>6, <1>7

LEMMA ViewOfTrigger ==
  ASSUME NEW a \in Area, NEW delay \in Nat \cup {None},
         delay = 0 \/ a.state \in Mode \cup {"pending"}
  PROVE  \/ View(Trigger(a, delay)) = View(a)
         \/ \E now \in BOOLEAN : /\ now \/ a.state \in Mode \cup {"pending"}
                                 /\ View(Trigger(a, delay)) = Contract!Triggered(View(a), now)
<1> DEFINE d == EffectiveDelay(a, delay)
<1>1. ArmMode(a) = Contract!ArmMode(View(a))
  BY DEF ArmMode, Contract!ArmMode, View
<1>2. d \in Nat /\ (delay = 0 => d = 0)
  BY AreaInBoot, DelayInNat
<1>3. CASE d = 0
  <2> DEFINE b == IF SirenTime(a) = 0 THEN ClearTimer(a)
                  ELSE SetTimer(a, "trigger", SirenTime(a))
  <2>1. b \in Area /\ View(b) = View(a)
    <3>1. CASE SirenTime(a) = 0
      BY <3>1, AreaInBoot, TimerCleared, ViewOfTimer
    <3>2. CASE SirenTime(a) # 0
      <4>1. SirenTime(a) \in Nat /\ "trigger" \in TimerKind /\ a \in Boot
        BY AreaInBoot, SirenTimeInNat DEF TimerKind
      <4>2. b = SetTimer(a, "trigger", SirenTime(a))
        BY <3>2
      <4> HIDE DEF b
      <4> QED
        BY <4>1, <4>2, TimerSet, ViewOfTimer
    <3> QED
      BY <3>1, <3>2
  <2>2. Trigger(a, delay) = UpdateState(b, "triggered")
    BY <1>3 DEF Trigger, Sound
  <2> HIDE DEF b
  <2>3. View(Trigger(a, delay)) = Contract!UpdateState(View(a), "triggered")
    BY <2>1, <2>2, ViewOfUpdate DEF State
  <2>4. View(Trigger(a, delay)) = Contract!Triggered(View(a), TRUE)
    BY <2>3 DEF Contract!Triggered
  <2> QED
    BY <2>4
<1>4. CASE d # 0 /\ a.state = "pending" /\ d >= a.left
  BY <1>4 DEF Trigger
<1>5. CASE d # 0 /\ ~(a.state = "pending" /\ d >= a.left)
  <2>1. Trigger(a, delay) = UpdateState(SetTimer(a, "entry", d), "pending")
    BY <1>5 DEF Trigger
  <2>2. SetTimer(a, "entry", d) \in Area /\ View(SetTimer(a, "entry", d)) = View(a)
    BY <1>2, AreaInBoot, TimerSet, ViewOfTimer DEF TimerKind
  <2>3. ArmMode(a) # None
    BY <1>5 DEF EffectiveDelay
  <2>4. View(Trigger(a, delay)) = Contract!UpdateState(View(a), "pending")
    BY <2>1, <2>2, ViewOfUpdate DEF State, Countdown
  <2>5. View(Trigger(a, delay)) = Contract!Triggered(View(a), FALSE)
    BY <1>1, <2>3, <2>4 DEF Contract!Triggered
  <2> QED
    BY <1>2, <1>5, <2>5
<1> QED
  BY <1>3, <1>4, <1>5

LEMMA ViewOfExpired ==
  ASSUME NEW a \in Area, a.state = "triggered"
  PROVE  \E ok \in BOOLEAN :
           View(TriggerExpired(a)) = Contract!SirenOver(View(a), DisarmAfterTrigger, ok)
<1> DEFINE b == ClearTimer(a)
<1>1. b \in Area /\ View(b) = View(a) /\ b.state = a.state /\ b.mode = a.mode
  BY AreaInBoot, TimerCleared, ViewOfTimer
<1>2. Contract!Rearms(View(a), DisarmAfterTrigger)
      <=> ~(DisarmAfterTrigger \/ ArmMode(a) = None)
  BY DEF Contract!Rearms, Contract!ArmMode, ArmMode, View
<1> HIDE DEF b
<1>3. CASE DisarmAfterTrigger \/ ArmMode(a) = None
  <2> DEFINE c == [b EXCEPT !.bypassed = {}]
  <2>1. c \in Area /\ View(c) = View(a)
    BY <1>1, ViewOfBypass DEF Area
  <2>2. TriggerExpired(a) = UpdateState(c, "disarmed")
    BY <1>3 DEF TriggerExpired, b
  <2> HIDE DEF c
  <2>3. View(TriggerExpired(a)) = Contract!UpdateState(View(a), "disarmed")
    BY <2>1, <2>2, ViewOfUpdate DEF State
  <2>4. View(TriggerExpired(a)) = Contract!SirenOver(View(a), DisarmAfterTrigger, TRUE)
    BY <1>2, <1>3, <2>3 DEF Contract!SirenOver, Contract!Disarmed
  <2> QED
    BY <2>4
<1>4. CASE ~(DisarmAfterTrigger \/ ArmMode(a) = None)
  <2> DEFINE f == [View(a) EXCEPT !.revert = "disarmed"]
  <2>1. b.mode \in Mode
    BY <1>1, <1>4 DEF ArmMode, Area
  <2>2. \A ok \in BOOLEAN : Contract!SirenOver(View(a), DisarmAfterTrigger, ok)
                            = Contract!ArmNow(f, ok)
    BY <1>2, <1>4 DEF Contract!SirenOver
  <2>3. CASE ~IgnoreBlocking
    <3> DEFINE c == [b EXCEPT !.revert = "disarmed", !.bypassOpen = FALSE]
    <3>1. TriggerExpired(a) = ArmNow(c, FALSE)
      BY <1>4, <2>3 DEF TriggerExpired, b
    <3>2. c \in Area /\ c.mode = b.mode
      BY <1>1 DEF Area
    <3>3. View(c) = [View(b) EXCEPT !.revert = "disarmed"]
      BY <1>1 DEF View, Area
    <3> HIDE DEF c
    <3>4. \E ok \in BOOLEAN : View(ArmNow(c, FALSE)) = Contract!ArmNow(View(c), ok)
      BY <2>1, <3>2, ViewOfArmNow
    <3> QED
      BY <1>1, <2>2, <3>1, <3>3, <3>4
  <2>4. CASE IgnoreBlocking
    <3> DEFINE bypass == Bypass(b, b.mode, b.mode)
    <3> DEFINE c == [b EXCEPT !.bypassed = IF bypass = {} THEN b.bypassed ELSE bypass]
    <3>1. TriggerExpired(a) = UpdateState(c, b.mode)
      BY <1>4, <2>4 DEF TriggerExpired, ArmNow, b
    <3>2. c \in Area /\ View(c) = View(a)
      <4>1. bypass \subseteq Sensor
        BY <1>1, BypassInSensor
      <4> QED
        BY <1>1, <4>1, ViewOfBypass DEF Area
    <3> HIDE DEF c
    <3>3. View(TriggerExpired(a)) = Contract!UpdateState(View(a), a.mode)
      BY <1>1, <2>1, <3>1, <3>2, ViewOfUpdate DEF State
    <3>4. Contract!UpdateState(View(a), a.mode) = Contract!UpdateState(f, a.mode)
      BY <1>1, <2>1, Names DEF Contract!UpdateState, View
    <3>5. f.mode = a.mode
      BY DEF View
    <3>6. View(TriggerExpired(a)) = Contract!ArmNow(f, TRUE)
      BY <3>3, <3>4, <3>5 DEF Contract!ArmNow
    <3> QED
      BY <2>2, <3>6
  <2> QED
    BY <2>3, <2>4
<1> QED
  BY <1>3, <1>4

-----------------------------------------------------------------------------
(* Steps *)

Promised == entity' = entity \/ Contract!Next

LEMMA SameKept == ASSUME UNCHANGED area PROVE Promised
BY DEF Promised, entity

LEMMA TriggerKept ==
  ASSUME NEW a \in Area, View(a) = View(area), a.state = area.state,
         NEW delay \in Nat \cup {None},
         delay = 0 \/ a.state \in Mode \cup {"pending"},
         area' = Trigger(a, delay)
  PROVE  Promised
<1>1. entity.state = area.state
  BY DEF entity
<1>2. CASE View(Trigger(a, delay)) = View(a)
  BY <1>2, EntityIsView DEF Promised
<1>3. ASSUME NEW now \in BOOLEAN, now \/ a.state \in Mode \cup {"pending"},
             View(Trigger(a, delay)) = Contract!Triggered(View(a), now)
      PROVE  Promised
  <2>1. Contract!IsTriggered(now)
    BY <1>1, <1>3, EntityIsView DEF Contract!IsTriggered
  <2> QED
    BY <2>1 DEF Promised, Contract!Next
<1> QED
  BY <1>2, <1>3, ViewOfTrigger

LEMMA FinishKept ==
  ASSUME NEW a \in Area, View(a) = View(area), a.mode \in Mode,
         area.state = "arming", area' = FinishArming(a)
  PROVE  Promised
<1>1. PICK ok \in BOOLEAN : View(ArmNow(a, FALSE)) = Contract!ArmNow(View(a), ok)
  BY ViewOfArmNow
<1>2. Contract!ArmingEnds(ok)
  BY <1>1, EntityIsView DEF Contract!ArmingEnds, FinishArming, entity
<1> QED
  BY <1>2 DEF Promised, Contract!Next

LEMMA PerformKept ==
  ASSUME Inv, NEW r \in Request, Perform(r)
  PROVE  Promised
<1>0. area \in Area
  BY InvIsFits DEF Fits
<1>1. CASE r.mode = "disarmed"
  <2> DEFINE b == [area EXCEPT !.bypassed = {}]
  <2>1. area' = UpdateState(b, "disarmed")
    BY <1>1 DEF Perform
  <2>2. b \in Area /\ View(b) = View(area)
    BY <1>0, ViewOfBypass DEF Area
  <2> HIDE DEF b
  <2>3. Contract!IsDisarmed
    BY <2>1, <2>2, ViewOfUpdate, EntityIsView
       DEF Contract!IsDisarmed, Contract!Disarmed, State
  <2> QED
    BY <2>3 DEF Promised, Contract!Next
<1>2. CASE r.mode # "disarmed"
  <2> DEFINE fresh  == [area EXCEPT !.revert = "disarmed", !.bypassed = {}]
             switch == [area EXCEPT !.revert = area.state]
             a == IF area.state \in Mode THEN switch ELSE fresh
  <2>1. r.mode \in Mode /\ r.skip \in BOOLEAN /\ r.force \in BOOLEAN
    BY <1>2 DEF Request
  <2>2. area' = Arm(a, r.mode, r.skip, r.force)
    BY <1>2 DEF Perform
  <2>3. /\ a \in Area /\ a.state = area.state
        /\ a.revert = IF area.state \in Mode THEN area.state ELSE "disarmed"
    BY <1>0 DEF Area
  <2>4. View(a) = [View(area) EXCEPT !.revert = a.revert]
    BY <1>0 DEF View, Area
  <2> HIDE DEF a
  <2>5. PICK ok \in BOOLEAN : View(area') = Contract!Requested(View(area), r.mode, r.skip, ok)
    <3>1. Remembers(a, area)
      BY <1>0, <2>3, <2>4 DEF Remembers
    <3>2. \E ok \in BOOLEAN :
            View(Arm(a, r.mode, r.skip, r.force)) = Contract!Requested(View(area), r.mode, r.skip, ok)
      BY <2>1, <3>1, ViewOfRequest
    <3> QED
      BY <2>2, <3>2
  <2>6. Contract!IsRequested(r.mode, r.skip, ok)
    BY <2>5, EntityIsView DEF Contract!IsRequested
  <2> QED
    BY <2>1, <2>6 DEF Promised, Contract!Next
<1> QED
  BY <1>1, <1>2

LEMMA SensorTriggerKept ==
  ASSUME Inv, NEW s \in Sensor, area' = SensorTrigger(area, s)
  PROVE  Promised
<1> DEFINE delay == IF s \in UseEntryDelay THEN EntryDelay[s] ELSE 0
<1>0. area \in Area /\ delay \in Nat \cup {None}
  BY InvIsFits, ConfigAssumption DEF Fits
<1>1. CASE s \in AlwaysOn
  <2>1. area' = Trigger(area, 0)
    BY <1>1 DEF SensorTrigger
  <2> QED
    BY <1>0, <2>1, TriggerKept
<1>2. CASE s \notin AlwaysOn /\ area.state = "arming"
  <2>1. area' = ArmFailure(area)
    BY <1>2, Names DEF SensorTrigger
  <2>2. Contract!ArmingEnds(FALSE)
    BY <1>0, <1>2, <2>1, ViewOfFailure, EntityIsView
       DEF Contract!ArmingEnds, Contract!ArmNow, entity
  <2> QED
    BY <2>2 DEF Promised, Contract!Next
<1>3. CASE s \notin AlwaysOn /\ area.state \in Mode \cup {"pending"}
  <2>1. area' = Trigger(area, delay)
    BY <1>3, Names DEF SensorTrigger
  <2> HIDE DEF delay
  <2> QED
    BY <1>0, <1>3, <2>1, TriggerKept
<1>4. CASE s \notin AlwaysOn /\ area.state \notin Mode \cup {"pending", "arming"}
  <2>1. area' = area
    BY <1>4 DEF SensorTrigger
  <2> QED
    BY <2>1, SameKept
<1> QED
  BY <1>1, <1>2, <1>3, <1>4

LEMMA HandleKept ==
  ASSUME Inv, NEW s \in Sensor, NEW old, NEW new, Handle(s, old, new)
  PROVE  Promised
BY SameKept, SensorTriggerKept DEF Handle

(* Every step of the area but the start of Home Assistant. *)
LEMMA StepsKept ==
  ASSUME Inv, [Next]_vars, ~Restore
  PROVE  Promised
<1>0. area \in Area /\ area \in Boot /\ TimerFits(area) /\ ModeFits(area)
  BY InvIsFits, AreaInBoot DEF Fits
<1>1. ASSUME NEW r \in Request, RequestNoCode(r) PROVE Promised
  BY <1>1, PerformKept DEF RequestNoCode
<1>2. ASSUME NEW r \in Request, RequestWithCode(r) \/ CodeWrong(r) PROVE Promised
  BY <1>2, SameKept DEF RequestWithCode, CodeWrong
<1>3. ASSUME NEW r \in Request, CodeRight(r) PROVE Promised
  BY <1>3, PerformKept DEF CodeRight
<1>4. CASE SkipDelay
  <2>1. CASE area.state = "arming"
    BY <1>4, <2>1, ArmingShape, FinishKept DEF SkipDelay
  <2>2. CASE area.state # "arming"
    BY <1>0, <1>4, <2>2, TriggerKept DEF SkipDelay
  <2> QED
    BY <2>1, <2>2
<1>5. CASE TriggerService
  BY <1>0, <1>5, TriggerKept DEF TriggerService
<1>6. CASE LeaveTimerFinished
  <2> DEFINE a == ClearTimer(area)
  <2>1. area.state = "arming" /\ area' = FinishArming(a)
    BY <1>0, <1>6 DEF LeaveTimerFinished, Due, TimerFits
  <2>2. a \in Area /\ a.mode \in Mode /\ View(a) = View(area)
    BY <1>0, <2>1, ArmingShape, TimerCleared, ViewOfTimer
  <2> QED
    BY <2>1, <2>2, FinishKept
<1>7. CASE EntryTimerFinished
  <2> DEFINE a == ClearTimer(area)
  <2>1. area' = Trigger(a, 0)
    BY <1>7 DEF EntryTimerFinished
  <2>2. a \in Area /\ a.state = area.state /\ View(a) = View(area)
    BY <1>0, TimerCleared, ViewOfTimer
  <2> QED
    BY <2>1, <2>2, TriggerKept
<1>8. CASE TriggerTimerFinished
  <2>1. area.state = "triggered" /\ area' = TriggerExpired(area)
    BY <1>0, <1>8 DEF TriggerTimerFinished, Due, TimerFits
  <2>2. PICK ok \in BOOLEAN :
          View(area') = Contract!SirenOver(View(area), DisarmAfterTrigger, ok)
    BY <1>0, <2>1, ViewOfExpired
  <2>3. Contract!SirenEnds(DisarmAfterTrigger, ok)
    BY <2>1, <2>2, EntityIsView DEF Contract!SirenEnds, entity
  <2> QED
    BY <2>3, ConfigAssumption DEF Promised, Contract!Next
<1>9. ASSUME NEW s \in Sensor, NEW new \in Readings[s], SensorChanges(s, new)
      PROVE  Promised
  BY <1>9, HandleKept, SameKept DEF SensorChanges
<1>10. ASSUME NEW s \in Sensor, DelayOnFinished(s) PROVE Promised
  BY <1>10, SensorTriggerKept, SameKept DEF DelayOnFinished
<1>11. ASSUME NEW s \in Sensor, ArmTimerFinished(s) PROVE Promised
  <2>1. CASE area.state = "arming"
    BY <1>11, <2>1, ArmingShape, FinishKept DEF ArmTimerFinished
  <2>2. CASE area.state # "arming"
    BY <1>11, <2>2, SameKept DEF ArmTimerFinished
  <2> QED
    BY <2>1, <2>2
<1>12. ASSUME NEW s \in Sensor, Evaluate(s) PROVE Promised
  BY <1>12, HandleKept, SameKept DEF Evaluate
<1>13. CASE Stop \/ Started \/ UNCHANGED vars
  BY <1>13, SameKept DEF Stop, Started, vars
<1>14. CASE Tick
  <2>1. CASE area.timer = "none"
    BY <1>14, <2>1, SameKept DEF Tick
  <2>2. CASE area.timer # "none"
    <3>1. area' = [area EXCEPT !.left = area.left - 1]
      BY <1>14, <2>2 DEF Tick
    <3>2. View(area') = View(area)
      BY <1>0, <3>1 DEF View, Area
    <3> QED
      BY <3>2, EntityIsView DEF Promised
  <2> QED
    BY <2>1, <2>2
<1>15. ASSUME Lists \/ \E l \in SUBSET Sensor : Listens(l) PROVE Promised
  BY <1>15, SameKept DEF Lists, Listens
<1> QED
  BY <1>1, <1>2, <1>3, <1>4, <1>5, <1>6, <1>7, <1>8, <1>9, <1>10, <1>11, <1>12, <1>13, <1>14,
     <1>15 DEF Next

LEMMA NeverDown == ~MayRestart => (Spec => [](phase = "running"))
<1> SUFFICES ASSUME ~MayRestart PROVE Spec => [](phase = "running")
  OBVIOUS
<1>1. Init => phase = "running"
  BY DEF Init
<1>2. phase = "running" /\ [Next]_vars => (phase = "running")'
  BY DEF Next, vars, RequestNoCode, RequestWithCode, CodeRight, CodeWrong, SkipDelay,
         TriggerService, LeaveTimerFinished, EntryTimerFinished, TriggerTimerFinished,
         SensorChanges, DelayOnFinished, ArmTimerFinished, Evaluate, Lists, Listens,
         Stop, Restore, Started, Tick
<1> QED
  BY <1>1, <1>2, PTL DEF Spec

(* While Home Assistant is not stopped, an area does no more than          *)
(* AreaContract says (AlarmoAreaEntity as the master and the services see  *)
(* it). *)
THEOREM AreaImplementsContract == ~MayRestart => (Spec => KeepsContract)
<1> SUFFICES ASSUME ~MayRestart PROVE Spec => KeepsContract
  OBVIOUS
<1>1. Init => Contract!Init
  BY DEF Init, Contract!Init, Contract!AtRest, entity
<1>2. Inv /\ phase = "running" /\ [Next]_vars => [Contract!Next]_entity
  <2>1. ASSUME phase = "running" PROVE ~Restore
    BY <2>1 DEF Restore
  <2> QED
    BY <2>1, StepsKept DEF Promised
<1> QED
  BY <1>1, <1>2, InvAlways, NeverDown, PTL DEF Spec, KeepsContract, Contract!Spec
=============================================================================
