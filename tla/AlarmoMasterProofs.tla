------------------------- MODULE AlarmoMasterProofs -------------------------
(***************************************************************************)
(* Whatever the master does to its areas, and in whatever order it hears   *)
(* of them, the mode of an area fits its state, no alarm is silenced that  *)
(* nobody has dealt with, and the master shows what its areas amount to or *)
(* is about to look: for any areas, modes, delays and signals under way.   *)
(***************************************************************************)
EXTENDS AlarmoMaster, WellFoundedInduction, TLAPS

Fits(e) == /\ e.state \in Mode => e.mode = e.state
           /\ e.state \in {"arming", "pending"} => e.mode \in Mode

-----------------------------------------------------------------------------
(* The operations of an area *)

(* An entity can be put in any state. *)
LEMMA UpdateTypes ==
  ASSUME NEW e \in Entity, NEW new \in State
  PROVE  UpdateState(e, new) \in Entity
BY MasterAssumption DEF UpdateState, Entity, State

(* A state that is new to the entity brings its mode, or finds it there.   *)
LEMMA UpdateFits ==
  ASSUME NEW e \in Entity, NEW new \in State,
         e.state = new => Fits(e),
         new \in {"arming", "pending"} => e.mode \in Mode
  PROVE  Fits(UpdateState(e, new))
BY MasterAssumption DEF UpdateState, Entity, State, Fits

LEMMA FailureTypes ==
  ASSUME NEW e \in Entity
  PROVE  ArmFailure(e) \in Entity
<1>1. CASE e.revert \notin {None, e.state}
  <2>1. e.revert \in State
    BY <1>1 DEF Entity, State
  <2> QED
    BY <1>1, <2>1, UpdateTypes DEF ArmFailure
<1>2. CASE e.revert \in {None, e.state}
  BY <1>2, MasterAssumption DEF ArmFailure, Entity, State
<1> QED
  BY <1>1, <1>2

(* A failed arming leaves a mode that fits, if it knows what to go back to. *)
LEMMA FailureFits ==
  ASSUME NEW e \in Entity, e.revert = None => Fits(e)
  PROVE  Fits(ArmFailure(e))
<1>1. CASE e.revert \notin {None, e.state}
  <2>1. e.revert \in Mode \cup {"disarmed"}
    BY <1>1 DEF Entity
  <2>2. Fits(UpdateState(e, e.revert))
    BY <1>1, <2>1, UpdateFits, MasterAssumption DEF State
  <2> QED
    BY <1>1, <2>2 DEF ArmFailure
<1>2. CASE e.revert \in {None, e.state}
  BY <1>2, MasterAssumption DEF ArmFailure, Entity, State, Fits
<1> QED
  BY <1>1, <1>2

LEMMA ArmNowTypes ==
  ASSUME NEW e \in Entity, e.mode \in Mode, NEW ok \in BOOLEAN
  PROVE  ArmNow(e, ok) \in Entity
BY UpdateTypes, FailureTypes DEF ArmNow, State

LEMMA ArmNowFits ==
  ASSUME NEW e \in Entity, e.mode \in Mode, NEW ok \in BOOLEAN,
         e.revert = None => Fits(e)
  PROVE  Fits(ArmNow(e, ok))
<1>1. CASE ok
  <2>1. e.mode \in State /\ e.mode \notin {"arming", "pending"}
    BY MasterAssumption DEF State
  <2>2. e.state = e.mode => Fits(e)
    BY MasterAssumption DEF Fits
  <2> QED
    BY <1>1, <2>1, <2>2, UpdateFits DEF ArmNow
<1>2. CASE ~ok
  BY <1>2, FailureFits DEF ArmNow
<1> QED
  BY <1>1, <1>2

(* A request that may land in any state. *)
LEMMA RequestedFits ==
  ASSUME NEW e \in Entity, NEW m \in Mode, NEW skip \in BOOLEAN, NEW ok \in BOOLEAN
  PROVE  Requested(e, m, skip, ok) \in Entity /\ Fits(Requested(e, m, skip, ok))
<1> DEFINE f == [e EXCEPT !.revert = IF e.state \in Mode THEN e.state ELSE "disarmed"]
<1> DEFINE g == [f EXCEPT !.mode = m]
<1>1. g \in Entity /\ g.mode = m /\ g.revert # None
  BY MasterAssumption DEF Entity, State
<1> HIDE DEF f, g
<1>2. Requested(e, m, skip, ok) = IF skip \/ m \notin ExitDelay THEN ArmNow(g, ok)
                                  ELSE IF ok THEN UpdateState(g, "arming")
                                  ELSE ArmFailure(g)
  BY DEF Requested, Arm, f, g
<1>3. ArmNow(g, ok) \in Entity /\ Fits(ArmNow(g, ok))
  BY <1>1, ArmNowTypes, ArmNowFits
<1>4. UpdateState(g, "arming") \in Entity /\ Fits(UpdateState(g, "arming"))
  <2>1. g.state = "arming" => Fits(g)
    BY <1>1, MasterAssumption DEF Fits
  <2> QED
    BY <1>1, <2>1, UpdateTypes, UpdateFits DEF State
<1>5. ArmFailure(g) \in Entity /\ Fits(ArmFailure(g))
  BY <1>1, FailureTypes, FailureFits
<1> QED
  BY <1>2, <1>3, <1>4, <1>5

LEMMA DisarmedFits ==
  ASSUME NEW e \in Entity
  PROVE  Disarmed(e) \in Entity /\ Fits(Disarmed(e))
<1>1. e.state = "disarmed" => Fits(e)
  BY MasterAssumption DEF Fits
<1> QED
  BY <1>1, UpdateTypes, UpdateFits DEF Disarmed, State

LEMMA TriggeredFits ==
  ASSUME NEW e \in Entity, NEW now \in BOOLEAN
  PROVE  Triggered(e, now) \in Entity /\ Fits(Triggered(e, now))
<1>1. CASE now \/ ArmMode(e) = None
  <2>1. e.state = "triggered" => Fits(e)
    BY MasterAssumption DEF Fits
  <2> QED
    BY <1>1, <2>1, UpdateTypes, UpdateFits DEF Triggered, State
<1>2. CASE ~now /\ ArmMode(e) # None
  <2>1. e.mode \in Mode
    BY <1>2 DEF ArmMode, Entity
  <2>2. e.state = "pending" => Fits(e)
    BY <2>1, MasterAssumption DEF Fits
  <2> QED
    BY <1>2, <2>1, <2>2, UpdateTypes, UpdateFits DEF Triggered, State
<1> QED
  BY <1>1, <1>2

LEMMA SirenOverFits ==
  ASSUME NEW e \in Entity, NEW disarm \in BOOLEAN, NEW ok \in BOOLEAN
  PROVE  SirenOver(e, disarm, ok) \in Entity /\ Fits(SirenOver(e, disarm, ok))
<1>1. CASE Rearms(e, disarm)
  <2> DEFINE f == [e EXCEPT !.revert = "disarmed"]
  <2>1. f \in Entity /\ f.mode \in Mode /\ f.revert # None
    BY <1>1, MasterAssumption DEF Rearms, ArmMode, Entity, State
  <2> HIDE DEF f
  <2>2. ArmNow(f, ok) \in Entity /\ Fits(ArmNow(f, ok))
    BY <2>1, ArmNowTypes, ArmNowFits
  <2> QED
    BY <1>1, <2>2 DEF SirenOver, f
<1>2. CASE ~Rearms(e, disarm)
  BY <1>2, DisarmedFits DEF SirenOver
<1> QED
  BY <1>1, <1>2

(* Putting back to a mode or to rest. *)
LEMMA PutBackFits ==
  ASSUME NEW areas \in [Area -> Entity], NEW state \in Mode \cup {"disarmed", None}
  PROVE  /\ PutBack(areas, state) \in [Area -> Entity]
         /\ (\A a \in Area : Fits(areas[a])) => \A a \in Area : Fits(PutBack(areas, state)[a])
<1>1. CASE state = None
  BY <1>1 DEF PutBack
<1>2. CASE state # None
  <2>1. state \in State /\ state \notin {"arming", "pending"}
    BY <1>2, MasterAssumption DEF State
  <2>2. ASSUME NEW a \in Area
        PROVE  /\ UpdateState(areas[a], state) \in Entity
               /\ Fits(areas[a]) => Fits(UpdateState(areas[a], state))
    BY <2>1, UpdateTypes, UpdateFits
  <2> QED
    BY <1>2, <2>2 DEF PutBack
<1> QED
  BY <1>1, <1>2

-----------------------------------------------------------------------------
(* The master and its areas *)

Fields == area \in [Area -> Entity] /\ master \in Master /\ crashed \in BOOLEAN

AllFit == crashed \/ \A a \in Area : Fits(area[a])

IInv == Fields /\ AllFit

LEMMA IInvInit == Init => IInv
<1> SUFFICES ASSUME Init PROVE IInv
  OBVIOUS
<1>1. AtRest \in Entity /\ Fits(AtRest)
  BY MasterAssumption DEF AtRest, Entity, State, Fits
<1>2. area \in [Area -> Entity] /\ \A a \in Area : Fits(area[a])
  BY <1>1 DEF Init
<1>3. master \in Master
  BY DEF Init, Master, State
<1> QED
  BY <1>2, <1>3 DEF Init, IInv, Fields, AllFit

(* A step of one area that leaves it with a mode that fits. *)
LEMMA StepsKeep ==
  ASSUME IInv, NEW a \in Area, NEW e \in Entity, Fits(e), NEW more, Steps(a, e, more)
  PROVE  IInv'
BY DEF IInv, Fields, AllFit, Fits, Steps

LEMMA AreaNextKeeps == IInv /\ AreaNext => IInv'
<1> SUFFICES ASSUME IInv, AreaNext PROVE IInv'
  OBVIOUS
<1>1. PICK a \in Area :
        \/ \E m \in Mode, skip, ok \in BOOLEAN : AreaArms(a, m, skip, ok)
        \/ AreaDisarms(a)
        \/ \E ok \in BOOLEAN : ArmingEnds(a, ok)
        \/ \E now \in BOOLEAN : AreaTriggers(a, now)
        \/ \E disarm, ok \in BOOLEAN : SirenEnds(a, disarm, ok)
  BY DEF AreaNext
<1> DEFINE e == area[a]
<1>2. e \in Entity /\ (crashed \/ Fits(e))
  BY DEF IInv, Fields, AllFit
<1>3. ASSUME NEW m \in Mode, NEW skip \in BOOLEAN, NEW ok \in BOOLEAN,
             AreaArms(a, m, skip, ok)
      PROVE  IInv'
  BY <1>2, <1>3, RequestedFits, StepsKeep DEF AreaArms
<1>4. CASE AreaDisarms(a)
  BY <1>2, <1>4, DisarmedFits, StepsKeep DEF AreaDisarms
<1>5. ASSUME NEW ok \in BOOLEAN, ArmingEnds(a, ok)
      PROVE  IInv'
  <2>1. e.mode \in Mode /\ Fits(e)
    BY <1>2, <1>5, MasterAssumption DEF ArmingEnds, Entity, Fits
  <2>2. ArmNow(e, ok) \in Entity /\ Fits(ArmNow(e, ok))
    BY <1>2, <2>1, ArmNowTypes, ArmNowFits
  <2> QED
    BY <1>5, <2>2, StepsKeep DEF ArmingEnds
<1>6. ASSUME NEW now \in BOOLEAN, AreaTriggers(a, now)
      PROVE  IInv'
  BY <1>2, <1>6, TriggeredFits, StepsKeep DEF AreaTriggers
<1>7. ASSUME NEW disarm \in BOOLEAN, NEW ok \in BOOLEAN, SirenEnds(a, disarm, ok)
      PROVE  IInv'
  BY <1>2, <1>7, SirenOverFits, StepsKeep DEF SirenEnds
<1> QED
  BY <1>1, <1>3, <1>4, <1>5, <1>6, <1>7

(* Arming all areas, and putting them back if one of them does not allow it. *)
LEMMA ArmAllKeeps ==
  ASSUME IInv, NEW m \in Mode, NEW skip \in BOOLEAN, NEW blocked,
         NEW revert \in Mode \cup {"disarmed", None},
         ArmAll(m, skip, blocked, revert), UNCHANGED crashed
  PROVE  IInv'
<1> DEFINE tried == [a \in Area |-> IF a \in Taken(m, skip)
                                    THEN Requested(area[a], m, skip, a \notin blocked)
                                    ELSE area[a]]
<1>1. area \in [Area -> Entity] /\ master \in Master /\ crashed \in BOOLEAN
  BY DEF IInv, Fields
<1>2. ASSUME NEW a \in Area
      PROVE  tried[a] \in Entity /\ (Fits(area[a]) => Fits(tried[a]))
  BY <1>1, RequestedFits
<1>3. tried \in [Area -> Entity]
  BY <1>2
<1>4. area' = IF blocked = {} THEN tried ELSE PutBack(tried, revert)
  BY DEF ArmAll
<1>5. master' = [master EXCEPT !.revert = IF blocked = {} THEN revert ELSE m,
                               !.target = IF blocked = {} THEN m ELSE None]
  BY DEF ArmAll
<1> HIDE DEF tried
<1>6. area' \in [Area -> Entity]
  BY <1>3, <1>4, PutBackFits
<1>7. AllFit'
  <2> SUFFICES ASSUME ~crashed PROVE \A a \in Area : Fits(area'[a])
    BY DEF AllFit, Fits
  <2>1. \A a \in Area : Fits(tried[a])
    BY <1>2 DEF IInv, AllFit
  <2> QED
    BY <1>3, <1>4, <2>1, PutBackFits
<1>8. master' \in Master
  BY <1>1, <1>5 DEF Master
<1> QED
  BY <1>1, <1>6, <1>7, <1>8 DEF IInv, Fields

(* What the master shows is a state and a mode. *)
LEMMA CombinedTypes == Combined \in State \cup {None} /\ CommonMode \in Mode \cup {None}
<1> DEFINE states == {area[a].state : a \in Area}
<1>1. CASE \E s \in Mode \cup {"disarmed"} : states = {s}
  <2>1. (CHOOSE s \in Mode \cup {"disarmed"} : states = {s}) \in Mode \cup {"disarmed"}
    BY <1>1
  <2> QED
    BY <2>1 DEF Combined, CommonMode, State
<1>2. CASE ~\E s \in Mode \cup {"disarmed"} : states = {s}
  BY <1>2 DEF Combined, CommonMode, State
<1> QED
  BY <1>1, <1>2

LEMMA IInvStep == IInv /\ [Next]_vars => IInv'
<1> SUFFICES ASSUME IInv, [Next]_vars PROVE IInv'
  OBVIOUS
<1>1. area \in [Area -> Entity] /\ master \in Master /\ crashed \in BOOLEAN
  BY DEF IInv, Fields
<1>2. CASE AreaNext
  BY <1>2, AreaNextKeeps
<1>3. ASSUME NEW blocked \in SUBSET Area, NEW m \in Mode, NEW skip \in BOOLEAN,
             ArmRight(m, skip, blocked)
      PROVE  IInv'
  BY <1>1, <1>3, ArmAllKeeps DEF ArmRight
<1>4. ASSUME NEW blocked \in SUBSET Area, SkipsExit(blocked)
      PROVE  IInv'
  <2>1. master.mode \in Mode /\ master.revert \in Mode \cup {"disarmed", None}
    BY <1>1, <1>4 DEF SkipsExit, Master
  <2> QED
    BY <1>4, <2>1, ArmAllKeeps DEF SkipsExit
<1>5. CASE DisarmRight
  <2>1. ASSUME NEW a \in Area PROVE area'[a] \in Entity /\ Fits(area'[a])
    BY <1>1, <1>5, DisarmedFits DEF DisarmRight, DisarmAll
  <2> QED
    BY <1>1, <1>5, <2>1 DEF IInv, Fields, AllFit, Fits, DisarmRight, DisarmAll
<1>6. CASE SkipsExitOfMixed
  <2>1. master' \in Master
    BY <1>1, <1>6 DEF SkipsExitOfMixed, Master
  <2>2. CASE UNCHANGED <<area, crashed>>
    BY <1>1, <2>1, <2>2 DEF IInv, Fields, AllFit, Fits
  <2>3. CASE ~UNCHANGED <<area, crashed>>
    <3>1. PICK a \in Area :
            area' = [area EXCEPT ![a].mode = None,
                                 ![a].revert = IF area[a].state \in Mode
                                               THEN area[a].state ELSE "disarmed"]
      BY <1>6, <2>3 DEF SkipsExitOfMixed, Taken
    <3>2. crashed' = TRUE
      BY <1>6, <2>3 DEF SkipsExitOfMixed
    <3>3. area' \in [Area -> Entity]
      BY <1>1, <3>1 DEF Entity
    <3> QED
      BY <2>1, <3>2, <3>3 DEF IInv, Fields, AllFit
  <2> QED
    BY <2>2, <2>3
<1>7. CASE TriggersAll
  <2>1. ASSUME NEW a \in Area
        PROVE  area'[a] \in Entity /\ (Fits(area[a]) => Fits(area'[a]))
    BY <1>1, <1>7, TriggeredFits DEF TriggersAll
  <2> QED
    BY <1>1, <1>7, <2>1 DEF IInv, Fields, AllFit, Fits, TriggersAll
<1>8. CASE Shows
  <2>1. master' \in Master
    BY <1>1, <1>8, CombinedTypes DEF Shows, Master
  <2> QED
    BY <1>1, <1>8, <2>1 DEF Shows, Gets, IInv, Fields, AllFit, Fits
<1>9. CASE HearsOfFailure
  <2>1. master.revert \in Mode \cup {"disarmed", None}
    BY <1>1 DEF Master
  <2>2. area' \in [Area -> Entity]
    BY <1>1, <1>9, <2>1, PutBackFits DEF HearsOfFailure
  <2>3. (\A a \in Area : Fits(area[a])) => \A a \in Area : Fits(area'[a])
    BY <1>1, <1>9, <2>1, PutBackFits DEF HearsOfFailure
  <2>4. master' \in Master
    BY <1>1, <1>9 DEF HearsOfFailure, Master
  <2>5. crashed' = crashed
    BY <1>9 DEF HearsOfFailure, Gets
  <2> QED
    BY <1>1, <2>2, <2>3, <2>4, <2>5 DEF IInv, Fields, AllFit, Fits
<1>10. CASE HearsOfExpiry
  <2>1. ASSUME NEW a \in Area
        PROVE  area'[a] \in Entity /\ (Fits(area[a]) => Fits(area'[a]))
    BY <1>1, <1>10, DisarmedFits DEF HearsOfExpiry
  <2>2. area' \in [Area -> Entity]
    BY <1>1, <1>10, <2>1 DEF HearsOfExpiry
  <2> QED
    BY <1>1, <1>10, <2>1, <2>2 DEF IInv, Fields, AllFit, Fits, HearsOfExpiry, Gets
<1>11. CASE UNCHANGED vars
  BY <1>11 DEF vars, IInv, Fields, AllFit, Fits
<1> QED
  BY <1>2, <1>3, <1>4, <1>5, <1>6, <1>7, <1>8, <1>9, <1>10, <1>11
     DEF Next, MasterNext

(* The fields of the areas and of the master keep their types. *)
THEOREM MasterFields == Spec => []Fields
BY IInvInit, IInvStep, PTL DEF Spec, IInv

(* Until skip_delay on the master has failed, an area that is armed, or    *)
(* counts down, has the mode that its sensors are filtered by              *)
(* (AlarmoMasterEntity.async_arm, async_arm_failure).                      *)
THEOREM AreaModesAlwaysFit == Spec => []AreaModesFit
<1>1. IInv => AreaModesFit
  BY DEF IInv, AllFit, Fits, AreaModesFit
<1> QED
  BY <1>1, IInvInit, IInvStep, PTL DEF Spec

-----------------------------------------------------------------------------
(* What may silence an alarm. *)

Silences(a) ==
  \/ AreaDisarms(a) \/ \E m \in Mode, skip, ok \in BOOLEAN : AreaArms(a, m, skip, ok)
  \/ \E disarm, ok \in BOOLEAN : SirenEnds(a, disarm, ok)
  \/ HearsOfExpiry /\ area[Head(inbox).area].state = "disarmed"
  \/ DisarmRight
  \/ HearsOfFailure /\ master.target # None
  \/ \E blocked \in (SUBSET Area) \ {{}} :
       \/ SkipsExit(blocked)
       \/ \E m \in Mode, skip \in BOOLEAN : ArmRight(m, skip, blocked)

(* An arming that no area hinders leaves an area with an alarm alone. *)
LEMMA ArmAllKeepsAlarm ==
  ASSUME NEW a \in Area, area[a].state = "triggered", NEW m, NEW skip, NEW revert,
         ArmAll(m, skip, {}, revert)
  PROVE  area'[a] = area[a]
<1>1. a \notin Taken(m, skip)
  BY MasterAssumption DEF Taken
<1> QED
  BY <1>1 DEF ArmAll

LEMMA AlarmKeptStep ==
  ASSUME IInv, [Next]_vars, NEW a \in Area,
         area[a].state = "triggered", area'[a].state # "triggered"
  PROVE  Silences(a)
<1>0. area \in [Area -> Entity]
  BY DEF IInv, Fields
<1>1. ASSUME AreaNext PROVE Silences(a)
  <2>1. PICK b \in Area :
          \/ \E m \in Mode, skip, ok \in BOOLEAN : AreaArms(b, m, skip, ok)
          \/ AreaDisarms(b)
          \/ \E ok \in BOOLEAN : ArmingEnds(b, ok)
          \/ \E now \in BOOLEAN : AreaTriggers(b, now)
          \/ \E disarm, ok \in BOOLEAN : SirenEnds(b, disarm, ok)
    BY <1>1 DEF AreaNext
  <2>2. ASSUME NEW e, NEW more, Steps(b, e, more) PROVE b = a
    BY <1>0, <2>2 DEF Steps
  <2>3. b = a
    BY <2>1, <2>2 DEF AreaArms, AreaDisarms, ArmingEnds, AreaTriggers, SirenEnds
  <2> QED
    BY <2>1, <2>3 DEF Silences, ArmingEnds, AreaTriggers
<1>2. ASSUME NEW blocked \in SUBSET Area, NEW m \in Mode, NEW skip \in BOOLEAN,
             ArmRight(m, skip, blocked)
      PROVE  Silences(a)
  <2>1. blocked # {}
    BY <1>2, ArmAllKeepsAlarm DEF ArmRight
  <2> QED
    BY <1>2, <2>1 DEF Silences
<1>3. ASSUME NEW blocked \in SUBSET Area, SkipsExit(blocked) PROVE Silences(a)
  <2>1. blocked # {}
    BY <1>3, ArmAllKeepsAlarm DEF SkipsExit
  <2> QED
    BY <1>3, <2>1 DEF Silences
<1>4. ASSUME SkipsExitOfMixed PROVE FALSE
  <2>1. CASE UNCHANGED area
    BY <2>1
  <2>2. ASSUME NEW b \in Area, NEW old,
               area' = [area EXCEPT ![b].mode = None, ![b].revert = old]
        PROVE  area'[a].state = area[a].state
    <3>1. CASE b = a
      <4>1. area[a] \in Entity
        BY <1>0
      <4>2. area'[a] = [area[a] EXCEPT !.mode = None, !.revert = old]
        BY <1>0, <2>2, <3>1
      <4> QED
        BY <4>1, <4>2 DEF Entity
    <3>2. CASE b # a
      BY <1>0, <2>2, <3>2
    <3> QED
      BY <3>1, <3>2
  <2>3. CASE ~UNCHANGED area
    <3>1. PICK b \in Area :
            area' = [area EXCEPT ![b].mode = None,
                                 ![b].revert = IF area[b].state \in Mode
                                               THEN area[b].state ELSE "disarmed"]
      BY <1>4, <2>3 DEF SkipsExitOfMixed, Taken
    <3> QED
      BY <2>2, <3>1
  <2> QED
    BY <2>1, <2>3
<1>5. ASSUME TriggersAll PROVE FALSE
  <2>1. area[a] \in Entity
    BY <1>0
  <2>2. Triggered(area[a], TRUE).state = "triggered"
    BY <2>1 DEF Triggered, UpdateState, Entity
  <2> QED
    BY <1>5, <2>2 DEF TriggersAll
<1>6. CASE Shows \/ UNCHANGED vars
  BY <1>6 DEF Shows, vars
<1>7. ASSUME HearsOfFailure PROVE master.target # None
  BY <1>7 DEF HearsOfFailure
<1>8. ASSUME HearsOfExpiry PROVE area[Head(inbox).area].state = "disarmed"
  BY <1>8 DEF HearsOfExpiry
<1> QED
  BY <1>1, <1>2, <1>3, <1>4, <1>5, <1>6, <1>7, <1>8 DEF Next, MasterNext, Silences

(* No alarm is silenced but by a request to its area, the end of a siren's *)
(* time, disarming the master, or a failed arming while the master has a   *)
(* target left.                                                            *)
THEOREM AlarmsAreKept == Spec => AlarmKept
<1>1. IInv /\ [Next]_vars
      => [\A a \in Area :
            area[a].state = "triggered" /\ area'[a].state # "triggered"
            => \/ AreaDisarms(a) \/ \E m \in Mode, skip, ok \in BOOLEAN : AreaArms(a, m, skip, ok)
               \/ \E disarm, ok \in BOOLEAN : SirenEnds(a, disarm, ok)
               \/ HearsOfExpiry /\ area[Head(inbox).area].state = "disarmed"
               \/ DisarmRight
               \/ HearsOfFailure /\ master.target # None
               \/ \E blocked \in (SUBSET Area) \ {{}} :
                    \/ SkipsExit(blocked)
                    \/ \E m \in Mode, skip \in BOOLEAN : ArmRight(m, skip, blocked)]_vars
  BY AlarmKeptStep DEF Silences
<1> QED
  BY <1>1, IInvInit, IInvStep, PTL DEF Spec, AlarmKept

-----------------------------------------------------------------------------
(* Induction, as the least member of a set of numbers. *)

Less == {p \in Nat \X Nat : p[1] < p[2]}

LEMMA LessIsWellFounded == IsWellFoundedOn(Less, Nat)
BY NatLessThanWellFounded DEF OpToRel, Less

LEMMA Least ==
  ASSUME NEW T \in SUBSET Nat, T # {}
  PROVE  \E least \in T : \A n \in T : least <= n
<1>1. PICK least \in T : \A n \in T : <<n, least>> \notin Less
  BY WFMin, LessIsWellFounded
<1>2. ASSUME NEW n \in T PROVE least <= n
  <2>1. ~(n < least)
    BY <1>1 DEF Less
  <2> QED
    BY <2>1
<1> QED
  BY <1>2

-----------------------------------------------------------------------------
(* What is told *)

Looks(s) == \E i \in 1..Len(s) : s[i].event = "state"

LEMMA LooksOnce ==
  ASSUME NEW s \in Seq(Signal), NEW t \in Seq(Signal), Looks(s) \/ Looks(t)
  PROVE  Looks(s \o t)
<1>1. CASE Looks(s)
  BY <1>1 DEF Looks
<1>2. CASE Looks(t)
  <2>1. PICK i \in 1..Len(t) : t[i].event = "state"
    BY <1>2 DEF Looks
  <2>2. Len(s) + i \in 1..Len(s \o t) /\ (s \o t)[Len(s) + i] = t[i]
    BY <2>1
  <2> QED
    BY <2>1, <2>2 DEF Looks
<1> QED
  BY <1>1, <1>2

(* To leave out what has just been said loses nothing. *)
LEMMA ThenKeeps ==
  ASSUME NEW s \in Seq(Signal), NEW t \in Seq(Signal)
  PROVE  /\ Then(s, t) \in Seq(Signal)
         /\ Looks(s) \/ Looks(t) => Looks(Then(s, t))
<1>1. CASE s # << >> /\ t # << >> /\ Last(s) = Head(t)
  <2>1. Then(s, t) = s \o Tail(t) /\ Tail(t) \in Seq(Signal)
    BY <1>1 DEF Then
  <2>2. ASSUME Looks(t) PROVE Looks(s) \/ Looks(Tail(t))
    <3>1. PICK i \in 1..Len(t) : t[i].event = "state"
      BY <2>2 DEF Looks
    <3>2. CASE i = 1
      <4>1. s[Len(s)] = t[1]
        BY <1>1 DEF Last
      <4>2. Len(s) \in 1..Len(s)
        BY <1>1
      <4> QED
        BY <3>1, <3>2, <4>1, <4>2 DEF Looks
    <3>3. CASE i # 1
      <4>1. i - 1 \in 1..Len(Tail(t)) /\ Tail(t)[i - 1] = t[i]
        BY <1>1, <3>3
      <4> QED
        BY <3>1, <4>1 DEF Looks
    <3> QED
      BY <3>2, <3>3
  <2>3. s \o Tail(t) \in Seq(Signal)
    BY <2>1
  <2>4. Looks(s) \/ Looks(t) => Looks(s \o Tail(t))
    BY <2>1, <2>2, LooksOnce
  <2> QED
    BY <2>1, <2>3, <2>4
<1>2. CASE ~(s # << >> /\ t # << >> /\ Last(s) = Head(t))
  BY <1>2, LooksOnce DEF Then
<1> QED
  BY <1>1, <1>2

(* What the first n areas tell: the function that InOrder is defined with. *)
IsTold(told, tells, n) ==
  told = [i \in 0..n |-> IF i = 0 THEN << >> ELSE Then(told[i - 1], tells[Order[i]])]

LEMMA ToldExists ==
  ASSUME NEW tells, NEW n \in Nat
  PROVE  \E told : IsTold(told, tells, n)
<1> DEFINE Without == {k \in Nat : ~\E told : IsTold(told, tells, k)}
<1> SUFFICES ASSUME Without # {} PROVE FALSE
  OBVIOUS
<1>1. PICK k \in Without : \A j \in Without : k <= j
  BY Least
<1>2. k # 0
  <2>1. IsTold([i \in 0..0 |-> << >>], tells, 0)
    BY DEF IsTold
  <2> QED
    BY <1>1, <2>1
<1>3. k - 1 \in Nat /\ k - 1 \notin Without
  BY <1>1, <1>2
<1>4. PICK f : IsTold(f, tells, k - 1)
  BY <1>3
<1> DEFINE g == [i \in 0..k |-> IF i = k THEN Then(f[k - 1], tells[Order[k]]) ELSE f[i]]
<1>5. ASSUME NEW i \in 0..k
      PROVE  g[i] = IF i = 0 THEN << >> ELSE Then(g[i - 1], tells[Order[i]])
  <2>1. CASE i = k
    BY <1>2, <2>1
  <2>2. CASE i # k
    <3>1. i \in 0..(k - 1) /\ (i # 0 => i - 1 \in 0..(k - 1))
      BY <2>2
    <3>2. f[i] = IF i = 0 THEN << >> ELSE Then(f[i - 1], tells[Order[i]])
      BY <1>4, <3>1 DEF IsTold
    <3> QED
      BY <2>2, <3>1, <3>2
  <2> QED
    BY <2>1, <2>2
<1>6. IsTold(g, tells, k)
  BY <1>5 DEF IsTold
<1> QED
  BY <1>1, <1>6

LEMMA InOrderIsTold ==
  ASSUME NEW tells
  PROVE  \E told : IsTold(told, tells, Len(Order)) /\ InOrder(tells) = told[Len(Order)]
<1>1. Len(Order) \in Nat
  BY MasterAssumption
<1> DEFINE told == CHOOSE told : IsTold(told, tells, Len(Order))
<1>2. IsTold(told, tells, Len(Order))
  BY <1>1, ToldExists
<1>3. InOrder(tells) = told[Len(Order)]
  BY DEF InOrder, IsTold
<1> QED
  BY <1>2, <1>3

(* If one area tells that its state is new, the master will look. *)
LEMMA InOrderKeeps ==
  ASSUME NEW tells, \A a \in Area : tells[a] \in Seq(Signal)
  PROVE  /\ InOrder(tells) \in Seq(Signal)
         /\ (\E a \in Area : Looks(tells[a])) => Looks(InOrder(tells))
<1> DEFINE n == Len(Order)
<1>1. PICK told : IsTold(told, tells, n) /\ InOrder(tells) = told[n]
  BY InOrderIsTold
<1>2. n \in Nat /\ \A i \in 1..n : Order[i] \in Area /\ tells[Order[i]] \in Seq(Signal)
  BY MasterAssumption
<1>3. told[0] = << >> /\ \A i \in 1..n : told[i] = Then(told[i - 1], tells[Order[i]])
  <2> HIDE DEF n
  <2>1. \A i \in 0..n :
          told[i] = IF i = 0 THEN << >> ELSE Then(told[i - 1], tells[Order[i]])
    BY <1>1 DEF IsTold
  <2>2. 0 \in 0..n /\ \A i \in 1..n : i \in 0..n /\ i # 0
    BY <1>2
  <2> QED
    BY <2>1, <2>2
<1> DEFINE Good(i) == /\ told[i] \in Seq(Signal)
                      /\ \A j \in 1..i : Looks(tells[Order[j]]) => Looks(told[i])
<1>4. ASSUME NEW i \in 1..n, Good(i - 1)
      PROVE  Good(i)
  <2>1. told[i] = Then(told[i - 1], tells[Order[i]])
    BY <1>3
  <2>2. told[i - 1] \in Seq(Signal) /\ tells[Order[i]] \in Seq(Signal)
    BY <1>2, <1>4
  <2>3. ASSUME NEW j \in 1..i, Looks(tells[Order[j]])
        PROVE  Looks(told[i - 1]) \/ Looks(tells[Order[i]])
    <3>1. CASE j = i
      BY <2>3, <3>1
    <3>2. CASE j # i
      <4>1. j \in 1..(i - 1)
        BY <3>2
      <4> QED
        BY <1>4, <2>3, <4>1
    <3> QED
      BY <3>1, <3>2
  <2> QED
    BY <2>1, <2>2, <2>3, ThenKeeps
<1>5. Good(0)
  BY <1>3
<1>6. Good(n)
  <2> DEFINE Wrong == {i \in 0..n : ~Good(i)}
  <2> HIDE DEF Good
  <2> SUFFICES ASSUME Wrong # {} PROVE FALSE
    BY <1>2
  <2>0. Wrong \in SUBSET Nat
    BY <1>2
  <2>1. PICK i \in Wrong : \A j \in Wrong : i <= j
    BY <2>0, Least
  <2>2. i # 0 /\ i \in 1..n /\ i - 1 \in 0..n /\ i - 1 \notin Wrong
    BY <1>2, <1>5, <2>1
  <2> QED
    BY <1>4, <2>1, <2>2
<1>7. ASSUME NEW a \in Area, Looks(tells[a]) PROVE Looks(told[n])
  <2>1. PICK i \in 1..n : a = Order[i]
    BY <1>2 DEF Area, ToSet
  <2> QED
    BY <1>2, <1>6, <1>7, <2>1
<1> QED
  BY <1>1, <1>6, <1>7

LEMMA OneSignal ==
  ASSUME NEW event \in {"state", "failed", "expired"}, NEW a \in Area \cup {None}
  PROVE  /\ <<[event |-> event, area |-> a]>> \in Seq(Signal)
         /\ event = "state" => Looks(<<[event |-> event, area |-> a]>>)
<1> DEFINE signal == [event |-> event, area |-> a]
<1>1. signal \in Signal /\ signal.event = event
  BY DEF Signal
<1> HIDE DEF signal
<1>2. <<signal>> \in Seq(Signal) /\ Len(<<signal>>) = 1 /\ <<signal>>[1] = signal
  BY <1>1
<1>3. event = "state" => Looks(<<signal>>)
  BY <1>1, <1>2 DEF Looks
<1> QED
  BY <1>2, <1>3 DEF signal

(* Areas whose states change tell of it. *)
LEMMA ChangedTells ==
  ASSUME NEW e, NEW f
  PROVE  Changed(e, f) \in Seq(Signal) /\ (e.state # f.state => Looks(Changed(e, f)))
<1>1. << >> \in Seq(Signal)
  OBVIOUS
<1> QED
  BY <1>1, OneSignal DEF Changed

LEMMA ChangesTell ==
  ASSUME NEW old, NEW new
  PROVE  /\ Changes(old, new) \in Seq(Signal)
         /\ (\E a \in Area : old[a].state # new[a].state) => Looks(Changes(old, new))
<1> DEFINE tells == [a \in Area |-> Changed(old[a], new[a])]
<1>1. \A a \in Area : /\ tells[a] \in Seq(Signal)
                      /\ old[a].state # new[a].state => Looks(tells[a])
  BY ChangedTells
<1>2. Changes(old, new) = InOrder(tells)
  BY DEF Changes
<1> HIDE DEF tells
<1> QED
  BY <1>1, <1>2, InOrderKeeps

(* Taking a signal of another kind loses nothing either. *)
LEMMA TailLooks ==
  ASSUME NEW s \in Seq(Signal), s # << >>, Head(s).event # "state"
  PROVE  Tail(s) \in Seq(Signal) /\ (Looks(s) => Looks(Tail(s)))
<1>1. ASSUME Looks(s) PROVE Looks(Tail(s))
  <2>1. PICK i \in 1..Len(s) : s[i].event = "state"
    BY <1>1 DEF Looks
  <2>2. i # 1
    BY <2>1
  <2>3. i - 1 \in 1..Len(Tail(s)) /\ Tail(s)[i - 1] = s[i]
    BY <2>1, <2>2
  <2> QED
    BY <2>1, <2>3 DEF Looks
<1> QED
  BY <1>1

-----------------------------------------------------------------------------
(* The master shows its areas *)

Shown == inbox \in Seq(Signal) /\ MasterShowsAreas

MInv == IInv /\ Shown

LEMMA ShownInit == Init => Shown
<1> SUFFICES ASSUME Init PROVE Shown
  OBVIOUS
<1>1. \A a \in Area : area[a].state = "disarmed"
  BY DEF Init, AtRest
<1>2. Area # {}
  BY MasterAssumption
<1> DEFINE states == {area[a].state : a \in Area}
<1>3. states = {"disarmed"}
  BY <1>1, <1>2
<1>4. Combined = CHOOSE s \in Mode \cup {"disarmed"} : states = {s}
  BY <1>3 DEF Combined
<1>5. Combined = "disarmed"
  BY <1>3, <1>4
<1> QED
  BY <1>5 DEF Init, Shown, MasterShowsAreas

(* The states of the areas are all that Combined depends on. *)
LEMMA CombinedSame ==
  ASSUME \A a \in Area : area'[a].state = area[a].state
  PROVE  Combined' = Combined
<1>1. {area'[a].state : a \in Area} = {area[a].state : a \in Area}
  OBVIOUS
<1> QED
  BY <1>1 DEF Combined

(* A step that takes no "state" signal, and adds one if an area changes.   *)
LEMMA ShownStill ==
  ASSUME Shown, NEW rest \in Seq(Signal), NEW more \in Seq(Signal),
         Looks(inbox) => Looks(rest), inbox' = rest \o more,
         master'.state = master.state,
         (\E a \in Area : area[a].state # area'[a].state) => Looks(more)
  PROVE  Shown'
<1>1. inbox' \in Seq(Signal) /\ (Looks(rest) \/ Looks(more) => Looks(inbox'))
  BY LooksOnce
<1>2. CASE \A a \in Area : area'[a].state = area[a].state
  <2>1. Combined' = Combined
    BY <1>2, CombinedSame
  <2>2. Combined \in {None, master.state} \/ Looks(inbox)
    BY DEF Shown, MasterShowsAreas, Looks
  <2> QED
    BY <1>1, <2>1, <2>2 DEF Shown, MasterShowsAreas, Looks
<1>3. CASE \E a \in Area : area[a].state # area'[a].state
  BY <1>1, <1>3 DEF Shown, MasterShowsAreas, Looks
<1> QED
  BY <1>2, <1>3

LEMMA StepsShow ==
  ASSUME IInv, Shown, NEW a \in Area, NEW e, NEW more \in Seq(Signal), Steps(a, e, more)
  PROVE  Shown'
<1>1. area' = [area EXCEPT ![a] = e] /\ area \in [Area -> Entity]
  BY DEF Steps, IInv, Fields
<1>2. inbox \in Seq(Signal) /\ Changed(area[a], e) \in Seq(Signal)
  BY ChangedTells DEF Shown
<1>3. inbox' = inbox \o (Changed(area[a], e) \o more)
  BY <1>2 DEF Steps
<1>4. ASSUME NEW b \in Area, area[b].state # area'[b].state
      PROVE  Looks(Changed(area[a], e) \o more)
  <2>1. area[a].state # e.state
    BY <1>1, <1>4
  <2> QED
    BY <1>2, <2>1, ChangedTells, LooksOnce
<1>5. Changed(area[a], e) \o more \in Seq(Signal)
  BY <1>2
<1>6. master'.state = master.state
  BY DEF Steps
<1> QED
  BY <1>2, <1>3, <1>4, <1>5, <1>6, ShownStill

LEMMA FailedTypes == ASSUME NEW ok PROVE Failed(ok) \in Seq(Signal)
<1>1. << >> \in Seq(Signal)
  OBVIOUS
<1> QED
  BY <1>1, OneSignal DEF Failed

LEMMA AreaNextShows == IInv /\ Shown /\ AreaNext => Shown'
<1> SUFFICES ASSUME IInv, Shown, AreaNext PROVE Shown'
  OBVIOUS
<1>1. PICK a \in Area : \E e, more : more \in Seq(Signal) /\ Steps(a, e, more)
  <2>1. ASSUME NEW a \in Area PROVE Expired(a) \in Seq(Signal)
    BY OneSignal DEF Expired
  <2>2. ASSUME NEW a \in Area, NEW disarm, NEW ok, SirenEnds(a, disarm, ok)
        PROVE  \E e, more : more \in Seq(Signal) /\ Steps(a, e, more)
    <3> DEFINE more == (IF Rearms(area[a], disarm) THEN Failed(ok) ELSE << >>) \o Expired(a)
    <3>1. more \in Seq(Signal)
      BY <2>1, FailedTypes
    <3> QED
      BY <2>2, <3>1 DEF SirenEnds
  <2>3. << >> \in Seq(Signal)
    OBVIOUS
  <2> QED
    BY <2>2, <2>3, FailedTypes
       DEF AreaNext, AreaArms, AreaDisarms, ArmingEnds, AreaTriggers
<1> QED
  BY <1>1, StepsShow

LEMMA ArmAllShows ==
  ASSUME IInv, Shown, NEW m, NEW skip, NEW blocked, NEW revert,
         ArmAll(m, skip, blocked, revert)
  PROVE  Shown'
<1> DEFINE tried == [a \in Area |-> IF a \in Taken(m, skip)
                                    THEN Requested(area[a], m, skip, a \notin blocked)
                                    ELSE area[a]]
           tells == [a \in Area |-> Changed(area[a], tried[a]) \o Failed(a \notin blocked)]
           after == IF blocked = {} THEN tried ELSE PutBack(tried, revert)
           more  == Then(InOrder(tells), Changes(tried, after))
<1>1. area' = after /\ inbox' = inbox \o more /\ inbox \in Seq(Signal)
  BY DEF ArmAll, Shown
<1>2. master'.state = master.state
  BY DEF ArmAll, IInv, Fields, Master
<1>3. ASSUME NEW a \in Area
      PROVE  /\ tells[a] \in Seq(Signal)
             /\ area[a].state # tried[a].state => Looks(tells[a])
  <2>1. /\ Changed(area[a], tried[a]) \in Seq(Signal)
        /\ area[a].state # tried[a].state => Looks(Changed(area[a], tried[a]))
    BY ChangedTells
  <2>2. tells[a] = Changed(area[a], tried[a]) \o Failed(a \notin blocked)
    OBVIOUS
  <2>3. Failed(a \notin blocked) \in Seq(Signal)
    BY FailedTypes
  <2> HIDE DEF tells, tried
  <2> QED
    BY <2>1, <2>2, <2>3, LooksOnce
<1> HIDE DEF tried, tells, after
<1>4. /\ InOrder(tells) \in Seq(Signal)
      /\ (\E a \in Area : area[a].state # tried[a].state) => Looks(InOrder(tells))
  BY <1>3, InOrderKeeps
<1>5. /\ Changes(tried, after) \in Seq(Signal)
      /\ (\E a \in Area : tried[a].state # after[a].state) => Looks(Changes(tried, after))
  BY ChangesTell
<1>6. /\ more \in Seq(Signal)
      /\ Looks(InOrder(tells)) \/ Looks(Changes(tried, after)) => Looks(more)
  BY <1>4, <1>5, ThenKeeps
<1>7. (\E a \in Area : area[a].state # area'[a].state) => Looks(more)
  BY <1>1, <1>4, <1>5, <1>6
<1> HIDE DEF more
<1> QED
  BY <1>1, <1>2, <1>6, <1>7, ShownStill

LEMMA ShownStep == IInv /\ Shown /\ [Next]_vars => Shown'
<1> SUFFICES ASSUME IInv, Shown, [Next]_vars PROVE Shown'
  OBVIOUS
<1>1. area \in [Area -> Entity] /\ master \in Master /\ inbox \in Seq(Signal)
  BY DEF IInv, Fields, Shown
<1>2. ASSUME inbox' = inbox \o Changes(area, area'), master'.state = master.state
      PROVE  Shown'
  BY <1>1, <1>2, ChangesTell, ShownStill
<1>3. ASSUME NEW event, event # "state", Gets(event),
             inbox' = Tail(inbox) \o Changes(area, area'), master'.state = master.state
      PROVE  Shown'
  <2>1. Tail(inbox) \in Seq(Signal) /\ (Looks(inbox) => Looks(Tail(inbox)))
    BY <1>1, <1>3, TailLooks DEF Gets
  <2> QED
    BY <1>1, <1>3, <2>1, ChangesTell, ShownStill
<1>4. CASE AreaNext
  BY <1>4, AreaNextShows
<1>5. ASSUME NEW blocked \in SUBSET Area, NEW m \in Mode, NEW skip \in BOOLEAN,
             ArmRight(m, skip, blocked)
      PROVE  Shown'
  BY <1>5, ArmAllShows DEF ArmRight
<1>6. ASSUME NEW blocked \in SUBSET Area, SkipsExit(blocked)
      PROVE  Shown'
  BY <1>6, ArmAllShows DEF SkipsExit
<1>7. CASE DisarmRight
  BY <1>2, <1>7 DEF DisarmRight, DisarmAll
<1>8. CASE SkipsExitOfMixed
  <2>1. master'.state = master.state /\ inbox' = inbox
    BY <1>1, <1>8 DEF SkipsExitOfMixed, Master
  <2>2. ASSUME NEW a \in Area PROVE area'[a].state = area[a].state
    <3>1. CASE UNCHANGED area
      BY <3>1
    <3>2. CASE ~UNCHANGED area
      <4>1. PICK b \in Area :
              area' = [area EXCEPT ![b].mode = None,
                                   ![b].revert = IF area[b].state \in Mode
                                                 THEN area[b].state ELSE "disarmed"]
        BY <1>8, <3>2 DEF SkipsExitOfMixed, Taken
      <4> DEFINE old == IF area[b].state \in Mode THEN area[b].state ELSE "disarmed"
      <4>2. area' = [area EXCEPT ![b].mode = None, ![b].revert = old]
        BY <4>1
      <4> HIDE DEF old
      <4>3. CASE a = b
        <5>1. area[a] \in Entity /\ area'[a] = [area[a] EXCEPT !.mode = None, !.revert = old]
          BY <1>1, <4>2, <4>3
        <5> QED
          BY <5>1 DEF Entity
      <4>4. CASE a # b
        BY <1>1, <4>2, <4>4
      <4> QED
        BY <4>3, <4>4
    <3> QED
      BY <3>1, <3>2
  <2>3. Combined' = Combined
    BY <2>2, CombinedSame
  <2> QED
    BY <2>1, <2>3 DEF Shown, MasterShowsAreas
<1>9. CASE TriggersAll
  BY <1>2, <1>9 DEF TriggersAll
<1>10. CASE Shows
  <2>1. inbox' \in Seq(Signal) /\ Combined' = Combined
    BY <1>1, <1>10, CombinedSame DEF Shows, Gets
  <2>2. Combined = None \/ master'.state = Combined
    BY <1>1, <1>10 DEF Shows, Master
  <2> QED
    BY <2>1, <2>2 DEF Shown, MasterShowsAreas
<1>11. CASE HearsOfFailure
  <2>1. master'.state = master.state
    BY <1>1, <1>11 DEF HearsOfFailure, Master
  <2> QED
    BY <1>3, <1>11, <2>1 DEF HearsOfFailure
<1>12. CASE HearsOfExpiry
  BY <1>3, <1>12 DEF HearsOfExpiry
<1>13. CASE UNCHANGED vars
  <2>1. Combined' = Combined
    BY <1>13, CombinedSame DEF vars
  <2> QED
    BY <1>13, <2>1 DEF vars, Shown, MasterShowsAreas
<1> QED
  BY <1>4, <1>5, <1>6, <1>7, <1>8, <1>9, <1>10, <1>11, <1>12, <1>13
     DEF Next, MasterNext

LEMMA MInvInvariant == Spec => []MInv
<1>1. Init => MInv
  BY IInvInit, ShownInit DEF MInv
<1>2. MInv /\ [Next]_vars => MInv'
  BY IInvStep, ShownStep DEF MInv
<1> QED
  BY <1>1, <1>2, PTL DEF Spec

(* The areas, the master and the signals under way keep their types: what  *)
(* the areas tell in a call, and the master leaves out of it, included.    *)
THEOREM MasterTypes == Spec => []TypeOK
<1>1. MInv => TypeOK
  BY DEF MInv, IInv, Fields, Shown, TypeOK
<1> QED
  BY <1>1, MInvInvariant, PTL

(* Whatever areas there are and however late the master hears of them, it  *)
(* shows what they amount to, or a signal that will make it look is under  *)
(* way (AlarmoMasterEntity.async_update_state).                            *)
THEOREM MasterShows == Spec => []MasterShowsAreas
<1>1. MInv => MasterShowsAreas
  BY DEF MInv, Shown
<1> QED
  BY <1>1, MInvInvariant, PTL
=============================================================================
