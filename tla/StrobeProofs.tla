---------------------------- MODULE StrobeProofs ----------------------------
(***************************************************************************)
(* The strobe leaves the lights as someone set them, for any areas,        *)
(* callers, looks and counts, but for the runs that break off.             *)
(***************************************************************************)
EXTENDS Strobe, TLAPS

(* The run belongs to a caller that awaits it, and has a scene. *)
Owned == /\ caller \in [Area \cup Guest -> {"idle", "calling", "called"}]
         /\ owner \in Area \cup Guest \cup {None}
         /\ owner # None => caller[owner] = "called" /\ scene # None
         /\ owner = None <=> step = "idle"
         /\ lights \in Look \cup Strobed
         /\ scene \in Look \cup Strobed \cup {None}
         /\ left \in BOOLEAN /\ spoilt \in BOOLEAN

IInv == Owned /\ LeftAsSet

LEMMA BrokenOff ==
  BreaksOff => /\ owner' = None /\ step' = "idle" /\ flashes' = 0
               /\ left' \in BOOLEAN
               /\ lights' \in Strobed => left'
<1> SUFFICES ASSUME BreaksOff
             PROVE  left' \in BOOLEAN /\ (lights' \in Strobed => left')
  BY DEF BreaksOff
<1> DEFINE b == lights' \in Strobed
<1>1. left' = b /\ b \in BOOLEAN
  BY DEF BreaksOff
<1> QED
  BY <1>1

LEMMA IInvInit == Init => IInv
BY StrobeAssumption DEF Init, IInv, Owned, LeftAsSet, Strobed

LEMMA IInvStep == IInv /\ [Next]_vars => IInv'
<1> SUFFICES ASSUME IInv, [Next]_vars PROVE IInv'
  OBVIOUS
<1> USE StrobeAssumption DEF IInv, Owned, LeftAsSet
<1>1. ASSUME NEW a \in Area, Triggers(a)
      PROVE  IInv'
  <2>1. CASE owner = a
    BY <1>1, <2>1, BrokenOff DEF Triggers
  <2>2. CASE owner # a
    BY <1>1, <2>2 DEF Triggers
  <2> QED
    BY <2>1, <2>2
<1>2. ASSUME NEW a \in Area, Clears(a)
      PROVE  IInv'
  BY <1>2 DEF Clears, history
<1>3. ASSUME NEW g \in Guest, Wants(g)
      PROVE  IInv'
  <2>1. owner # g
    BY <1>3 DEF Wants
  <2> QED
    BY <1>3, <2>1 DEF Wants, history
<1>4. ASSUME NEW look \in Look, SetsLights(look)
      PROVE  IInv'
  BY <1>4 DEF SetsLights, Strobed
<1>5. ASSUME NEW c \in Area \cup Guest, Starts(c)
      PROVE  IInv'
  BY <1>5 DEF Starts
<1>6. ASSUME NEW c \in Area \cup Guest, Dropped(c) \/ CannotStart(c)
      PROVE  IInv'
  <2>1. owner # c
    BY <1>6 DEF Dropped, CannotStart
  <2> QED
    BY <1>6, <2>1 DEF Dropped, CannotStart, history
<1>7. CASE Flashes
  BY <1>7 DEF Flashes, Strobed, history
<1>8. CASE Darkens
  BY <1>8 DEF Darkens, Strobed, history
<1>9. CASE GoesRound
  BY <1>9 DEF GoesRound, history
<1>10. CASE Ends
  <2>1. owner # None
    BY <1>10 DEF Ends
  <2> QED
    BY <1>10, <2>1 DEF Ends
<1>11. CASE Fails
  <2>1. owner # None /\ lights' \in Look \cup Strobed
    BY <1>11 DEF Fails, Strobed
  <2> QED
    BY <1>11, <2>1, BrokenOff DEF Fails
<1>12. CASE Restarts
  <2>1. PICK again \in SUBSET alarm :
          caller' = [c \in Area \cup Guest |-> IF c \in again THEN "calling" ELSE "idle"]
    BY <1>12 DEF Restarts
  <2>2. owner' = None /\ step' = "idle"
    BY <1>12, BrokenOff DEF Restarts
  <2>3. /\ lights' = lights /\ scene' = None /\ spoilt' = FALSE
        /\ left' \in BOOLEAN
        /\ lights' \in Strobed => left'
    BY <1>12, BrokenOff DEF Restarts
  <2>4. caller' \in [Area \cup Guest -> {"idle", "calling", "called"}]
    BY <2>1
  <2> QED
    BY <2>2, <2>3, <2>4
<1>13. CASE UNCHANGED vars
  BY <1>13 DEF vars, history
<1> QED
  BY <1>1, <1>2, <1>3, <1>4, <1>5, <1>6, <1>7, <1>8, <1>9, <1>10, <1>11, <1>12, <1>13
  DEF Next

(* The lights flash, or are dark between flashes, only during a run that   *)
(* is going to turn them back to how it found them.  Lights are left so    *)
(* without a run only by a run that broke off (its area went off again, a  *)
(* call of a service failed, or Home Assistant restarted) and by a run     *)
(* that began with such lights. *)
THEOREM StrobeLeavesAsSet == Spec => []LeftAsSet
<1>1. IInv => LeftAsSet
  BY DEF IInv
<1>2. IInv /\ [Next]_vars => IInv'
  BY IInvStep
<1> QED
  BY <1>1, <1>2, IInvInit, PTL DEF Spec

LEMMA TypeStep == Owned /\ TypeOK /\ [Next]_vars => TypeOK'
<1> SUFFICES ASSUME Owned, TypeOK, [Next]_vars PROVE TypeOK'
  OBVIOUS
<1> USE StrobeAssumption DEF TypeOK, Step, Strobed
<1>1. ASSUME NEW a \in Area, Triggers(a)
      PROVE  TypeOK'
  BY <1>1, BrokenOff DEF Triggers
<1>2. ASSUME NEW a \in Area, Clears(a)
      PROVE  TypeOK'
  BY <1>2 DEF Clears, history
<1>3. ASSUME NEW g \in Guest, Wants(g)
      PROVE  TypeOK'
  BY <1>3 DEF Wants, history
<1>4. ASSUME NEW look \in Look, SetsLights(look)
      PROVE  TypeOK'
  BY <1>4 DEF SetsLights
<1>5. ASSUME NEW c \in Area \cup Guest, Starts(c)
      PROVE  TypeOK'
  <2>1. left' \in BOOLEAN /\ spoilt' \in BOOLEAN
    BY <1>5, Zenon DEF Starts
  <2> QED
    BY <1>5, <2>1 DEF Starts
<1>6. ASSUME NEW c \in Area \cup Guest, Dropped(c) \/ CannotStart(c)
      PROVE  TypeOK'
  BY <1>6 DEF Dropped, CannotStart, history
<1>7. CASE Flashes
  <2>1. owner \in Guest => flashes > 0
    BY <1>7 DEF Flashes, GoesOn
  <2> QED
    BY <1>7, <2>1 DEF Flashes, history
<1>8. CASE Darkens
  BY <1>8 DEF Darkens, history
<1>9. CASE GoesRound
  BY <1>9 DEF GoesRound, history
<1>10. CASE Ends
  BY <1>10 DEF Ends, Owned
<1>11. CASE Fails
  <2>1. owner # None /\ lights' \in Look \cup Strobed
    BY <1>11 DEF Fails, Owned
  <2> QED
    BY <1>11, <2>1, BrokenOff DEF Fails
<1>12. CASE Restarts
  <2>1. PICK again \in SUBSET alarm :
          caller' = [c \in Area \cup Guest |-> IF c \in again THEN "calling" ELSE "idle"]
    BY <1>12 DEF Restarts
  <2>2. /\ owner' \in {None, owner}
        /\ step' \in {"idle", step}
        /\ flashes' \in {0, flashes}
        /\ left' \in BOOLEAN
    BY <1>12, BrokenOff DEF Restarts
  <2>3. alarm' = alarm /\ lights' = lights /\ scene' = None /\ spoilt' \in BOOLEAN
    BY <1>12 DEF Restarts
  <2>4. caller' \in [Area \cup Guest -> {"idle", "calling", "called"}]
    BY <2>1
  <2> QED
    BY <2>2, <2>3, <2>4
<1>13. CASE UNCHANGED vars
  BY <1>13 DEF vars, history
<1> QED
  BY <1>1, <1>2, <1>3, <1>4, <1>5, <1>6, <1>7, <1>8, <1>9, <1>10, <1>11, <1>12, <1>13
  DEF Next

(* Every state has its type: no run flashes more often than its caller     *)
(* asked for. *)
THEOREM StrobeTypes == Spec => []TypeOK
<1>1. Init => TypeOK
  <2> SUFFICES ASSUME Init PROVE TypeOK
    OBVIOUS
  <2>1. /\ caller \in [Area \cup Guest -> {"idle", "calling", "called"}]
        /\ flashes \in 0..Count
    BY StrobeAssumption DEF Init
  <2> QED
    BY <2>1 DEF Init, TypeOK, Step
<1>2. IInv => Owned
  BY DEF IInv
<1> QED
  BY <1>1, <1>2, IInvInit, IInvStep, TypeStep, PTL DEF Spec
=============================================================================
