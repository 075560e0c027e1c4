-------------------------- MODULE PatioDoorProofs --------------------------
(***************************************************************************)
(* The patio door's automation, for any number of callers, speakers and    *)
(* queued runs and any timeout.                                            *)
(***************************************************************************)
EXTENDS PatioDoor, AnnounceProofs, TLAPS

(* The flag is set from the scan to the end of the wait, and a run is at   *)
(* one of its steps. *)
FlagFits == /\ patio \in PatioStep
            /\ patio \in {"off_call", "off_said", "waiting"} => flag
            /\ patio \in {"on_call", "on_said"} => ~flag

LEMMA FlagFitsStep == FlagFits /\ [PatioNext]_allVars => FlagFits'
<1> SUFFICES ASSUME FlagFits, [PatioNext]_allVars PROVE FlagFits'
  OBVIOUS
<1> USE DEF FlagFits, PatioStep
<1>1. CASE Scan
  BY <1>1 DEF Scan
<1>2. CASE CallScript
  BY <1>2 DEF CallScript
<1>3. CASE StartWaiting
  BY <1>3 DEF StartWaiting
<1>4. CASE TimedOut
  BY <1>4 DEF TimedOut
<1>5. CASE OpenDoor
  BY <1>5 DEF OpenDoor
<1>6. CASE CloseDoor
  BY <1>6 DEF CloseDoor
<1>7. CASE RunOver
  BY <1>7 DEF RunOver
<1>8. CASE Unaffected \/ UNCHANGED allVars
  BY <1>8 DEF Unaffected, patioVars, allVars
<1>9. CASE RunFails
  BY <1>9 DEF RunFails
<1>10. CASE Passes
  BY <1>10 DEF Passes
<1>11. CASE RestartAll
  BY <1>11 DEF RestartAll
<1> QED
  BY <1>1, <1>2, <1>3, <1>4, <1>5, <1>6, <1>7, <1>8, <1>9, <1>10, <1>11 DEF PatioNext

LEMMA FlagFitsInit == PatioInit => FlagFits
BY DEF PatioInit, FlagFits, PatioStep

(* What the automation says of the cameras is so, with failures and with   *)
(* restarts. *)
THEOREM PatioSaysWhatIs == PatioSpec => []SaysWhatIs
<1>1. FlagFits => SaysWhatIs
  BY DEF FlagFits, SaysWhatIs
<1> QED
  BY <1>1, FlagFitsInit, FlagFitsStep, PTL DEF PatioSpec

(* Detection is off only while the run that turns it on again is under     *)
(* way, or after an error or a restart has ended that run. *)
THEOREM PatioOffIsOwned == PatioSpec => []OffIsOwned
<1>1. PatioInit => OffIsOwned
  BY DEF PatioInit, OffIsOwned
<1>2. FlagFits /\ OffIsOwned /\ [PatioNext]_allVars => OffIsOwned'
  <2> SUFFICES ASSUME FlagFits, OffIsOwned, [PatioNext]_allVars PROVE OffIsOwned'
    OBVIOUS
  <2> USE DEF OffIsOwned
  <2>1. CASE Scan \/ StartWaiting \/ TimedOut
    BY <2>1 DEF Scan, StartWaiting, TimedOut
  <2>2. CASE CallScript
    BY <2>2 DEF CallScript, FlagFits
  <2>3. CASE OpenDoor \/ CloseDoor
    BY <2>3 DEF OpenDoor, CloseDoor
  <2>4. CASE RunOver
    BY <2>4 DEF RunOver, FlagFits
  <2>5. CASE Unaffected \/ Passes \/ UNCHANGED allVars
    BY <2>5 DEF Unaffected, Passes, patioVars, allVars
  <2>6. CASE RunFails
    BY <2>6 DEF RunFails
  <2>7. CASE RestartAll
    BY <2>7 DEF RestartAll
  <2> QED
    BY <2>1, <2>2, <2>3, <2>4, <2>5, <2>6, <2>7 DEF PatioNext
<1> QED
  BY <1>1, <1>2, FlagFitsInit, FlagFitsStep, PTL DEF PatioSpec

(* What the automation does to the script's queue and to the speakers is,   *)
(* but for a call it makes while an earlier one may still wait, and for     *)
(* time that passes for it alone, what Announce allows.                     *)
LEMMA PatioMoves ==
  ASSUME PatioTypeOK, [PatioNext]_allVars
  PROVE  \/ [Next]_vars
         \/ Accepted(Patio) /\ UNCHANGED <<volume, shown, run, history>>
<1>1. CASE CallScript
  BY <1>1 DEF CallScript
<1>2. CASE Scan \/ StartWaiting \/ TimedOut \/ OpenDoor \/ CloseDoor \/ RunOver
  BY <1>2 DEF Scan, StartWaiting, TimedOut, OpenDoor, CloseDoor, RunOver
<1>3. CASE Unaffected
  BY <1>3, PatioAssumption DEF Unaffected, Next
<1>4. CASE RunFails
  BY <1>4 DEF RunFails, Next, Failing, Booster
<1>5. CASE Passes
  <2>1. CASE \E b \in Booster : Counting(run[b])
    BY <1>5, <2>1 DEF Passes, Next, Tick
  <2>2. CASE ~\E b \in Booster : Counting(run[b])
    <3>1. run' = [b \in Booster |-> run[b]]
      BY <1>5, <2>2 DEF Passes, Elapses, OneLess
    <3>2. run' = run
      BY <3>1 DEF PatioTypeOK, TypeOK
    <3> QED
      BY <1>5, <3>2 DEF Passes, vars
  <2> QED
    BY <2>1, <2>2
<1>6. CASE RestartAll
  BY <1>6 DEF RestartAll, Next
<1>7. CASE UNCHANGED allVars
  BY <1>7 DEF allVars
<1> QED
  BY <1>1, <1>2, <1>3, <1>4, <1>5, <1>6, <1>7 DEF PatioNext

LEMMA PatioTypeStep == PatioTypeOK /\ Busy /\ [PatioNext]_allVars => PatioTypeOK' /\ Busy'
<1> SUFFICES ASSUME PatioTypeOK, Busy, [PatioNext]_allVars PROVE PatioTypeOK' /\ Busy'
  OBVIOUS
<1>1. TypeOK' /\ Busy'
  <2>1. CASE [Next]_vars
    BY <2>1, TypeStep, BusyStep DEF PatioTypeOK
  <2>2. CASE Accepted(Patio) /\ UNCHANGED <<volume, shown, run, history>>
    BY <2>2, PatioAssumption DEF Accepted, PatioTypeOK, TypeOK, Busy, history
  <2> QED
    BY <2>1, <2>2, PatioMoves
<1>2. flag' \in BOOLEAN /\ door' \in BOOLEAN /\ patio' \in PatioStep /\ wait' \in Nat /\ lost' \in BOOLEAN
  <2> USE PatioAssumption DEF PatioTypeOK, PatioStep
  <2>1. CASE Scan \/ OpenDoor \/ RunOver
    BY <2>1 DEF Scan, OpenDoor, RunOver
  <2>2. CASE StartWaiting
    BY <2>2 DEF StartWaiting
  <2>3. CASE TimedOut
    BY <2>3 DEF TimedOut
  <2>4. CASE CloseDoor
    <3>1. patio' \in PatioStep /\ wait' \in Nat
      BY <2>4 DEF CloseDoor
    <3>2. flag' \in BOOLEAN /\ door' \in BOOLEAN /\ lost' \in BOOLEAN
      BY <2>4, Zenon DEF CloseDoor
    <3> QED
      BY <3>1, <3>2
  <2>5. CASE CallScript
    BY <2>5 DEF CallScript
  <2>6. CASE RunFails
    BY <2>6 DEF RunFails
  <2>7. CASE RestartAll
    BY <2>7 DEF RestartAll
  <2>8. CASE Passes
    BY <2>8 DEF Passes
  <2>9. CASE Unaffected \/ UNCHANGED allVars
    BY <2>9 DEF Unaffected, patioVars, allVars
  <2> QED
    BY <2>1, <2>2, <2>3, <2>4, <2>5, <2>6, <2>7, <2>8, <2>9 DEF PatioNext
<1> QED
  BY <1>1, <1>2 DEF PatioTypeOK

(* Every state of the automation with the script and the speakers has its   *)
(* type. *)
THEOREM PatioTypes == PatioSpec => []PatioTypeOK
<1>1. PatioInit => PatioTypeOK
  <2> SUFFICES ASSUME PatioInit PROVE PatioTypeOK
    OBVIOUS
  <2>1. TypeOK
    BY TypeInit DEF PatioInit
  <2>2. door \in BOOLEAN /\ flag \in BOOLEAN /\ lost \in BOOLEAN /\ wait \in Nat
    BY DEF PatioInit
  <2>3. patio \in PatioStep
    BY DEF PatioInit, PatioStep
  <2> QED
    BY <2>1, <2>2, <2>3 DEF PatioTypeOK
<1>2. PatioInit => Busy
  BY DEF PatioInit, Busy, Init, Resting, Booster
<1> QED
  BY <1>1, <1>2, PatioTypeStep, PTL DEF PatioSpec
=============================================================================
