----------------------------- MODULE PatioDoor -----------------------------
(***************************************************************************)
(* "Patio Door - Disable Rear Camera Detection" (automations.yaml): a scan *)
(* of the tag at the door turns person detection on the rear cameras off,  *)
(* says so, waits until the door closes or for six hours, turns detection  *)
(* on and says so.  It is one caller of the script of Announce, and waits  *)
(* in its queue with the others.                                           *)
(***************************************************************************)
EXTENDS Announce

CONSTANTS
  Patio,        \* this automation, among the callers
  DoorTimeout   \* how long it waits for the door

ASSUME PatioAssumption == Patio \in Caller /\ DoorTimeout \in Nat

VARIABLES
  flag,         \* input_boolean.patio_door_open: detection is off
  door,         \* binary_sensor.patio_door_contact: is it open?
  patio,        \* where the automation is
  wait,         \* time left of its wait for the door
  lost          \* history: has the run that set it failed, or been cut off?

patioVars == <<flag, door, patio, wait, lost>>
allVars   == <<vars, patioVars>>

PatioStep == {"idle", "off_call", "off_said", "waiting", "on_call", "on_said"}

-----------------------------------------------------------------------------
PatioInit ==
  /\ Init
  /\ flag = FALSE
  /\ door \in BOOLEAN
  /\ patio = "idle"
  /\ wait = 0
  /\ lost = FALSE

(* Mode single: while the automation is in a run, a scan is dropped. *)
Scan ==
  /\ patio = "idle"
  /\ flag' = TRUE
  /\ patio' = "off_call"
  /\ lost' = FALSE
  /\ UNCHANGED <<vars, door, wait>>

(* A call that is not accepted returns at once: nothing is said. *)
CallScript ==
  /\ patio \in {"off_call", "on_call"}
  /\ Accepted(Patio)
  /\ patio' = IF patio = "off_call" THEN "off_said" ELSE "on_said"
  /\ UNCHANGED <<volume, shown, run, history, flag, door, wait, lost>>

(* The call has returned; from here on, a change of the door is a trigger. *)
StartWaiting ==
  /\ patio = "off_said" /\ ~Waits(Patio)
  /\ patio' = "waiting"
  /\ wait' = DoorTimeout
  /\ UNCHANGED <<vars, flag, door, lost>>

(* Mutant: continue_on_timeout: false. *)
TimedOutStops ==
  /\ patio = "waiting" /\ wait = 0
  /\ patio' = "idle"
  /\ UNCHANGED <<vars, flag, door, wait, lost>>

(* Mutant: turn_off is not reached on a timeout, only what is said then. *)
TimedOutStaysOff ==
  /\ patio = "waiting" /\ wait = 0
  /\ patio' = "on_call"
  /\ UNCHANGED <<vars, flag, door, wait, lost>>

(* continue_on_timeout: true *)
TimedOut ==
  /\ patio = "waiting" /\ wait = 0
  /\ flag' = FALSE
  /\ patio' = "on_call"
  /\ UNCHANGED <<vars, door, wait, lost>>

OpenDoor ==
  /\ ~door
  /\ door' = TRUE
  /\ UNCHANGED <<vars, flag, patio, wait, lost>>

CloseDoor ==
  /\ door
  /\ door' = FALSE
  /\ IF patio = "waiting"
     THEN flag' = FALSE /\ patio' = "on_call" /\ wait' = 0
     ELSE UNCHANGED <<flag, patio, wait>>
  /\ UNCHANGED <<vars, lost>>

RunOver ==
  /\ patio = "on_said" /\ ~Waits(Patio)
  /\ patio' = "idle"
  /\ UNCHANGED <<vars, flag, door, wait, lost>>

-----------------------------------------------------------------------------
(* The script, its other callers and the speakers go on as in Announce;    *)
(* an error in the run that this automation waits for ends the automation. *)

Unaffected ==
  /\ \/ Environment
     \/ \E c \in Caller \ {Patio} : Call(c)
     \/ StartRun \/ FinishRun \/ Speaking
  /\ UNCHANGED patioVars

RunFails ==
  /\ Fails("script")
  /\ patio' = IF Head(queue) = Patio THEN "idle" ELSE patio
  /\ lost' = (lost \/ Head(queue) = Patio)
  /\ UNCHANGED <<flag, door, wait>>

(* Mutant: the timeout runs on when the wait is over. *)
PassesAlways ==
  /\ patio = "waiting" \/ \E b \in Booster : Counting(run[b])
  /\ NoneDue /\ (patio = "waiting" => wait > 0)
  /\ Elapses
  /\ wait' = wait - 1
  /\ UNCHANGED <<volume, shown, queue, history, flag, door, patio, lost>>

Passes ==
  /\ patio = "waiting" \/ \E b \in Booster : Counting(run[b])
  /\ NoneDue /\ (patio = "waiting" => wait > 0)
  /\ Elapses
  /\ wait' = IF patio = "waiting" THEN wait - 1 ELSE wait
  /\ UNCHANGED <<volume, shown, queue, history, flag, door, patio, lost>>

(* The helper keeps its value over a restart; the run is gone. *)
RestartAll ==
  /\ Restart
  /\ patio' = "idle"
  /\ lost' = (lost \/ patio # "idle")
  /\ UNCHANGED <<flag, door, wait>>

PatioNext ==
  \/ Scan \/ CallScript \/ StartWaiting \/ TimedOut
  \/ OpenDoor \/ CloseDoor
  \/ RunOver
  \/ Unaffected \/ RunFails \/ Passes \/ RestartAll

PatioSpec == PatioInit /\ [][PatioNext]_allVars

(* The runs of the automation and of the script go on, and time passes.    *)
(* Nobody has to come to the door.                                         *)
PatioFairness ==
  /\ WF_allVars(CallScript) /\ WF_allVars(StartWaiting) /\ WF_allVars(TimedOut)
  /\ WF_allVars(Passes)
  /\ WF_allVars(StartRun /\ UNCHANGED patioVars)
  /\ WF_allVars(FinishRun /\ UNCHANGED patioVars)
  /\ WF_allVars(Speaks("script") /\ UNCHANGED patioVars)

FairPatioSpec == PatioSpec /\ PatioFairness

-----------------------------------------------------------------------------
PatioTypeOK ==
  /\ TypeOK
  /\ flag \in BOOLEAN
  /\ door \in BOOLEAN
  /\ patio \in PatioStep
  /\ wait \in Nat
  /\ lost \in BOOLEAN

(* While detection on the rear cameras is off, the run that turns it on    *)
(* again is under way, also while it waits its turn to speak: unless an    *)
(* announcement failed, or a restart came, that run is not lost.           *)
OffIsOwned == flag => lost \/ patio \in {"off_call", "off_said", "waiting"}

(* What the automation says of the cameras is so while it is said, also    *)
(* after runs that failed or were lost in a restart.                       *)
SaysWhatIs ==
  /\ patio = "off_said" => flag
  /\ patio \in {"on_call", "on_said"} => ~flag

(* Detection does not stay off, though nobody closes the door, the queue   *)
(* of announcements is full, or others keep calling: only by an error or a *)
(* restart can it.                                                         *)
OffEnds == flag ~> ~flag \/ lost
=============================================================================
