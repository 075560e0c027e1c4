----------------------------- MODULE ImportCost -----------------------------
(***************************************************************************)
(* The cost of the electricity imported in a day (automations.yaml): four  *)
(* "Electricity Rate" automations each add the cost of the band that ends  *)
(* and set the rate of the next; a snapshot at 23:58 adds the last leg,    *)
(* keeps the sum for the morning and starts again from 0.  The grid-free   *)
(* notification of 20:00 works on the same sensor.                         *)
(*                                                                         *)
(* An automation is a sequence of input_number.set_value calls that are    *)
(* awaited one by one, each with its own reading of the sensor.            *)
(***************************************************************************)
EXTENDS Integers, Sequences

CONSTANTS
  NightRate, DayRate, PeakRate, \* the rates of the bands, as integers
  Fixed,                        \* the fixed charges of a day
  MaxUnits,                     \* bound: units imported between two instants
  Faults,                       \* what may go wrong: see Fault
  MaxFaults                     \* bound: how often

(* Home Assistant is down at an instant, or goes down in a run; the sensor *)
(* becomes unavailable; a unit arrives between two steps of a run.         *)
Fault == {"missed", "crash", "lost", "slip"}

ASSUME RateAssumption ==
  /\ {NightRate, DayRate, PeakRate, Fixed, MaxUnits, MaxFaults} \subseteq Nat
  /\ Faults \subseteq Fault

Instants == <<"08:00", "17:00", "19:00", "20:00", "23:00", "23:58", "00:00">>

RateChange == {"day", "peak", "evening", "night"}
Automation == RateChange \cup {"baseline", "gridfree", "snapshot"}

(* What is triggered at each instant. *)
Triggered(i) ==
  CASE Instants[i] = "08:00" -> {"day", "baseline"}
    [] Instants[i] = "17:00" -> {"peak"}
    [] Instants[i] = "19:00" -> {"evening"}
    [] Instants[i] = "20:00" -> {"gridfree"}
    [] Instants[i] = "23:00" -> {"night"}
    [] Instants[i] = "23:58" -> {"snapshot"}
    [] Instants[i] = "00:00" -> {}

(* The helpers input_number.import_kwh_at_...: the sensor's value when the *)
(* band began.  There is none for midnight, where the sensor starts at 0.  *)
Mark == {"8am", "5pm", "7pm", "11pm"}
BeganAt(a) == CASE a = "peak" -> "8am" [] a = "evening" -> "5pm"
                [] a = "night" -> "7pm" [] a = "snapshot" -> "11pm"
EndsAt(a)  == CASE a = "day" -> "8am" [] a = "peak" -> "5pm"
                [] a = "evening" -> "7pm" [] a = "night" -> "11pm"

NewRate(a) == CASE a \in {"day", "evening"} -> DayRate
                [] a = "peak" -> PeakRate
                [] a = "night" -> NightRate

(* The rate of the units that are imported before instant i. *)
RateBefore(i) == CASE Instants[i] = "17:00" -> DayRate
                   [] Instants[i] = "19:00" -> PeakRate
                   [] Instants[i] \in {"20:00", "23:00"} -> DayRate
                   [] OTHER -> NightRate

VARIABLES
  next,      \* the index of the coming instant
  pc,        \* per automation, the steps its run has left
  meter,     \* sensor.solis_grid_import_today
  readable,  \* is that sensor available?
  cost,      \* input_number.import_cost_today
  mark,      \* input_number.import_kwh_at_*
  rate,      \* input_number.electricity_rate
  yesterday, \* input_number.yesterday_import_cost
  baseline,  \* input_number.grid_import_at_8am_baseline
  (* history *)
  faults,    \* how often something went wrong
  due,       \* what the units imported today cost
  used,      \* units since the last rate change was due
  after8,    \* units since the baseline of 8 am was taken
  wrong,     \* by how much today's sum is off: see Astray and Midnight
  undone,    \* today's automations that were missed or cut off
  clean      \* none of them was, and every reading has found the sensor

helpers == <<cost, mark, rate, yesterday, baseline>>
history == <<faults, due, used, after8, wrong, undone, clean>>
vars    == <<next, pc, meter, readable, helpers, history>>

Fails(kind) == kind \in Faults /\ faults < MaxFaults /\ faults' = faults + 1

Quiet == \A a \in Automation : pc[a] = << >>

-----------------------------------------------------------------------------
Init ==
  /\ next = 1
  /\ pc = [a \in Automation |-> << >>]
  /\ meter = 0
  /\ readable = TRUE
  /\ cost = 0
  /\ mark = [m \in Mark |-> 0]
  /\ rate = NightRate
  /\ yesterday = 0
  /\ baseline = 0
  /\ faults = 0
  /\ due = 0 /\ used = 0 /\ after8 = 0
  /\ wrong = 0
  /\ undone = {}
  /\ clean = TRUE

ComesTo(step) == \E a \in RateChange : pc[a] # << >> /\ Head(pc[a]) = step

(* What is counted too much for a unit that comes now.  Before a run adds  *)
(* its leg the unit still goes to the band that has ended; after that and  *)
(* before the reading is marked it goes to no band at all; and until 8 am  *)
(* it goes at the rate that the day has begun with.                        *)
Astray == IF ComesTo("add") THEN rate - RateBefore(next)
          ELSE IF ComesTo("mark") THEN 0 - RateBefore(next)
          ELSE IF next = 1 THEN rate - NightRate
          ELSE 0

(* A unit is imported.  One that comes while the baseline is being read is *)
(* of before it.                                                           *)
Import ==
  /\ IF Quiet THEN UNCHANGED faults ELSE Fails("slip")
  /\ used < MaxUnits
  /\ meter' = meter + 1
  /\ due' = due + RateBefore(next)
  /\ wrong' = wrong + Astray
  /\ used' = used + 1
  /\ after8' = IF pc["baseline"] = << >> THEN after8 + 1 ELSE after8
  /\ UNCHANGED <<next, pc, readable, helpers, undone, clean>>

LosesSensor ==
  /\ readable /\ Fails("lost")
  /\ readable' = FALSE
  /\ UNCHANGED <<next, pc, meter, helpers, due, used, after8, wrong, undone, clean>>

FindsSensor ==
  /\ ~readable
  /\ readable' = TRUE
  /\ UNCHANGED <<next, pc, meter, helpers, history>>

-----------------------------------------------------------------------------
(* The clock reaches an instant and the automations of the instant run.    *)

StepsOf(a) == CASE a \in RateChange -> <<"add", "mark", "rate">>
                [] a = "snapshot"   -> <<"keep", "reset">>
                [] OTHER            -> <<"only">>

Changes(i) == Triggered(i) \cap (RateChange \cup {"snapshot"}) # {}

Strikes(runs) ==
  /\ Quiet
  /\ next < Len(Instants)
  /\ next' = next + 1
  /\ pc' = [a \in Automation |-> IF runs /\ a \in Triggered(next) THEN StepsOf(a)
                                 ELSE << >>]
  /\ undone' = IF runs THEN undone ELSE undone \cup Triggered(next)
  /\ clean' = (clean /\ runs)
  /\ used' = IF Changes(next) THEN 0 ELSE used
  /\ after8' = IF Instants[next] = "08:00" THEN 0 ELSE after8
  /\ UNCHANGED <<meter, readable, helpers, due, wrong>>

InTime == Strikes(TRUE) /\ UNCHANGED faults
Missed == Strikes(FALSE) /\ Fails("missed")

(* The inverter starts its count of the day again.  The sum that the new   *)
(* day finds is not of its own units.                                      *)
Midnight ==
  /\ Quiet
  /\ next = Len(Instants)
  /\ next' = 1
  /\ meter' = 0
  /\ due' = 0 /\ used' = 0 /\ after8' = 0
  /\ wrong' = cost
  /\ undone' = {}
  /\ clean' = TRUE
  /\ UNCHANGED <<pc, readable, helpers, faults>>

(* Home Assistant goes down in the middle of a run. *)
Crash ==
  /\ ~Quiet /\ Fails("crash")
  /\ pc' = [a \in Automation |-> << >>]
  /\ undone' = undone \cup {a \in Automation : pc[a] # << >>}
  /\ clean' = FALSE
  /\ UNCHANGED <<next, meter, readable, helpers, due, used, after8, wrong>>

-----------------------------------------------------------------------------
(* The steps of the runs.  A sensor that is not available reads as 0.      *)

Reading == IF readable THEN meter ELSE 0

(* Mutants: a band is counted from midnight; a leg may be negative. *)
LegFromMidnight(x, y) == x
LegSigned(x, y) == x - y

(* [x - y, 0] | max *)
Leg(x, y) == IF x > y THEN x - y ELSE 0

Does(a, step) ==
  /\ pc[a] # << >> /\ Head(pc[a]) = step
  /\ pc' = [pc EXCEPT ![a] = Tail(@)]
  /\ UNCHANGED <<next, meter, readable, faults, due, used, after8, wrong, undone>>

Reads == clean' = (clean /\ readable)

Began(a) == IF a = "day" THEN 0 ELSE mark[BeganAt(a)]

Adds(a) ==
  /\ Does(a, "add") /\ Reads
  /\ cost' = cost + Leg(Reading, Began(a)) * rate
  /\ UNCHANGED <<mark, rate, yesterday, baseline>>

(* Mutant: the evening does not mark where it begins. *)
MarksNotEvening(a) ==
  /\ Does(a, "mark") /\ Reads
  /\ mark' = IF a = "evening" THEN mark ELSE [mark EXCEPT ![EndsAt(a)] = Reading]
  /\ UNCHANGED <<cost, rate, yesterday, baseline>>

Marks(a) ==
  /\ Does(a, "mark") /\ Reads
  /\ mark' = [mark EXCEPT ![EndsAt(a)] = Reading]
  /\ UNCHANGED <<cost, rate, yesterday, baseline>>

SetsRate(a) ==
  /\ Does(a, "rate")
  /\ rate' = NewRate(a)
  /\ UNCHANGED <<cost, mark, yesterday, baseline, clean>>

Keeps ==
  /\ Does("snapshot", "keep") /\ Reads
  /\ yesterday' = cost + Leg(Reading, Began("snapshot")) * rate + Fixed
  /\ UNCHANGED <<cost, mark, rate, baseline>>

(* Mutant: the sum is not started again. *)
ResetsNothing ==
  /\ Does("snapshot", "reset")
  /\ UNCHANGED <<helpers, clean>>

Resets ==
  /\ Does("snapshot", "reset")
  /\ cost' = 0
  /\ UNCHANGED <<mark, rate, yesterday, baseline, clean>>

TakesBaseline ==
  /\ Does("baseline", "only") /\ Reads
  /\ baseline' = Reading
  /\ UNCHANGED <<cost, mark, rate, yesterday>>

(* Mutant: a unit does not count. *)
SaysGridFreeOfMore == Reading - baseline < 2

(* The condition of the notification, "< 0.1" kWh. *)
SaysGridFree == Reading - baseline < 1

ChecksGridFree ==
  /\ Does("gridfree", "only") /\ Reads
  /\ UNCHANGED helpers

-----------------------------------------------------------------------------
Next ==
  \/ Import \/ LosesSensor \/ FindsSensor
  \/ InTime \/ Missed \/ Midnight \/ Crash
  \/ \E a \in RateChange : Adds(a) \/ Marks(a) \/ SetsRate(a)
  \/ Keeps \/ Resets
  \/ TakesBaseline \/ ChecksGridFree

Spec == Init /\ [][Next]_vars

-----------------------------------------------------------------------------
TypeOK ==
  /\ next \in 1..Len(Instants)
  /\ \A a \in Automation : pc[a] \in Seq({"add", "mark", "rate", "keep", "reset", "only"})
  /\ meter \in Nat
  /\ readable \in BOOLEAN
  /\ cost \in Nat
  /\ mark \in [Mark -> Nat]
  /\ rate \in {NightRate, DayRate, PeakRate}
  /\ yesterday \in Nat
  /\ baseline \in Nat
  /\ {faults, due, used, after8} \subseteq Nat
  /\ wrong \in Int
  /\ undone \subseteq Automation
  /\ clean \in BOOLEAN

(* The mark that the coming rate change (or snapshot) counts from. *)
Since == CASE Instants[next] = "08:00" -> 0
           [] Instants[next] = "17:00" -> mark["8am"]
           [] Instants[next] = "19:00" -> mark["5pm"]
           [] Instants[next] \in {"20:00", "23:00"} -> mark["7pm"]
           [] OTHER -> mark["11pm"]

(* On a day whose runs were in time, were not cut off and found the        *)
(* sensor, what has been added up and the leg that is running are what the *)
(* units of the day cost, each at the rate of its band, but for what is    *)
(* known to be wrong: the sum that the day began with, the units of the    *)
(* night at a rate that it began with, and units that came between two     *)
(* steps of a run (Astray).  Nothing else of another day, no mark of it in *)
(* particular, is counted.                                                 *)
AddsUp ==
  clean /\ Quiet /\ next < Len(Instants)
  => cost + Leg(meter, Since) * rate = due + wrong

Carries ==
  /\ cost # 0 => "snapshot" \in undone
  /\ rate # NightRate => "night" \in undone

(* How an error goes from one day into the next: a sum, only if the        *)
(* snapshot of 23:58 was missed or cut off; a rate, only if the night's    *)
(* automation was.  Whatever else went wrong in the day ends with it.      *)
StartsAfresh == [][Midnight => Carries]_vars

(* The cost that is reported in the morning of such a day is that of its   *)
(* units up to the snapshot, and what is known to be wrong.                *)
ReportsTheDay ==
  [][ Keeps /\ clean /\ readable => yesterday' = due + wrong + Fixed ]_vars

(* The house is told of a grid-free day although it has imported since 8   *)
(* am in two ways only: the sensor is unavailable at 20:00, which reads as *)
(* 0, or the baseline of the day was missed or cut off.  A sensor that is  *)
(* unavailable at 8 am, or a fault of another run, does not bring it about. *)
GridFreeIsTrue ==
  [][ ChecksGridFree /\ SaysGridFree /\ after8 > 0
      => ~readable \/ "baseline" \in undone ]_vars
=============================================================================
