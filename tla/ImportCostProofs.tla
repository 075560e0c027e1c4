-------------------------- MODULE ImportCostProofs --------------------------
(***************************************************************************)
(* The cost of the electricity imported in a day adds up, for any rates,   *)
(* any units and any faults, and an error that is carried into the next    *)
(* day is that of a snapshot or of a night's automation that did not run.  *)
(***************************************************************************)
EXTENDS ImportCost, TLAPS

LEMMA Rates ==
  /\ NightRate \in Nat /\ DayRate \in Nat /\ PeakRate \in Nat
  /\ Fixed \in Nat /\ MaxUnits \in Nat /\ MaxFaults \in Nat
BY RateAssumption

(* The instants, one by one. *)
LEMMA Day ==
  /\ Len(Instants) = 7
  /\ Instants[1] = "08:00" /\ Instants[2] = "17:00" /\ Instants[3] = "19:00"
  /\ Instants[4] = "20:00" /\ Instants[5] = "23:00" /\ Instants[6] = "23:58"
  /\ Instants[7] = "00:00"
BY DEF Instants

LEMMA TriggeredAt ==
  /\ Triggered(1) = {"day", "baseline"}
  /\ Triggered(2) = {"peak"}
  /\ Triggered(3) = {"evening"}
  /\ Triggered(4) = {"gridfree"}
  /\ Triggered(5) = {"night"}
  /\ Triggered(6) = {"snapshot"}
  /\ Triggered(7) = {}
BY Day DEF Triggered

LEMMA RateAt ==
  /\ RateBefore(1) = NightRate
  /\ RateBefore(2) = DayRate
  /\ RateBefore(3) = PeakRate
  /\ RateBefore(4) = DayRate
  /\ RateBefore(5) = DayRate
  /\ RateBefore(6) = NightRate
  /\ RateBefore(7) = NightRate
BY Day DEF RateBefore

(* What a run may have left, and of which instant it is. *)
Left(a) == CASE a \in RateChange -> {<< >>, <<"rate">>, <<"mark", "rate">>, <<"add", "mark", "rate">>}
             [] a = "snapshot"   -> {<< >>, <<"reset">>, <<"keep", "reset">>}
             [] OTHER            -> {<< >>, <<"only">>}

Steps == Seq({"add", "mark", "rate", "keep", "reset", "only"})

Runs ==
  /\ next \in 1..7
  /\ pc \in [Automation -> Steps]
  /\ \A a \in Automation :
       /\ pc[a] \in Left(a)
       /\ pc[a] # << >> => next > 1 /\ a \in Triggered(next - 1)

LEMMA RunsAdd ==
  ASSUME Runs, NEW a \in RateChange, Does(a, "add")
  PROVE  pc[a] = <<"add", "mark", "rate">> /\ pc' = [pc EXCEPT ![a] = <<"mark", "rate">>]
<1>1. pc[a] \in {<< >>, <<"rate">>, <<"mark", "rate">>, <<"add", "mark", "rate">>}
  BY DEF Runs, Left, RateChange, Automation
<1>2. pc[a] = <<"add", "mark", "rate">>
  BY <1>1 DEF Does
<1>3. Tail(<<"add", "mark", "rate">>) = <<"mark", "rate">>
  OBVIOUS
<1> QED
  BY <1>2, <1>3 DEF Does

LEMMA RunsMark ==
  ASSUME Runs, NEW a \in RateChange, Does(a, "mark")
  PROVE  pc[a] = <<"mark", "rate">> /\ pc' = [pc EXCEPT ![a] = <<"rate">>]
<1>1. pc[a] \in {<< >>, <<"rate">>, <<"mark", "rate">>, <<"add", "mark", "rate">>}
  BY DEF Runs, Left, RateChange, Automation
<1>2. pc[a] = <<"mark", "rate">>
  BY <1>1 DEF Does
<1>3. Tail(<<"mark", "rate">>) = <<"rate">>
  OBVIOUS
<1> QED
  BY <1>2, <1>3 DEF Does

LEMMA RunsRate ==
  ASSUME Runs, NEW a \in RateChange, Does(a, "rate")
  PROVE  pc[a] = <<"rate">> /\ pc' = [pc EXCEPT ![a] = << >>]
<1>1. pc[a] \in {<< >>, <<"rate">>, <<"mark", "rate">>, <<"add", "mark", "rate">>}
  BY DEF Runs, Left, RateChange, Automation
<1>2. pc[a] = <<"rate">>
  BY <1>1 DEF Does
<1>3. Tail(<<"rate">>) = << >>
  OBVIOUS
<1> QED
  BY <1>2, <1>3 DEF Does

LEMMA RunsKeep ==
  ASSUME Runs, Does("snapshot", "keep")
  PROVE  pc["snapshot"] = <<"keep", "reset">> /\ pc' = [pc EXCEPT !["snapshot"] = <<"reset">>]
<1>1. pc["snapshot"] \in {<< >>, <<"reset">>, <<"keep", "reset">>}
  BY DEF Runs, Left, RateChange, Automation
<1>2. pc["snapshot"] = <<"keep", "reset">>
  BY <1>1 DEF Does
<1>3. Tail(<<"keep", "reset">>) = <<"reset">>
  OBVIOUS
<1> QED
  BY <1>2, <1>3 DEF Does

LEMMA RunsReset ==
  ASSUME Runs, Does("snapshot", "reset")
  PROVE  pc["snapshot"] = <<"reset">> /\ pc' = [pc EXCEPT !["snapshot"] = << >>]
<1>1. pc["snapshot"] \in {<< >>, <<"reset">>, <<"keep", "reset">>}
  BY DEF Runs, Left, RateChange, Automation
<1>2. pc["snapshot"] = <<"reset">>
  BY <1>1 DEF Does
<1>3. Tail(<<"reset">>) = << >>
  OBVIOUS
<1> QED
  BY <1>2, <1>3 DEF Does

LEMMA RunsOnly ==
  ASSUME Runs, NEW a \in {"baseline", "gridfree"}, Does(a, "only")
  PROVE  pc[a] = <<"only">> /\ pc' = [pc EXCEPT ![a] = << >>]
<1>1. pc[a] \in {<< >>, <<"only">>}
  BY DEF Runs, Left, RateChange, Automation
<1>2. pc[a] = <<"only">>
  BY <1>1 DEF Does
<1>3. Tail(<<"only">>) = << >>
  OBVIOUS
<1> QED
  BY <1>2, <1>3 DEF Does

(* What is left after a step is something that a run may have left. *)
LEMMA Rests ==
  /\ << >> \in Steps /\ \A a \in Automation : << >> \in Left(a)
  /\ {<<"rate">>, <<"mark", "rate">>, <<"reset">>} \subseteq Steps
  /\ \A a \in RateChange : {<<"rate">>, <<"mark", "rate">>} \subseteq Left(a)
  /\ <<"reset">> \in Left("snapshot")
<1>1. /\ << >> \in Steps
      /\ <<"rate">> \in Steps /\ <<"mark", "rate">> \in Steps /\ <<"reset">> \in Steps
  BY DEF Steps
<1>2. \A a \in Automation : << >> \in Left(a)
  BY DEF Left
<1>3. \A a \in RateChange : {<<"rate">>, <<"mark", "rate">>} \subseteq Left(a)
  BY DEF Left, RateChange
<1>4. <<"reset">> \in Left("snapshot")
  BY DEF Left, RateChange
<1> QED
  BY <1>1, <1>2, <1>3, <1>4

LEMMA StartsWith == \A a \in Automation : StepsOf(a) \in Steps /\ StepsOf(a) \in Left(a)
<1> SUFFICES ASSUME NEW a \in Automation PROVE StepsOf(a) \in Steps /\ StepsOf(a) \in Left(a)
  OBVIOUS
<1>1. CASE a \in RateChange
  <2>1. StepsOf(a) = <<"add", "mark", "rate">>
    BY <1>1 DEF StepsOf, RateChange
  <2>2. <<"add", "mark", "rate">> \in Steps
    BY DEF Steps
  <2>3. <<"add", "mark", "rate">> \in Left(a)
    BY <1>1 DEF Left, RateChange
  <2> QED
    BY <2>1, <2>2, <2>3
<1>2. CASE a = "snapshot"
  <2>1. StepsOf(a) = <<"keep", "reset">>
    BY <1>2 DEF StepsOf, RateChange
  <2>2. <<"keep", "reset">> \in Steps
    BY DEF Steps
  <2>3. <<"keep", "reset">> \in Left(a)
    BY <1>2 DEF Left, RateChange
  <2> QED
    BY <2>1, <2>2, <2>3
<1>3. CASE a \in {"baseline", "gridfree"}
  <2>1. StepsOf(a) = <<"only">>
    BY <1>3 DEF StepsOf, RateChange
  <2>2. <<"only">> \in Steps
    BY DEF Steps
  <2>3. <<"only">> \in Left(a)
    BY <1>3 DEF Left, RateChange
  <2> QED
    BY <2>1, <2>2, <2>3
<1> QED
  BY <1>1, <1>2, <1>3 DEF Automation

(* A step of a run leaves the rest of it. *)
LEMMA RunGoesOn ==
  ASSUME Runs, UNCHANGED next, NEW a \in Automation, NEW rest \in Left(a) \cap Steps,
         pc[a] # << >>, pc' = [pc EXCEPT ![a] = rest]
  PROVE  Runs'
<1>1. pc' \in [Automation -> Steps]
  BY DEF Runs
<1>2. \A b \in Automation : pc'[b] \in Left(b) /\ (pc'[b] # << >> => pc[b] # << >>)
  BY DEF Runs
<1> QED
  BY <1>1, <1>2 DEF Runs

LEMMA RunsInit == Init => Runs
BY Rests DEF Init, Runs

LEMMA RunsStep == Runs /\ [Next]_vars => Runs'
<1> SUFFICES ASSUME Runs, [Next]_vars PROVE Runs'
  OBVIOUS
<1>1. CASE Import \/ LosesSensor \/ FindsSensor \/ UNCHANGED vars
  BY <1>1 DEF Import, LosesSensor, FindsSensor, vars, Runs
<1>2. ASSUME NEW runs \in BOOLEAN, Strikes(runs) PROVE Runs'
  <2>1. next \in 1..6 /\ next' = next + 1
    BY <1>2, Day DEF Strikes, Runs
  <2>2. pc' = [a \in Automation |-> IF runs /\ a \in Triggered(next) THEN StepsOf(a) ELSE << >>]
    BY <1>2 DEF Strikes
  <2>3. pc' \in [Automation -> Steps]
    BY <2>2, StartsWith, Rests
  <2>4. \A a \in Automation : pc'[a] \in Left(a) /\ (pc'[a] # << >> => a \in Triggered(next' - 1))
    BY <2>1, <2>2, StartsWith, Rests
  <2> QED
    BY <2>1, <2>3, <2>4 DEF Runs
<1>3. CASE Midnight \/ Crash
  <2>1. next' \in 1..7
    BY <1>3 DEF Midnight, Crash, Runs
  <2>2. pc' = [a \in Automation |-> << >>]
    BY <1>3 DEF Midnight, Crash, Quiet, Runs
  <2> QED
    BY <2>1, <2>2, Rests DEF Runs
<1>4. ASSUME NEW a \in RateChange, Adds(a) \/ Marks(a) \/ SetsRate(a) PROVE Runs'
  <2>1. a \in Automation
    BY DEF Automation
  <2>2. CASE Adds(a)
    BY <2>1, <2>2, RunsAdd, RunGoesOn, Rests DEF Adds, Does
  <2>3. CASE Marks(a)
    BY <2>1, <2>3, RunsMark, RunGoesOn, Rests DEF Marks, Does
  <2>4. CASE SetsRate(a)
    BY <2>1, <2>4, RunsRate, RunGoesOn, Rests DEF SetsRate, Does
  <2> QED
    BY <1>4, <2>2, <2>3, <2>4
<1>5. ASSUME NEW a \in Automation \ RateChange, NEW step, Does(a, step) PROVE Runs'
  <2>1. CASE a = "snapshot"
    <3>1. step \in {"keep", "reset"}
      BY <1>5, <2>1 DEF Does, Runs, Left, RateChange
    <3> QED
      BY <1>5, <2>1, <3>1, RunsKeep, RunsReset, RunGoesOn, Rests DEF Does
  <2>2. CASE a \in {"baseline", "gridfree"}
    <3>1. step = "only"
      BY <1>5, <2>2 DEF Does, Runs, Left, RateChange
    <3> QED
      BY <1>5, <2>2, <3>1, RunsOnly, RunGoesOn, Rests DEF Does
  <2> QED
    BY <2>1, <2>2 DEF Automation
<1>6. CASE Keeps \/ Resets \/ TakesBaseline \/ ChecksGridFree
  BY <1>5, <1>6 DEF Keeps, Resets, TakesBaseline, ChecksGridFree, Automation, RateChange
<1> QED
  BY <1>1, <1>2, <1>3, <1>4, <1>6 DEF Next, InTime, Missed

-----------------------------------------------------------------------------
(* Amounts are natural numbers. *)

Amounts ==
  /\ meter \in Nat /\ cost \in Nat /\ yesterday \in Nat /\ baseline \in Nat
  /\ mark \in [Mark -> Nat]
  /\ rate \in {NightRate, DayRate, PeakRate}
  /\ faults \in Nat /\ due \in Nat /\ used \in Nat /\ after8 \in Nat
  /\ wrong \in Int

Flags == readable \in BOOLEAN /\ clean \in BOOLEAN /\ undone \subseteq Automation

LEMMA LegIsNat == \A x, y \in Nat : Leg(x, y) \in Nat
BY DEF Leg

LEMMA Product == \A x, y \in Nat : x * y \in Nat
OBVIOUS

LEMMA BandsHaveMarks ==
  /\ \A a \in RateChange : EndsAt(a) \in Mark /\ NewRate(a) \in {NightRate, DayRate, PeakRate}
  /\ \A a \in RateChange \cup {"snapshot"} : a # "day" => BeganAt(a) \in Mark
BY DEF EndsAt, BeganAt, NewRate, Mark, RateChange

LEMMA AmountsInit == Init => Amounts
BY DEF Init, Amounts

LEMMA AmountsStep == Amounts /\ [Next]_vars => Amounts'
<1> SUFFICES ASSUME Amounts, [Next]_vars PROVE Amounts'
  OBVIOUS
<1> USE Rates DEF Amounts, helpers, history
<1>0. Reading \in Nat
  BY DEF Reading
<1>1. CASE Import
  <2>1. RateBefore(next) \in Nat
    BY DEF RateBefore
  <2>2. rate \in Nat
    OBVIOUS
  <2>3. Astray \in Int
    BY <2>1, <2>2 DEF Astray
  <2>4. wrong' \in Int /\ due' \in Nat
    BY <1>1, <2>1, <2>3 DEF Import
  <2>5. after8' \in Nat /\ used' \in Nat /\ meter' \in Nat
    BY <1>1 DEF Import
  <2>6. faults' \in Nat
    BY <1>1 DEF Import, Fails
  <2>7. UNCHANGED <<cost, mark, rate, yesterday, baseline>>
    BY <1>1 DEF Import
  <2> QED
    BY <2>4, <2>5, <2>6, <2>7
<1>2. CASE LosesSensor \/ FindsSensor
  BY <1>2 DEF LosesSensor, FindsSensor, Fails
<1>3. ASSUME NEW runs \in BOOLEAN, Strikes(runs), UNCHANGED faults \/ Fails("missed")
      PROVE  Amounts'
  BY <1>3 DEF Strikes, Fails
<1>4. CASE Midnight \/ Crash
  <2>1. CASE Midnight
    BY <2>1 DEF Midnight
  <2>2. CASE Crash
    BY <2>2 DEF Crash, Fails
  <2> QED
    BY <1>4, <2>1, <2>2
<1>5. ASSUME NEW a \in RateChange, Adds(a) PROVE Amounts'
  <2>1. Began(a) \in Nat
    BY BandsHaveMarks DEF Began
  <2>2. Leg(Reading, Began(a)) \in Nat /\ rate \in Nat
    BY <1>0, <2>1, LegIsNat
  <2>3. cost' \in Nat
    BY <1>5, <2>2, Product DEF Adds
  <2> QED
    BY <1>5, <2>3 DEF Adds, Does, Reads
<1>6. ASSUME NEW a \in RateChange, Marks(a) PROVE Amounts'
  BY <1>0, <1>6, BandsHaveMarks DEF Marks, Does, Reads
<1>7. ASSUME NEW a \in RateChange, SetsRate(a) PROVE Amounts'
  BY <1>7, BandsHaveMarks DEF SetsRate, Does
<1>8. CASE Keeps
  <2>1. Began("snapshot") \in Nat
    BY BandsHaveMarks DEF Began
  <2>2. Leg(Reading, Began("snapshot")) \in Nat /\ rate \in Nat
    BY <1>0, <2>1, LegIsNat
  <2>3. yesterday' \in Nat
    BY <1>8, <2>2, Product DEF Keeps
  <2> QED
    BY <1>8, <2>3 DEF Keeps, Does, Reads
<1>9. CASE Resets \/ TakesBaseline \/ ChecksGridFree
  <2>1. CASE Resets
    BY <2>1 DEF Resets, Does
  <2>2. CASE TakesBaseline
    BY <1>0, <2>2 DEF TakesBaseline, Does, Reads
  <2>3. CASE ChecksGridFree
    BY <2>3 DEF ChecksGridFree, Does, Reads
  <2> QED
    BY <1>9, <2>1, <2>2, <2>3
<1>10. CASE UNCHANGED vars
  BY <1>10 DEF vars
<1> QED
  BY <1>1, <1>2, <1>3, <1>4, <1>5, <1>6, <1>7, <1>8, <1>9, <1>10 DEF Next, InTime, Missed

LEMMA FlagsStep == Runs /\ Flags /\ [Next]_vars => Flags'
<1> SUFFICES ASSUME Runs, Flags, [Next]_vars PROVE Flags'
  OBVIOUS
<1> USE DEF Flags
<1>1. CASE Import
  BY <1>1 DEF Import
<1>2. CASE LosesSensor
  BY <1>2 DEF LosesSensor
<1>3. CASE FindsSensor
  BY <1>3 DEF FindsSensor, history
<1>4. ASSUME NEW runs \in BOOLEAN, Strikes(runs) PROVE Flags'
  <2>1. Triggered(next) \subseteq Automation
    BY TriggeredAt DEF Runs, Automation, RateChange
  <2>2. undone' \subseteq Automation
    BY <1>4, <2>1 DEF Strikes
  <2> QED
    BY <1>4, <2>2 DEF Strikes
<1>5. CASE Midnight \/ Crash
  <2>1. CASE Midnight
    BY <2>1 DEF Midnight
  <2>2. CASE Crash
    BY <2>2 DEF Crash
  <2> QED
    BY <1>5, <2>1, <2>2
<1>6. ASSUME NEW a \in RateChange, Adds(a) \/ Marks(a) \/ SetsRate(a) PROVE Flags'
  BY <1>6 DEF Adds, Marks, SetsRate, Does, Reads
<1>7. CASE Keeps \/ Resets \/ TakesBaseline \/ ChecksGridFree
  BY <1>7 DEF Keeps, Resets, TakesBaseline, ChecksGridFree, Does, Reads
<1>8. CASE UNCHANGED vars
  BY <1>8 DEF vars, history
<1> QED
  BY <1>1, <1>2, <1>3, <1>4, <1>5, <1>6, <1>7, <1>8 DEF Next, InTime, Missed

(* Every state has its type: no amount is ever negative. *)
THEOREM ImportTypes == Spec => []TypeOK
<1>1. Amounts /\ Flags /\ Runs => TypeOK
  BY Day DEF Amounts, Flags, Runs, Steps, TypeOK
<1>2. Init => Flags
  BY DEF Init, Flags
<1> QED
  BY <1>1, <1>2, AmountsInit, AmountsStep, FlagsStep, RunsInit, RunsStep, PTL DEF Spec

-----------------------------------------------------------------------------
(* What the sum is at every step of the day.  Counted from x, the leg that *)
(* is running makes up for what the sum does not have yet.                 *)

Counts(x) == x <= meter /\ cost + (meter - x) * rate = due + wrong

Band(a) ==
  /\ pc[a] = << >> => Counts(mark[EndsAt(a)]) /\ rate = NewRate(a)
  /\ pc[a] = <<"rate">> =>
       /\ mark[EndsAt(a)] <= meter
       /\ cost + (meter - mark[EndsAt(a)]) * NewRate(a) = due + wrong
  /\ pc[a] = <<"mark", "rate">> => cost = due + wrong
  /\ pc[a] = <<"add", "mark", "rate">> => Counts(Began(a))

Adding ==
  clean =>
    /\ next = 1 => Counts(0)
    /\ next = 2 => Band("day")
    /\ next = 3 => Band("peak")
    /\ next \in {4, 5} => Band("evening")
    /\ next = 6 => Band("night")
    /\ next = 7 => /\ rate = NightRate
                   /\ pc["snapshot"] = <<"keep", "reset">> => Counts(mark["11pm"])

(* From 8 am on the baseline is what the meter had then, or 0. *)
Based ==
  next > 1 /\ "baseline" \notin undone =>
    /\ pc["baseline"] = << >> => baseline + after8 <= meter
    /\ pc["baseline"] # << >> => after8 = 0

(* The bands, one by one. *)
LEMMA Bands ==
  /\ EndsAt("day") = "8am" /\ EndsAt("peak") = "5pm"
  /\ EndsAt("evening") = "7pm" /\ EndsAt("night") = "11pm"
  /\ NewRate("day") = DayRate /\ NewRate("peak") = PeakRate
  /\ NewRate("evening") = DayRate /\ NewRate("night") = NightRate
  /\ Began("day") = 0 /\ Began("peak") = mark["8am"] /\ Began("evening") = mark["5pm"]
  /\ Began("night") = mark["7pm"] /\ Began("snapshot") = mark["11pm"]
BY DEF EndsAt, NewRate, Began, BeganAt

(* When a run is under way, it is that of the last instant. *)
LEMMA RunsOf ==
  ASSUME Runs
  PROVE  /\ pc["day"] # << >> => next = 2
         /\ pc["peak"] # << >> => next = 3
         /\ pc["evening"] # << >> => next = 4
         /\ pc["night"] # << >> => next = 6
         /\ pc["snapshot"] # << >> => next = 7
         /\ pc["baseline"] # << >> => next = 2
BY TriggeredAt DEF Runs, Automation, RateChange

(* A unit keeps a count e that becomes f. *)
LEMMA UnitCounts ==
  ASSUME NEW m \in Nat, NEW x \in Nat, NEW c \in Nat, NEW r \in Nat,
         NEW e \in Int, NEW f \in Int, x <= m, c + (m - x) * r = e, f = e + r
  PROVE  x <= m + 1 /\ c + ((m + 1) - x) * r = f
<1>1. ((m + 1) - x) * r = (m - x) * r + r
  OBVIOUS
<1>2. (m - x) * r \in Int
  OBVIOUS
<1> QED
  BY <1>1, <1>2

(* A unit as it comes, by what the run that is under way has left. *)
LEMMA AstrayAt ==
  ASSUME Runs
  PROVE  /\ \A a \in RateChange :
              /\ pc[a] = <<"add", "mark", "rate">> => Astray = rate - RateBefore(next)
              /\ pc[a] = <<"mark", "rate">> => Astray = 0 - RateBefore(next)
              /\ pc[a] = <<"rate">> => Astray = 0
         /\ (\A a \in RateChange : pc[a] = << >>) /\ next = 1 => Astray = rate - NightRate
         /\ (\A a \in RateChange : pc[a] = << >>) /\ next # 1 => Astray = 0
<1>1. ASSUME NEW a \in RateChange, pc[a] # << >>
      PROVE  next # 1 /\ \A b \in RateChange : b # a => pc[b] = << >>
  BY <1>1, RunsOf DEF RateChange
<1>2. /\ Head(<<"add", "mark", "rate">>) = "add" /\ <<"add", "mark", "rate">> # << >>
      /\ Head(<<"mark", "rate">>) = "mark" /\ <<"mark", "rate">> # << >>
      /\ Head(<<"rate">>) = "rate" /\ <<"rate">> # << >>
  OBVIOUS
<1>3. ASSUME NEW a \in RateChange, pc[a] = <<"add", "mark", "rate">>
      PROVE  Astray = rate - RateBefore(next)
  BY <1>2, <1>3 DEF Astray, ComesTo
<1>4. ASSUME NEW a \in RateChange, pc[a] = <<"mark", "rate">>
      PROVE  Astray = 0 - RateBefore(next)
  <2>1. ComesTo("mark") /\ ~ComesTo("add")
    BY <1>1, <1>2, <1>4 DEF ComesTo
  <2> QED
    BY <2>1 DEF Astray
<1>5. ASSUME NEW a \in RateChange, pc[a] = <<"rate">>
      PROVE  Astray = 0
  <2>1. ~ComesTo("mark") /\ ~ComesTo("add") /\ next # 1
    BY <1>1, <1>2, <1>5 DEF ComesTo
  <2> QED
    BY <2>1 DEF Astray
<1>6. ASSUME \A a \in RateChange : pc[a] = << >>
      PROVE  ~ComesTo("mark") /\ ~ComesTo("add")
  BY <1>6 DEF ComesTo
<1>7. (\A a \in RateChange : pc[a] = << >>) /\ next = 1 => Astray = rate - NightRate
  BY <1>6 DEF Astray
<1>8. (\A a \in RateChange : pc[a] = << >>) /\ next # 1 => Astray = 0
  BY <1>6 DEF Astray
<1> QED
  BY <1>3, <1>4, <1>5, <1>7, <1>8

(* What a band's run adds is the leg it counts. *)
LEMMA LegCounts ==
  ASSUME Amounts, NEW x \in Nat, Counts(x), readable
  PROVE  cost + Leg(Reading, x) * rate = due + wrong
BY DEF Amounts, Counts, Leg, Reading

LEMMA CountsFromHere ==
  ASSUME NEW m \in Nat, NEW r \in Nat, NEW c \in Nat
  PROVE  c + (m - m) * r = c
OBVIOUS

LEMMA AddingInit == Init => Adding /\ Based
BY Rates DEF Init, Adding, Based, Counts

(* A band whose run has ended is counted from its mark. *)
LEMMA Rested ==
  ASSUME NEW a \in RateChange, pc[a] = << >>, Counts(mark[EndsAt(a)]), rate = NewRate(a)
  PROVE  Band(a)
BY DEF Band

(* The band of a unit that comes, whatever its run has left. *)
LEMMA BandImport ==
  ASSUME Amounts, Runs, Import, NEW a \in RateChange, Band(a), next # 1,
         RateBefore(next) = NewRate(a),
         \A b \in RateChange : b # a => pc[b] = << >>
  PROVE  Band(a)'
<1>1. /\ UNCHANGED <<next, pc, cost, mark, rate>>
      /\ meter' = meter + 1 /\ due' = due + NewRate(a) /\ wrong' = wrong + Astray
  BY DEF Import, helpers
<1>2. /\ meter \in Nat /\ cost \in Nat /\ rate \in Nat /\ due \in Nat /\ wrong \in Int
      /\ mark[EndsAt(a)] \in Nat /\ NewRate(a) \in Nat /\ Began(a) \in Nat
      /\ due + wrong \in Int
  BY Rates, BandsHaveMarks DEF Amounts, Began
<1>3. Began(a)' = Began(a)
  BY <1>1 DEF Began
<1>4. CASE pc[a] = << >>
  <2>1. Counts(mark[EndsAt(a)]) /\ rate = NewRate(a)
    BY <1>4 DEF Band
  <2>2. Astray = 0
    BY <1>4, AstrayAt
  <2>3. due' + wrong' = (due + wrong) + rate /\ due' + wrong' \in Int
    BY <1>1, <1>2, <2>1, <2>2
  <2>4. /\ mark[EndsAt(a)] <= meter + 1
        /\ cost + ((meter + 1) - mark[EndsAt(a)]) * rate = due' + wrong'
    <3> DEFINE x == mark[EndsAt(a)]
    <3> DEFINE e == due + wrong
    <3> DEFINE f == due' + wrong'
    <3>1. meter \in Nat /\ cost \in Nat /\ x \in Nat /\ rate \in Nat /\ e \in Int /\ f \in Int
      BY <1>2, <2>3
    <3>2. x <= meter /\ cost + (meter - x) * rate = e /\ f = e + rate
      BY <2>1, <2>3 DEF Counts
    <3> HIDE DEF x
    <3> HIDE DEF e
    <3> HIDE DEF f
    <3>3. x <= meter + 1 /\ cost + ((meter + 1) - x) * rate = f
      BY <3>1, <3>2, UnitCounts
    <3> QED
      BY <3>3 DEF x, f
  <2>5. Counts(mark[EndsAt(a)])'
    BY <1>1, <2>4 DEF Counts
  <2> QED
    BY <1>1, <1>4, <2>1, <2>5 DEF Band
<1>5. CASE pc[a] = <<"rate">>
  <2>1. mark[EndsAt(a)] <= meter /\ cost + (meter - mark[EndsAt(a)]) * NewRate(a) = due + wrong
    BY <1>5 DEF Band
  <2>2. Astray = 0
    BY <1>5, AstrayAt
  <2>3. due' + wrong' = (due + wrong) + NewRate(a) /\ due' + wrong' \in Int
    BY <1>1, <1>2, <2>2
  <2>4. /\ mark[EndsAt(a)] <= meter + 1
        /\ cost + ((meter + 1) - mark[EndsAt(a)]) * NewRate(a) = due' + wrong'
    <3> DEFINE x == mark[EndsAt(a)]
    <3> DEFINE r == NewRate(a)
    <3> DEFINE e == due + wrong
    <3> DEFINE f == due' + wrong'
    <3>1. meter \in Nat /\ cost \in Nat /\ x \in Nat /\ r \in Nat /\ e \in Int /\ f \in Int
      BY <1>2, <2>3
    <3>2. x <= meter /\ cost + (meter - x) * r = e /\ f = e + r
      BY <2>1, <2>3
    <3> HIDE DEF x
    <3> HIDE DEF r
    <3> HIDE DEF e
    <3> HIDE DEF f
    <3>3. x <= meter + 1 /\ cost + ((meter + 1) - x) * r = f
      BY <3>1, <3>2, UnitCounts
    <3> QED
      BY <3>3 DEF x, r, f
  <2>5. /\ mark'[EndsAt(a)] <= meter'
        /\ cost' + (meter' - mark'[EndsAt(a)]) * NewRate(a) = due' + wrong'
    BY <1>1, <2>4
  <2> QED
    BY <1>1, <1>5, <2>5 DEF Band
<1>6. CASE pc[a] = <<"mark", "rate">>
  <2>1. cost = due + wrong
    BY <1>6 DEF Band
  <2>2. Astray = 0 - NewRate(a)
    BY <1>6, AstrayAt
  <2>3. cost' = due' + wrong'
    BY <1>1, <1>2, <2>1, <2>2
  <2> QED
    BY <1>1, <1>6, <2>3 DEF Band
<1>7. CASE pc[a] = <<"add", "mark", "rate">>
  <2>1. Counts(Began(a))
    BY <1>7 DEF Band
  <2>2. Astray = rate - NewRate(a)
    BY <1>7, AstrayAt
  <2>3. due' + wrong' = (due + wrong) + rate /\ due' + wrong' \in Int
    BY <1>1, <1>2, <2>2
  <2>4. Began(a) <= meter + 1 /\ cost + ((meter + 1) - Began(a)) * rate = due' + wrong'
    <3> DEFINE x == Began(a)
    <3> DEFINE e == due + wrong
    <3> DEFINE f == due' + wrong'
    <3>1. meter \in Nat /\ cost \in Nat /\ x \in Nat /\ rate \in Nat /\ e \in Int /\ f \in Int
      BY <1>2, <2>3
    <3>2. x <= meter /\ cost + (meter - x) * rate = e /\ f = e + rate
      BY <2>1, <2>3 DEF Counts
    <3> HIDE DEF x
    <3> HIDE DEF e
    <3> HIDE DEF f
    <3>3. x <= meter + 1 /\ cost + ((meter + 1) - x) * rate = f
      BY <3>1, <3>2, UnitCounts
    <3> QED
      BY <3>3 DEF x, f
  <2>5. Counts(Began(a))'
    BY <1>1, <1>3, <2>4 DEF Counts
  <2> QED
    BY <1>1, <1>7, <2>5 DEF Band
<1> QED
  BY <1>4, <1>5, <1>6, <1>7 DEF Runs, Left, RateChange, Automation

LEMMA AddingImport ==
  ASSUME Amounts, Runs, Adding, Import
  PROVE  Adding'
<1> SUFFICES ASSUME clean' PROVE Adding'
  BY DEF Adding
<1>1. clean
  BY DEF Import
<1>2. /\ UNCHANGED <<next, pc, cost, mark, rate>>
      /\ meter' = meter + 1 /\ due' = due + RateBefore(next) /\ wrong' = wrong + Astray
  BY DEF Import, helpers
<1>3. /\ meter \in Nat /\ cost \in Nat /\ rate \in Nat /\ due \in Nat /\ wrong \in Int
      /\ NightRate \in Nat /\ due + wrong \in Int
  BY Rates DEF Amounts
<1>4. CASE next = 1
  <2>1. Counts(0)
    BY <1>1, <1>4 DEF Adding
  <2>2. Astray = rate - NightRate
    BY <1>4, RunsOf, AstrayAt DEF RateChange
  <2>3. due' + wrong' = (due + wrong) + rate /\ due' + wrong' \in Int
    BY <1>2, <1>3, <1>4, <2>2, RateAt
  <2>4. 0 <= meter + 1 /\ cost + ((meter + 1) - 0) * rate = due' + wrong'
    BY <1>3, <2>1, <2>3, UnitCounts DEF Counts
  <2>5. Counts(0)'
    BY <1>2, <2>4 DEF Counts
  <2> QED
    BY <1>2, <1>4, <2>5 DEF Adding
<1>5. ASSUME NEW a \in RateChange, Band(a), RateBefore(next) = NewRate(a), next # 1,
             \A b \in RateChange : b # a => pc[b] = << >>
      PROVE  Band(a)'
  BY <1>5, BandImport
<1>6. CASE next = 2
  BY <1>1, <1>2, <1>5, <1>6, RateAt, Bands, RunsOf DEF Adding, RateChange
<1>7. CASE next = 3
  BY <1>1, <1>2, <1>5, <1>7, RateAt, Bands, RunsOf DEF Adding, RateChange
<1>8. CASE next \in {4, 5}
  BY <1>1, <1>2, <1>5, <1>8, RateAt, Bands, RunsOf DEF Adding, RateChange
<1>9. CASE next = 6
  BY <1>1, <1>2, <1>5, <1>9, RateAt, Bands, RunsOf DEF Adding, RateChange
<1>10. CASE next = 7
  <2>1. rate = NightRate
    BY <1>1, <1>10 DEF Adding
  <2>2. ASSUME pc["snapshot"] = <<"keep", "reset">> PROVE Counts(mark["11pm"])'
    <3>1. Counts(mark["11pm"]) /\ mark["11pm"] \in Nat
      BY <1>1, <1>10, <2>2 DEF Adding, Amounts, Mark
    <3>2. Astray = 0
      BY <1>10, RunsOf, AstrayAt DEF RateChange
    <3>3. due' + wrong' = (due + wrong) + rate /\ due' + wrong' \in Int
      BY <1>2, <1>3, <1>10, <2>1, <3>2, RateAt
    <3>4. mark["11pm"] <= meter + 1 /\ cost + ((meter + 1) - mark["11pm"]) * rate = due' + wrong'
      <4> DEFINE x == mark["11pm"]
      <4> DEFINE e == due + wrong
      <4> DEFINE f == due' + wrong'
      <4>1. meter \in Nat /\ cost \in Nat /\ x \in Nat /\ rate \in Nat /\ e \in Int /\ f \in Int
        BY <1>3, <3>1, <3>3
      <4>2. x <= meter /\ cost + (meter - x) * rate = e /\ f = e + rate
        BY <3>1, <3>3 DEF Counts
      <4> HIDE DEF x
      <4> HIDE DEF e
      <4> HIDE DEF f
      <4>3. x <= meter + 1 /\ cost + ((meter + 1) - x) * rate = f
        BY <4>1, <4>2, UnitCounts
      <4> QED
        BY <4>3 DEF x, f
    <3> QED
      BY <1>2, <3>4 DEF Counts
  <2> QED
    BY <1>2, <1>10, <2>1, <2>2 DEF Adding
<1> QED
  BY <1>4, <1>6, <1>7, <1>8, <1>9, <1>10 DEF Runs

LEMMA AddingStrikes ==
  ASSUME Amounts, Runs, Adding, NEW runs \in BOOLEAN, Strikes(runs)
  PROVE  Adding'
<1> SUFFICES ASSUME clean' PROVE Adding'
  BY DEF Adding
<1>1. clean /\ runs
  BY DEF Strikes
<1>2. \A a \in Automation : pc[a] = << >>
  BY DEF Strikes, Quiet
<1>3. UNCHANGED <<cost, mark, rate, meter, due, wrong>> /\ next \in 1..6 /\ next' = next + 1
  BY Day DEF Strikes, helpers, Runs
<1>4. pc' = [a \in Automation |-> IF a \in Triggered(next) THEN StepsOf(a) ELSE << >>]
  BY <1>1 DEF Strikes
<1>5. ASSUME NEW a \in RateChange, a \in Triggered(next), Counts(Began(a)) PROVE Band(a)'
  <2>1. StepsOf(a) = <<"add", "mark", "rate">>
    BY DEF StepsOf, RateChange
  <2>2. pc'[a] = <<"add", "mark", "rate">>
    BY <1>4, <1>5, <2>1 DEF Automation
  <2>3. Counts(Began(a))'
    BY <1>3, <1>5 DEF Counts, Began
  <2> QED
    BY <2>2, <2>3 DEF Band
<1>6. CASE next = 1
  <2>1. Band("day")'
    BY <1>1, <1>5, <1>6, TriggeredAt, Bands DEF Adding, RateChange
  <2> QED
    BY <1>3, <1>6, <2>1 DEF Adding
<1>7. CASE next = 2
  <2>1. Counts(mark["8am"])
    BY <1>1, <1>2, <1>7, Bands DEF Adding, Band, Automation, RateChange
  <2>2. Band("peak")'
    BY <1>5, <1>7, <2>1, TriggeredAt, Bands DEF RateChange
  <2> QED
    BY <1>3, <1>7, <2>2 DEF Adding
<1>8. CASE next = 3
  <2>1. Counts(mark["5pm"])
    BY <1>1, <1>2, <1>8, Bands DEF Adding, Band, Automation, RateChange
  <2>2. Band("evening")'
    BY <1>5, <1>8, <2>1, TriggeredAt, Bands DEF RateChange
  <2> QED
    BY <1>3, <1>8, <2>2 DEF Adding
<1>9. CASE next \in {4, 5}
  <2>1. Counts(mark["7pm"]) /\ rate = NewRate("evening")
    BY <1>1, <1>2, <1>9, Bands DEF Adding, Band, Automation, RateChange
  <2>2. CASE next = 4
    <3>1. pc'["evening"] = << >>
      BY <1>4, <2>2, TriggeredAt DEF Automation, RateChange
    <3>2. Band("evening")'
      BY <1>3, <2>1, <3>1, Bands DEF Band, Counts
    <3> QED
      BY <1>3, <2>2, <3>2 DEF Adding
  <2>3. CASE next = 5
    <3>1. Band("night")'
      BY <1>5, <2>1, <2>3, TriggeredAt, Bands DEF RateChange
    <3> QED
      BY <1>3, <2>3, <3>1 DEF Adding
  <2> QED
    BY <1>9, <2>2, <2>3
<1>10. CASE next = 6
  <2>1. Counts(mark["11pm"]) /\ rate = NightRate
    BY <1>1, <1>2, <1>10, Bands DEF Adding, Band, Automation, RateChange
  <2>2. pc'["snapshot"] = <<"keep", "reset">>
    BY <1>4, <1>10, TriggeredAt DEF Automation, RateChange, StepsOf
  <2>3. Counts(mark["11pm"])' /\ rate' = NightRate
    BY <1>3, <2>1 DEF Counts
  <2> QED
    BY <1>3, <1>10, <2>2, <2>3 DEF Adding
<1> QED
  BY <1>3, <1>6, <1>7, <1>8, <1>9, <1>10

(* A day begins with what it finds added up. *)
LEMMA AddingMidnight ==
  ASSUME Amounts, Runs, Adding, Midnight \/ Crash
  PROVE  Adding'
<1> SUFFICES ASSUME clean' PROVE Adding'
  BY DEF Adding
<1>1. CASE Midnight
  <2>1. UNCHANGED <<cost, rate>> /\ meter' = 0 /\ due' = 0 /\ wrong' = cost /\ next' = 1
    BY <1>1 DEF Midnight, helpers
  <2>2. Counts(0)' /\ next' = 1
    BY <2>1, Rates DEF Counts, Amounts
  <2> QED
    BY <2>2 DEF Adding
<1>2. CASE Crash
  BY <1>2 DEF Crash
<1> QED
  BY <1>1, <1>2

(* The run of a rate change, from its first step to its last. *)
LEMMA BandRuns ==
  ASSUME Amounts, Runs, NEW a \in RateChange, clean', clean => Band(a),
         Adds(a) \/ Marks(a) \/ SetsRate(a)
  PROVE  Band(a)'
<1>0. a \in Automation /\ pc \in [Automation -> Steps] /\ EndsAt(a) \in Mark
  BY BandsHaveMarks DEF Automation, Runs
<1>1. CASE Adds(a)
  <2>1. clean /\ readable /\ pc[a] = <<"add", "mark", "rate">> /\ pc'[a] = <<"mark", "rate">>
    BY <1>0, <1>1, RunsAdd DEF Adds, Reads
  <2>2. Counts(Began(a)) /\ Began(a) \in Nat
    BY <2>1, BandsHaveMarks DEF Band, Began, Amounts
  <2>3. cost' = due' + wrong'
    BY <1>1, <2>1, <2>2, LegCounts DEF Adds, Does
  <2> QED
    BY <2>1, <2>3 DEF Band
<1>2. CASE Marks(a)
  <2>1. clean /\ readable /\ pc[a] = <<"mark", "rate">> /\ pc'[a] = <<"rate">>
    BY <1>0, <1>2, RunsMark DEF Marks, Reads
  <2>2. cost = due + wrong
    BY <2>1 DEF Band
  <2>3. cost' = due' + wrong' /\ meter' = meter /\ mark' = [mark EXCEPT ![EndsAt(a)] = meter]
    BY <1>2, <2>1, <2>2 DEF Marks, Does, Reading
  <2>4. mark'[EndsAt(a)] = meter' /\ meter' \in Nat /\ cost' \in Nat /\ NewRate(a) \in Nat
    BY <1>0, <1>2, <2>3, BandsHaveMarks, Rates DEF Amounts, Marks
  <2>5. /\ mark'[EndsAt(a)] <= meter'
        /\ cost' + (meter' - mark'[EndsAt(a)]) * NewRate(a) = due' + wrong'
    BY <2>3, <2>4, CountsFromHere
  <2> QED
    BY <2>1, <2>5 DEF Band
<1>3. CASE SetsRate(a)
  <2>1. clean /\ pc[a] = <<"rate">> /\ pc'[a] = << >>
    BY <1>0, <1>3, RunsRate DEF SetsRate
  <2>2. /\ mark[EndsAt(a)] <= meter
        /\ cost + (meter - mark[EndsAt(a)]) * NewRate(a) = due + wrong
    BY <2>1 DEF Band
  <2>3. UNCHANGED <<cost, due, wrong, mark, meter>> /\ rate' = NewRate(a)
    BY <1>3 DEF SetsRate, Does
  <2>5. Counts(mark[EndsAt(a)])'
    BY <2>2, <2>3 DEF Counts
  <2> QED
    BY <2>1, <2>3, <2>5 DEF Band
<1> QED
  BY <1>1, <1>2, <1>3

LEMMA AddingRuns ==
  ASSUME Amounts, Runs, Adding, NEW a \in RateChange, Adds(a) \/ Marks(a) \/ SetsRate(a)
  PROVE  Adding'
<1> SUFFICES ASSUME clean' PROVE Adding'
  BY DEF Adding
<1>1. pc[a] # << >> /\ next' = next
  BY DEF Adds, Marks, SetsRate, Does
<1>2. \/ a = "day" /\ next = 2
      \/ a = "peak" /\ next = 3
      \/ a = "evening" /\ next = 4
      \/ a = "night" /\ next = 6
  BY <1>1, RunsOf DEF RateChange
<1>3. clean => Band(a)
  BY <1>2 DEF Adding
<1>4. Band(a)'
  BY <1>3, BandRuns
<1> QED
  BY <1>1, <1>2, <1>4 DEF Adding

LEMMA AddingKeeps ==
  ASSUME Amounts, Runs, Adding, Keeps \/ Resets
  PROVE  Adding'
<1> SUFFICES ASSUME clean' PROVE Adding'
  BY DEF Adding
<1>1. pc["snapshot"] # << >> /\ next' = next /\ clean
  BY DEF Keeps, Resets, Does, Reads
<1>2. next = 7
  BY <1>1, RunsOf
<1>3. rate = NightRate
  BY <1>1, <1>2 DEF Adding
<1>4. "snapshot" \in Automation /\ pc \in [Automation -> Steps]
  BY DEF Automation, Runs
<1>5. CASE Keeps
  <2>1. pc'["snapshot"] = <<"reset">> /\ rate' = NightRate
    BY <1>3, <1>4, <1>5, RunsKeep DEF Keeps
  <2> QED
    BY <1>1, <1>2, <2>1 DEF Adding
<1>6. CASE Resets
  <2>1. pc'["snapshot"] = << >> /\ rate' = NightRate
    BY <1>3, <1>4, <1>6, RunsReset DEF Resets
  <2> QED
    BY <1>1, <1>2, <2>1 DEF Adding
<1> QED
  BY <1>5, <1>6

(* The runs that add nothing leave the count as it is. *)
LEMMA AddingOthers ==
  ASSUME Runs, Adding, UNCHANGED <<next, cost, mark, rate, meter, due, wrong>>, clean' => clean,
         \A a \in RateChange \cup {"snapshot"} : pc'[a] = pc[a]
  PROVE  Adding'
<1> SUFFICES ASSUME clean' PROVE Adding'
  BY DEF Adding
<1>1. clean
  OBVIOUS
<1>2. \A x : Counts(x) => Counts(x)'
  BY DEF Counts
<1>3. ASSUME NEW a \in RateChange, Band(a) PROVE Band(a)'
  <2>1. Began(a)' = Began(a)
    BY DEF Began
  <2> QED
    BY <1>3, <2>1 DEF Band, Counts
<1>4. pc'["snapshot"] = pc["snapshot"]
  OBVIOUS
<1>5. CASE next = 1
  <2>1. Counts(0)'
    BY <1>1, <1>2, <1>5 DEF Adding, Counts
  <2> QED
    BY <1>5, <2>1 DEF Adding
<1>6. CASE next \in 2..6
  BY <1>1, <1>3, <1>6 DEF Adding, RateChange
<1>7. CASE next = 7
  <2>1. rate' = NightRate
    BY <1>1, <1>4, <1>7 DEF Adding
  <2>2. pc'["snapshot"] = <<"keep", "reset">> => Counts(mark["11pm"])'
    BY <1>1, <1>4, <1>7 DEF Adding, Counts
  <2> QED
    BY <1>7, <2>1, <2>2 DEF Adding
<1> QED
  BY <1>5, <1>6, <1>7 DEF Runs

LEMMA AddingStep == Amounts /\ Runs /\ Adding /\ [Next]_vars => Adding'
<1> SUFFICES ASSUME Amounts, Runs, Adding, [Next]_vars PROVE Adding'
  OBVIOUS
<1>1. CASE LosesSensor
  BY <1>1, AddingOthers DEF LosesSensor, helpers
<1>2. CASE FindsSensor
  BY <1>2, AddingOthers DEF FindsSensor, helpers, history
<1>3. CASE UNCHANGED vars
  BY <1>3, AddingOthers DEF vars, helpers, history
<1>4. CASE TakesBaseline
  <2>1. \A a \in RateChange \cup {"snapshot"} : pc'[a] = pc[a]
    BY <1>4 DEF TakesBaseline, Does, RateChange, Runs
  <2> QED
    BY <1>4, <2>1, AddingOthers DEF TakesBaseline, Does, Reads
<1>5. CASE ChecksGridFree
  <2>1. \A a \in RateChange \cup {"snapshot"} : pc'[a] = pc[a]
    BY <1>5 DEF ChecksGridFree, Does, RateChange, Runs
  <2> QED
    BY <1>5, <2>1, AddingOthers DEF ChecksGridFree, Does, Reads, helpers
<1>6. CASE Import
  BY <1>6, AddingImport
<1>7. CASE InTime \/ Missed
  BY <1>7, AddingStrikes DEF InTime, Missed
<1>8. CASE Midnight \/ Crash
  BY <1>8, AddingMidnight
<1>9. CASE \E a \in RateChange : Adds(a) \/ Marks(a) \/ SetsRate(a)
  BY <1>9, AddingRuns
<1>10. CASE Keeps \/ Resets
  BY <1>10, AddingKeeps
<1> QED
  BY <1>1, <1>2, <1>3, <1>4, <1>5, <1>6, <1>7, <1>8, <1>9, <1>10 DEF Next

(* Between the runs, the leg that is running is the one Since tells. *)
LEMMA SinceAt ==
  /\ next = 1 => Since = 0
  /\ next = 2 => Since = mark["8am"]
  /\ next = 3 => Since = mark["5pm"]
  /\ next \in {4, 5} => Since = mark["7pm"]
  /\ next = 6 => Since = mark["11pm"]
BY Day DEF Since

LEMMA AddingAddsUp == Amounts /\ Runs /\ Adding => AddsUp
<1> SUFFICES ASSUME Amounts, Runs, Adding, clean, Quiet, next < Len(Instants)
             PROVE  cost + Leg(meter, Since) * rate = due + wrong
  BY DEF AddsUp
<1>1. next \in 1..6
  BY Day DEF Runs
<1>2. \A a \in RateChange : pc[a] = << >>
  BY DEF Quiet, Automation
<1>3. ASSUME NEW x \in Nat, Counts(x) PROVE cost + Leg(meter, x) * rate = due + wrong
  BY <1>3 DEF Amounts, Counts, Leg
<1>4. ASSUME NEW a \in RateChange, Band(a)
      PROVE  mark[EndsAt(a)] \in Nat /\ Counts(mark[EndsAt(a)])
  BY <1>2, <1>4, BandsHaveMarks DEF Band, Amounts
<1>5. CASE next = 1
  BY <1>3, <1>5, SinceAt DEF Adding
<1>6. CASE next = 2
  BY <1>3, <1>4, <1>6, SinceAt, Bands DEF Adding, RateChange
<1>7. CASE next = 3
  BY <1>3, <1>4, <1>7, SinceAt, Bands DEF Adding, RateChange
<1>8. CASE next \in {4, 5}
  BY <1>3, <1>4, <1>8, SinceAt, Bands DEF Adding, RateChange
<1>9. CASE next = 6
  BY <1>3, <1>4, <1>9, SinceAt, Bands DEF Adding, RateChange
<1> QED
  BY <1>1, <1>5, <1>6, <1>7, <1>8, <1>9

(* AddsUp: what has been added up and the running leg are what the units of *)
(* the day cost and what is known to be wrong, at whatever rates. *)
THEOREM ImportAddsUp == Spec => []AddsUp
BY AmountsInit, AmountsStep, RunsInit, RunsStep, AddingInit, AddingStep, AddingAddsUp, PTL DEF Spec

-----------------------------------------------------------------------------
(* What of a day goes on in the next. *)

Afresh ==
  /\ next \in {6, 7} => "night" \in undone \/ pc["night"] # << >> \/ rate = NightRate
  /\ next = 7 => "snapshot" \in undone \/ pc["snapshot"] # << >> \/ cost = 0

LEMMA AfreshInit == Init => Afresh
BY DEF Init, Afresh

LEMMA AfreshStep == Runs /\ Afresh /\ [Next]_vars => Afresh'
<1> SUFFICES ASSUME Runs, Afresh, [Next]_vars PROVE Afresh'
  OBVIOUS
<1>0. /\ pc \in [Automation -> Steps] /\ "night" \in Automation /\ "snapshot" \in Automation
      /\ "night" # "snapshot"
  BY DEF Runs, Automation, RateChange
<1>1. CASE UNCHANGED <<next, pc, cost, rate, undone>>
  BY <1>1 DEF Afresh
<1>2. CASE Import \/ LosesSensor \/ FindsSensor \/ UNCHANGED vars
  BY <1>1, <1>2 DEF Import, LosesSensor, FindsSensor, vars, helpers, history
<1>3. ASSUME NEW runs \in BOOLEAN, Strikes(runs) PROVE Afresh'
  <2>1. /\ next \in 1..6 /\ next' = next + 1 /\ UNCHANGED <<cost, rate>>
        /\ pc["night"] = << >> /\ pc["snapshot"] = << >>
    BY <1>0, <1>3, Day DEF Strikes, helpers, Runs, Quiet
  <2>2. /\ pc' = [a \in Automation |-> IF runs /\ a \in Triggered(next) THEN StepsOf(a) ELSE << >>]
        /\ undone' = IF runs THEN undone ELSE undone \cup Triggered(next)
    BY <1>3 DEF Strikes
  <2>3. StepsOf("night") # << >> /\ StepsOf("snapshot") # << >>
    BY DEF StepsOf, RateChange
  <2>4. CASE next = 5
    <3>1. "night" \in undone' \/ pc'["night"] # << >>
      BY <1>0, <2>2, <2>3, <2>4, TriggeredAt
    <3> QED
      BY <2>1, <2>4, <3>1 DEF Afresh
  <2>5. CASE next = 6
    <3>1. "snapshot" \in undone' \/ pc'["snapshot"] # << >>
      BY <1>0, <2>2, <2>3, <2>5, TriggeredAt
    <3>2. "night" \in undone \/ rate = NightRate
      BY <2>1, <2>5 DEF Afresh
    <3>3. "night" \in undone' \/ rate' = NightRate
      BY <2>1, <2>2, <3>2
    <3> QED
      BY <2>1, <2>5, <3>1, <3>3 DEF Afresh
  <2> QED
    BY <2>1, <2>4, <2>5 DEF Afresh
<1>4. CASE Midnight
  BY <1>4 DEF Midnight, Afresh
<1>5. CASE Crash
  <2>1. /\ undone' = undone \cup {a \in Automation : pc[a] # << >>}
        /\ UNCHANGED <<next, cost, rate>>
    BY <1>5 DEF Crash, helpers
  <2> QED
    BY <1>0, <2>1 DEF Afresh
<1>6. ASSUME NEW a \in RateChange, Adds(a) \/ Marks(a) PROVE Afresh'
  <2>1. /\ UNCHANGED <<next, rate, undone>> /\ pc[a] # << >>
        /\ a \in Automation /\ a # "snapshot"
    BY <1>6 DEF Adds, Marks, Does, Automation, RateChange
  <2>2. next # 7
    BY <2>1, RunsOf DEF RateChange
  <2>3. a # "night" => pc'["night"] = pc["night"]
    BY <1>0, <1>6 DEF Adds, Marks, Does
  <2>4. a = "night" => pc'["night"] # << >>
    <3>1. ASSUME a = "night", Adds(a) PROVE pc'["night"] # << >>
      <4>1. pc'["night"] = <<"mark", "rate">>
        BY <1>0, <3>1, RunsAdd DEF Adds
      <4> QED
        BY <4>1
    <3>2. ASSUME a = "night", Marks(a) PROVE pc'["night"] # << >>
      <4>1. pc'["night"] = <<"rate">>
        BY <1>0, <3>2, RunsMark DEF Marks
      <4> QED
        BY <4>1
    <3> QED
      BY <1>6, <3>1, <3>2
  <2> QED
    BY <2>1, <2>2, <2>3, <2>4 DEF Afresh
<1>7. ASSUME NEW a \in RateChange, SetsRate(a) PROVE Afresh'
  <2>1. /\ UNCHANGED <<next, cost, undone>> /\ pc[a] # << >> /\ rate' = NewRate(a)
    BY <1>7 DEF SetsRate, Does
  <2>2. next # 7 /\ (next = 6 => a = "night")
    BY <2>1, RunsOf DEF RateChange
  <2> QED
    BY <2>1, <2>2, Bands DEF Afresh
<1>8. CASE Keeps
  <2>1. pc'["snapshot"] = <<"reset">> /\ UNCHANGED <<next, cost, rate, undone>>
    BY <1>0, <1>8, RunsKeep DEF Keeps, Does
  <2>2. <<"reset">> # << >>
    OBVIOUS
  <2>3. pc'["night"] = pc["night"]
    BY <1>0, <1>8 DEF Keeps, Does
  <2> QED
    BY <2>1, <2>2, <2>3 DEF Afresh
<1>9. CASE Resets
  <2>1. cost' = 0 /\ pc'["night"] = pc["night"] /\ UNCHANGED <<next, rate, undone>>
    BY <1>0, <1>9 DEF Resets, Does
  <2> QED
    BY <2>1 DEF Afresh
<1>10. CASE TakesBaseline \/ ChecksGridFree
  <2>1. /\ UNCHANGED <<next, cost, rate, undone>>
        /\ pc'["night"] = pc["night"] /\ pc'["snapshot"] = pc["snapshot"]
    BY <1>0, <1>10 DEF TakesBaseline, ChecksGridFree, Does, helpers
  <2> QED
    BY <2>1 DEF Afresh
<1> QED
  BY <1>2, <1>3, <1>4, <1>5, <1>6, <1>7, <1>8, <1>9, <1>10 DEF Next, InTime, Missed

(* StartsAfresh: a midnight finds the sum at 0 and the rate of the night,  *)
(* but for a snapshot or a night's automation that was missed or cut off.  *)
THEOREM ImportStartsAfresh == Spec => StartsAfresh
<1>1. Runs /\ Afresh /\ Midnight => Carries
  <2> SUFFICES ASSUME Runs, Afresh, Midnight PROVE Carries
    OBVIOUS
  <2>1. next = 7 /\ pc["night"] = << >> /\ pc["snapshot"] = << >>
    BY Day DEF Midnight, Quiet, Automation, RateChange
  <2> QED
    BY <2>1 DEF Afresh, Carries
<1> QED
  BY <1>1, AfreshInit, AfreshStep, RunsInit, RunsStep, PTL DEF Spec, StartsAfresh

-----------------------------------------------------------------------------
(* What the house is told. *)

(* ReportsTheDay: the cost kept for the morning is that of the day's units *)
(* and what is known to be wrong. *)
THEOREM ImportReportsTheDay == Spec => ReportsTheDay
<1>1. Amounts /\ Runs /\ Adding /\ Keeps /\ clean /\ readable => yesterday' = due + wrong + Fixed
  <2> SUFFICES ASSUME Amounts, Runs, Adding, Keeps, clean, readable
               PROVE  yesterday' = due + wrong + Fixed
    OBVIOUS
  <2>1. pc["snapshot"] = <<"keep", "reset">> /\ next = 7
    BY RunsKeep, RunsOf DEF Keeps
  <2>2. Counts(mark["11pm"]) /\ mark["11pm"] \in Nat
    BY <2>1 DEF Adding, Amounts, Mark
  <2>3. cost + Leg(Reading, mark["11pm"]) * rate = due + wrong
    BY <2>2, LegCounts
  <2> QED
    BY <2>3, Bands DEF Keeps
<1> QED
  BY <1>1, AmountsInit, AmountsStep, RunsInit, RunsStep, AddingInit, AddingStep,
     PTL DEF Spec, ReportsTheDay

LEMMA BasedStep == Amounts /\ Runs /\ Based /\ [Next]_vars => Based'
<1> SUFFICES ASSUME Amounts, Runs, Based, [Next]_vars, next' > 1, "baseline" \notin undone'
             PROVE  /\ pc'["baseline"] = << >> => baseline' + after8' <= meter'
                    /\ pc'["baseline"] # << >> => after8' = 0
  BY DEF Based
<1>0. "baseline" \in Automation /\ pc \in [Automation -> Steps]
  BY DEF Automation, Runs
<1>1. CASE Import
  <2>1. /\ UNCHANGED <<next, pc, baseline, undone>> /\ meter' = meter + 1
        /\ after8' = IF pc["baseline"] = << >> THEN after8 + 1 ELSE after8
    BY <1>1 DEF Import, helpers
  <2> QED
    BY <2>1 DEF Based, Amounts
<1>2. CASE UNCHANGED <<next, pc, meter, baseline, after8, undone>>
  BY <1>2 DEF Based
<1>3. CASE LosesSensor \/ FindsSensor \/ UNCHANGED vars
  BY <1>2, <1>3 DEF LosesSensor, FindsSensor, vars, helpers, history
<1>4. ASSUME NEW runs \in BOOLEAN, Strikes(runs)
      PROVE  /\ pc'["baseline"] = << >> => baseline' + after8' <= meter'
             /\ pc'["baseline"] # << >> => after8' = 0
  <2>1. /\ next \in 1..6 /\ pc["baseline"] = << >> /\ meter' = meter /\ baseline' = baseline
        /\ "baseline" \notin undone
    BY <1>0, <1>4, Day DEF Strikes, Quiet, Runs, helpers
  <2>2. pc' = [a \in Automation |-> IF runs /\ a \in Triggered(next) THEN StepsOf(a) ELSE << >>]
    BY <1>4 DEF Strikes
  <2>3. CASE next = 1
    <3>1. runs
      BY <1>4, <2>3, TriggeredAt DEF Strikes
    <3>2. pc'["baseline"] = <<"only">> /\ after8' = 0
      BY <1>0, <1>4, <2>2, <2>3, <3>1, Day, TriggeredAt DEF StepsOf, RateChange, Strikes
    <3> QED
      BY <3>2
  <2>4. CASE next \in 2..6
    <3>1. pc'["baseline"] = << >> /\ after8' = after8
      BY <1>0, <1>4, <2>2, <2>4, Day, TriggeredAt DEF Strikes
    <3>2. baseline + after8 <= meter
      BY <2>1, <2>4 DEF Based
    <3> QED
      BY <2>1, <3>1, <3>2
  <2> QED
    BY <2>1, <2>3, <2>4
<1>5. CASE Midnight
  BY <1>5 DEF Midnight
<1>6. CASE Crash
  <2>1. /\ pc["baseline"] = << >> /\ pc'["baseline"] = << >> /\ "baseline" \notin undone
        /\ UNCHANGED <<next, meter, baseline, after8>>
    BY <1>0, <1>6 DEF Crash, helpers
  <2> QED
    BY <2>1 DEF Based
<1>7. ASSUME NEW a \in Automation \ {"baseline"}, NEW step, Does(a, step), UNCHANGED baseline
      PROVE  /\ pc'["baseline"] = << >> => baseline' + after8' <= meter'
             /\ pc'["baseline"] # << >> => after8' = 0
  <2>1. pc'["baseline"] = pc["baseline"]
    BY <1>0, <1>7 DEF Does
  <2> QED
    BY <1>7, <2>1 DEF Does, Based
<1>8. CASE \E a \in RateChange : Adds(a) \/ Marks(a) \/ SetsRate(a)
  BY <1>7, <1>8 DEF Adds, Marks, SetsRate, Automation, RateChange
<1>9. CASE Keeps \/ Resets \/ ChecksGridFree
  BY <1>7, <1>9 DEF Keeps, Resets, ChecksGridFree, Automation, RateChange, helpers
<1>10. CASE TakesBaseline
  <2>1. /\ baseline' = Reading /\ pc["baseline"] = <<"only">> /\ pc'["baseline"] = << >>
        /\ UNCHANGED <<next, meter, after8, undone>>
    BY <1>0, <1>10, RunsOnly DEF TakesBaseline, Does
  <2>2. after8 = 0
    BY <2>1 DEF Based
  <2>3. Reading <= meter /\ Reading \in Nat
    BY DEF Reading, Amounts
  <2> QED
    BY <2>1, <2>2, <2>3 DEF Amounts
<1> QED
  BY <1>1, <1>3, <1>4, <1>5, <1>6, <1>8, <1>9, <1>10 DEF Next, InTime, Missed

(* GridFreeIsTrue: whoever is told of a grid-free day has imported nothing *)
(* since 8 am, unless the sensor is unavailable at 20:00 or the baseline   *)
(* of the day was missed or cut off.                                       *)
THEOREM ImportGridFreeIsTrue == Spec => GridFreeIsTrue
<1>1. Amounts /\ Runs /\ Based /\ ChecksGridFree /\ SaysGridFree /\ after8 > 0
      => ~readable \/ "baseline" \in undone
  <2> SUFFICES ASSUME Amounts, Runs, Based, ChecksGridFree, SaysGridFree, after8 > 0,
                      readable, "baseline" \notin undone
               PROVE  FALSE
    OBVIOUS
  <2>1. pc["gridfree"] # << >> /\ next = 5
    BY TriggeredAt DEF ChecksGridFree, Does, Runs, Automation, RateChange
  <2>2. pc["baseline"] = << >>
    BY <2>1, RunsOf
  <2>3. baseline + after8 <= meter
    BY <2>1, <2>2 DEF Based
  <2> QED
    BY <2>3 DEF SaysGridFree, Reading, Amounts
<1> QED
  BY <1>1, AmountsInit, AmountsStep, RunsInit, RunsStep, AddingInit, BasedStep,
     PTL DEF Spec, GridFreeIsTrue
=============================================================================
