--------------------------- MODULE AnnounceProofs ---------------------------
(***************************************************************************)
(* Who leaves a speaker loud, and what the script does to the volumes that *)
(* people choose, for any number of speakers, callers and queued runs,     *)
(* with failing services and restarts.                                     *)
(***************************************************************************)
EXTENDS Announce, TLAPS

USE DEF Booster, Full, GroupVolume

(* A run of the script is that of the caller at the head of the queue. *)
Busy == run["script"].step # "idle" => queue # << >>

-----------------------------------------------------------------------------
(* Type correctness, with doorbell automations, failures and restarts. *)

LEMMA RestingIsRun == Resting \in Run
BY LevelAssumption DEF Resting, Run, Step

(* The part of the types that is not history. *)
Body == /\ volume \in [Speaker -> Level]
        /\ shown \subseteq Speaker
        /\ queue \in Seq(Caller)
        /\ run \in [Booster -> Run]

LEMMA BoostsType ==
  ASSUME TypeOK, NEW b \in Booster, NEW on \in SUBSET Speaker,
         NEW back \in [Speaker -> Level], Boosts(b, on, back)
  PROVE  volume' \in [Speaker -> Level] /\ run' \in [Booster -> Run]
<1>1. [step |-> "boosted", on |-> on, back |-> back, left |-> 0] \in Run
  BY DEF Run, Step
<1> QED
  BY <1>1, LevelAssumption DEF Boosts, TypeOK

LEMMA ReadsType ==
  ASSUME TypeOK, NEW b, NEW s \in Speaker
  PROVE  Reads(b, s) \in Level
BY LevelAssumption DEF Reads, Fallback, TypeOK

LEMMA QueueType ==
  ASSUME TypeOK, queue # << >>
  PROVE  /\ Head(queue) \in Caller
         /\ Tail(queue) \in Seq(Caller)
BY DEF TypeOK

LEMMA TargetsType ==
  ASSUME NEW c \in Caller
  PROVE  TargetsOf(c) \in SUBSET Speaker
BY SpeakerAssumption DEF TargetsOf

LEMMA TypeInit == Init => TypeOK
BY RestingIsRun, LevelAssumption DEF Init, TypeOK
LEMMA BusyStep == TypeOK /\ Busy /\ [Next]_vars => Busy'
<1> SUFFICES ASSUME TypeOK, Busy, [Next]_vars PROVE Busy'
  OBVIOUS
<1>1. CASE Environment \/ UNCHANGED vars
  BY <1>1 DEF Environment, Switches, UserSets, Busy, vars
<1>2. CASE \E c \in Caller : Call(c)
  <2> PICK c \in Caller : Call(c)
    BY <1>2
  <2>1. queue' = Append(queue, c) \/ queue' = queue
    BY DEF Call, Accepted
  <2>2. Append(queue, c) # << >>
    BY DEF TypeOK
  <2> QED
    BY <2>1, <2>2 DEF Call, Busy
<1>3. CASE StartRun
  BY <1>3 DEF StartRun, Busy
<1>4. CASE FinishRun \/ Restart
  BY <1>4 DEF FinishRun, Restart, Resting, Busy, TypeOK
<1>5. CASE Doorbells
  <2>1. run'["script"] = run["script"] /\ queue' = queue
    BY <1>5, TimeAssumption DEF Doorbells, Rings, DelayEnds, Boosts, TurnsBack, PlayFanfare, TypeOK
  <2> QED
    BY <2>1 DEF Busy
<1>6. CASE Speaking
  <2>1. ASSUME NEW b \in Booster, Speaks(b), run["script"].step = "idle"
        PROVE  run'["script"].step = "idle"
    BY <2>1 DEF Speaks, AboutToSpeak, TypeOK
  <2> QED
    BY <1>6, <2>1 DEF Speaking, Speaks, Busy
<1>7. CASE Failing
  <2>1. ASSUME NEW b \in Booster, Fails(b)
        PROVE  \/ run'["script"].step = "idle"
               \/ run'["script"] = run["script"] /\ queue' = queue
    BY <2>1 DEF Fails, Resting, TypeOK
  <2> QED
    BY <1>7, <2>1 DEF Failing, Busy
<1>8. CASE Tick
  <2>1. run'["script"].step = run["script"].step
    BY <1>8 DEF Tick, Elapses, OneLess, TypeOK, Run
  <2> QED
    BY <1>8, <2>1 DEF Tick, Busy
<1> QED
  BY <1>1, <1>2, <1>3, <1>4, <1>5, <1>6, <1>7, <1>8 DEF Next

LEMMA BodyStep == TypeOK /\ Busy /\ [Next]_vars => Body'
<1> SUFFICES ASSUME TypeOK, Busy, [Next]_vars PROVE Body'
  OBVIOUS
<1> USE LevelAssumption, TimeAssumption, RestingIsRun DEF Body
<1>1. CASE Environment
  BY <1>1 DEF Environment, Switches, UserSets, TypeOK
<1>2. CASE \E c \in Caller : Call(c)
  <2> PICK c \in Caller : Call(c)
    BY <1>2
  <2> QED
    BY DEF Call, Accepted, TypeOK
<1>3. CASE StartRun
  <2> DEFINE c    == Head(queue)
             back == [s \in Speaker |-> IF s = Target[c] THEN Reads("script", s)
                                        ELSE GroupVolume]
  <2>1. c \in Caller
    BY <1>3, QueueType DEF StartRun
  <2>2. TargetsOf(c) \in SUBSET Speaker
    BY <2>1, TargetsType
  <2>3. back \in [Speaker -> Level]
    BY ReadsType
  <2>4. Boosts("script", TargetsOf(c), back)
    BY <1>3 DEF StartRun
  <2> HIDE DEF c, back
  <2>5. volume' \in [Speaker -> Level] /\ run' \in [Booster -> Run]
    BY <2>2, <2>3, <2>4, BoostsType
  <2> QED
    BY <1>3, <2>5 DEF StartRun, TypeOK
<1>4. CASE FinishRun
  <2>1. Tail(queue) \in Seq(Caller)
    BY <1>4, QueueType DEF FinishRun, Busy
  <2>2. run["script"].back \in [Speaker -> Level]
    BY DEF TypeOK, Run
  <2>3. queue' \in Seq(Caller)
    BY <1>4, <2>1 DEF FinishRun, TypeOK
  <2> QED
    BY <1>4, <2>2, <2>3 DEF FinishRun, PutsBack, TypeOK
<1>5. CASE Doorbells
  <2>1. ASSUME NEW b \in Doorbell, Rings(b)
        PROVE  Body'
    <3>1. b \in Booster /\ [run[b] EXCEPT !.step = "delayed"] \in Run
      BY <2>1 DEF TypeOK, Run, Step
    <3>2. run' = [run EXCEPT ![b] = [run[b] EXCEPT !.step = "delayed"]]
      BY <2>1 DEF Rings
    <3> QED
      BY <2>1, <3>1, <3>2 DEF Rings, TypeOK
  <2>2. ASSUME NEW b \in Doorbell, DelayEnds(b)
        PROVE  Body'
    <3> DEFINE back == [s \in Speaker |-> IF s \in DoorSpeaker THEN Reads(b, s)
                                          ELSE GroupVolume]
    <3>1. back \in [Speaker -> Level]
      BY ReadsType
    <3>2. Boosts(b, DoorSpeaker, back) /\ DoorSpeaker \in SUBSET Speaker
      BY <2>2, SpeakerAssumption DEF DelayEnds
    <3> HIDE DEF back
    <3>3. volume' \in [Speaker -> Level] /\ run' \in [Booster -> Run]
      BY <2>2, <3>1, <3>2, BoostsType
    <3> QED
      BY <2>2, <3>3 DEF DelayEnds, TypeOK
  <2>3. ASSUME NEW b \in Doorbell, NEW s \in Speaker, TurnsBack(b, s)
        PROVE  Body'
    <3>1. b \in Booster /\ run[b] \in Run /\ run[b].back[s] \in Level
      BY <2>3 DEF TypeOK, Run
    <3>2. [run[b] EXCEPT !.on = @ \ {s}] \in Run
      BY <3>1 DEF Run
    <3> QED
      BY <2>3, <3>1, <3>2 DEF TurnsBack, PutsBack, TypeOK
  <2>4. CASE PlayFanfare
    <3>1. [run["return"] EXCEPT !.step = "fanfare", !.left = FanfareTime] \in Run
      BY DEF TypeOK, Run, Step
    <3>2. run' = [run EXCEPT !["return"] =
                    [run["return"] EXCEPT !.step = "fanfare", !.left = FanfareTime]]
      BY <2>4 DEF PlayFanfare, TypeOK, Run
    <3> QED
      BY <2>4, <3>1, <3>2 DEF PlayFanfare, TypeOK
  <2> QED
    BY <1>5, <2>1, <2>2, <2>3, <2>4 DEF Doorbells
<1>6. CASE Speaking
  <2> PICK b \in Booster : Speaks(b)
    BY <1>6 DEF Speaking
  <2>1. [run[b] EXCEPT !.step = "speaking", !.left = SpeakTime[b]] \in Run
    BY DEF TypeOK, Run, Step
  <2>2. run' = [run EXCEPT ![b] = [run[b] EXCEPT !.step = "speaking", !.left = SpeakTime[b]]]
    BY DEF Speaks, TypeOK, Run
  <2> QED
    BY <2>1, <2>2 DEF Speaks, TypeOK
<1>7. CASE Failing
  <2> PICK b \in Booster : Fails(b)
    BY <1>7 DEF Failing
  <2>1. b = "script" => Tail(queue) \in Seq(Caller)
    BY QueueType DEF Fails, AtCall, Counting, Busy
  <2>2. queue' \in Seq(Caller)
    BY <2>1 DEF Fails, TypeOK
  <2> QED
    BY <2>2 DEF Fails, TypeOK
<1>8. CASE Tick
  <2>1. ASSUME NEW b \in Booster
        PROVE  OneLess(run[b]) \in Run
    <3>1. run[b] \in Run /\ (Counting(run[b]) => run[b].left > 0)
      BY <1>8 DEF Tick, NoneDue, TypeOK
    <3> QED
      BY <3>1 DEF OneLess, Run
  <2> QED
    BY <1>8, <2>1 DEF Tick, Elapses, TypeOK
<1>9. CASE Restart
  BY <1>9 DEF Restart, TypeOK
<1>10. CASE UNCHANGED vars
  BY <1>10 DEF vars, TypeOK
<1> QED
  BY <1>1, <1>2, <1>3, <1>4, <1>5, <1>6, <1>7, <1>8, <1>9, <1>10 DEF Next

LEMMA HistoryStep ==
  TypeOK /\ [Next]_vars => /\ asked' \in [Speaker -> UserLevel]
                           /\ loud' \subseteq Speaker
                           /\ misread' \in [Booster -> SUBSET Speaker]
<1> SUFFICES ASSUME TypeOK, [Next]_vars
             PROVE  /\ asked' \in [Speaker -> UserLevel]
                    /\ loud' \subseteq Speaker
                    /\ misread' \in [Booster -> SUBSET Speaker]
  OBVIOUS
<1>a. /\ asked \in [Speaker -> UserLevel] /\ loud \subseteq Speaker
      /\ misread \in [Booster -> SUBSET Speaker]
      /\ \A b \in Booster : run[b].on \subseteq Speaker
  BY DEF TypeOK, Run
<1>b. ASSUME UNCHANGED history
      PROVE  asked' = asked /\ loud' = loud /\ misread' = misread
  BY <1>b DEF history
<1>c. ASSUME NEW b \in Booster, NEW on \in SUBSET Speaker, NEW back, Boosts(b, on, back)
      PROVE  /\ asked' = asked /\ loud' \subseteq Speaker
             /\ misread' \in [Booster -> SUBSET Speaker]
  BY <1>c, <1>a DEF Boosts
<1>d. ASSUME NEW b \in Booster, NEW off \in SUBSET Speaker, PutsBack(b, off)
      PROVE  /\ asked' = asked /\ loud' \subseteq Speaker
             /\ misread' \in [Booster -> SUBSET Speaker]
  BY <1>d, <1>a DEF PutsBack
<1>e. \A bs \in SUBSET Booster : LeftLoud(bs) \subseteq Speaker
  BY <1>a DEF LeftLoud, Raised
<1>1. CASE Environment
  <2>1. CASE \E x \in Speaker : Switches(x)
    BY <2>1, <1>a, <1>b DEF Switches
  <2>2. ASSUME NEW x \in Speaker, NEW v \in UserLevel, UserSets(x, v)
        PROVE  /\ asked' \in [Speaker -> UserLevel] /\ loud' \subseteq Speaker
               /\ misread' = misread
    BY <2>2, <1>a DEF UserSets
  <2> QED
    BY <1>1, <2>1, <2>2, <1>a DEF Environment
<1>2. CASE \/ \E c \in Caller : Call(c)
           \/ Speaking \/ Tick \/ PlayFanfare
           \/ \E b \in Doorbell : Rings(b)
           \/ UNCHANGED vars
  BY <1>2, <1>a, <1>b DEF Call, Speaking, Speaks, Tick, PlayFanfare, Rings, vars
<1>3. CASE StartRun
  <2>1. TargetsOf(Head(queue)) \in SUBSET Speaker
    BY <1>3, QueueType, TargetsType DEF StartRun
  <2> QED
    BY <1>3, <2>1, <1>a, <1>c DEF StartRun
<1>4. CASE FinishRun
  BY <1>4, <1>a, <1>d DEF FinishRun
<1>5. CASE \E b \in Doorbell : DelayEnds(b) \/ \E x \in Speaker : TurnsBack(b, x)
  <2>1. ASSUME NEW b \in Doorbell, DelayEnds(b)
        PROVE  /\ asked' = asked /\ loud' \subseteq Speaker
               /\ misread' \in [Booster -> SUBSET Speaker]
    BY <2>1, <1>c, SpeakerAssumption, TimeAssumption DEF DelayEnds
  <2>2. ASSUME NEW b \in Doorbell, NEW x \in Speaker, TurnsBack(b, x)
        PROVE  /\ asked' = asked /\ loud' \subseteq Speaker
               /\ misread' \in [Booster -> SUBSET Speaker]
    BY <2>2, <1>d, TimeAssumption DEF TurnsBack
  <2> QED
    BY <1>5, <2>1, <2>2, <1>a
<1>6. CASE Failing
  BY <1>6, <1>a, <1>e DEF Failing, Fails
<1>7. CASE Restart
  BY <1>7, <1>a, <1>e DEF Restart
<1> QED
  BY <1>1, <1>2, <1>3, <1>4, <1>5, <1>6, <1>7 DEF Next, Doorbells

LEMMA TypeStep == TypeOK /\ Busy /\ [Next]_vars => TypeOK'
BY BodyStep, HistoryStep DEF Body, TypeOK

(* Every state of the three together has its type. *)
THEOREM AnnounceTypes == Spec => []TypeOK
<1>1. Init => Busy
  BY DEF Init, Resting, Busy
<1> QED
  BY <1>1, TypeInit, TypeStep, BusyStep, PTL DEF Spec

-----------------------------------------------------------------------------
(* Who leaves a speaker loud.  Every step turns speakers up, puts some     *)
(* back, breaks runs off, or leaves the volumes to people.                 *)

FullInv == TypeOK /\ FullOnlyWhileRaised

LEMMA SameFull ==
  ASSUME FullInv, volume' = volume, UNCHANGED history,
         \A b \in Booster : /\ Raised(b)' = Raised(b)
                            /\ run'[b].back = run[b].back
  PROVE  FullOnlyWhileRaised'
BY DEF FullInv, FullOnlyWhileRaised, history

LEMMA BoostsFull ==
  ASSUME FullInv, NEW b \in Booster, NEW on \in SUBSET Speaker,
         NEW back \in [Speaker -> Level], Boosts(b, on, back), Raised(b) = {},
         \A s \in on : back[s] = Full => volume[s] = Full
  PROVE  FullOnlyWhileRaised'
<1> USE DEF FullInv
<1>1. run' = [run EXCEPT ![b] = [step |-> "boosted", on |-> on, back |-> back, left |-> 0]]
  BY DEF Boosts
<1>2. Raised(b)' = on /\ run'[b].back = back
  BY <1>1 DEF Raised, TypeOK
<1>3. \A o \in Booster \ {b} : Raised(o)' = Raised(o) /\ run'[o] = run[o] /\ misread'[o] = misread[o]
  BY <1>1 DEF Raised, TypeOK, Boosts
<1>4. ASSUME NEW s \in Speaker, volume'[s] = Full
      PROVE  s \in loud' \/ \E o \in Booster : s \in Raised(o)'
  <2>1. CASE s \in on
    BY <2>1, <1>2
  <2>2. CASE s \notin on
    <3>1. volume[s] = Full
      BY <1>4, <2>2 DEF Boosts
    <3>2. s \in loud \/ \E o \in Booster \ {b} : s \in Raised(o)
      BY <3>1 DEF FullOnlyWhileRaised
    <3> QED
      BY <2>2, <3>2, <1>3 DEF Boosts
  <2> QED
    BY <2>1, <2>2
<1>5. ASSUME NEW s \in on, back[s] = Full
      PROVE  s \in misread'[b]
  <2>1. s \in loud \/ \E o \in Booster \ {b} : s \in Raised(o)
    BY <1>5 DEF FullOnlyWhileRaised
  <2>2. misread'[b] = {x \in on : back[x] = Full /\ LoudAlready(b, x)}
    BY DEF Boosts, TypeOK
  <2> QED
    BY <1>5, <2>1, <2>2 DEF LoudAlready
<1>6. ASSUME NEW o \in Booster, NEW s \in Raised(o)', run'[o].back[s] = Full
      PROVE  s \in misread'[o]
  BY <1>2, <1>3, <1>5, <1>6 DEF FullOnlyWhileRaised
<1> QED
  BY <1>4, <1>6 DEF FullOnlyWhileRaised

LEMMA PutsBackFull ==
  ASSUME FullInv, NEW b \in Booster, NEW off \in SUBSET Speaker, PutsBack(b, off),
         off \subseteq Raised(b), Raised(b)' = Raised(b) \ off,
         Raised(b)' # {} => run'[b].back = run[b].back,
         \A o \in Booster \ {b} : run'[o] = run[o]
  PROVE  FullOnlyWhileRaised'
<1> USE DEF FullInv
<1>1. \A o \in Booster \ {b} : Raised(o)' = Raised(o) /\ misread'[o] = misread[o]
  BY DEF Raised, PutsBack, TypeOK
<1>2. misread'[b] = misread[b] \ off
  BY DEF PutsBack, TypeOK
<1>3. ASSUME NEW s \in Speaker, volume'[s] = Full
      PROVE  s \in loud' \/ \E o \in Booster : s \in Raised(o)'
  <2>1. CASE s \in off
    <3>1. run[b].back[s] = Full
      BY <1>3, <2>1 DEF PutsBack
    <3>2. s \in misread[b]
      BY <2>1, <3>1 DEF FullOnlyWhileRaised
    <3> QED
      BY <2>1, <3>2 DEF PutsBack
  <2>2. CASE s \notin off
    <3>1. volume[s] = Full
      BY <1>3, <2>2 DEF PutsBack
    <3>2. s \in loud \/ \E o \in Booster : s \in Raised(o)
      BY <3>1 DEF FullOnlyWhileRaised
    <3> QED
      BY <2>2, <3>2, <1>1 DEF PutsBack
  <2> QED
    BY <2>1, <2>2
<1>4. ASSUME NEW o \in Booster, NEW s \in Raised(o)', run'[o].back[s] = Full
      PROVE  s \in misread'[o]
  BY <1>1, <1>2, <1>4 DEF FullOnlyWhileRaised
<1> QED
  BY <1>3, <1>4 DEF FullOnlyWhileRaised

LEMMA BreakOffFull ==
  ASSUME FullInv, NEW bs \in SUBSET Booster, volume' = volume,
         loud' = loud \cup LeftLoud(bs),
         run' = [b \in Booster |-> IF b \in bs THEN Resting ELSE run[b]],
         \A b \in Booster \ bs : misread'[b] = misread[b]
  PROVE  FullOnlyWhileRaised'
<1> USE DEF FullInv
<1>1. \A b \in Booster : Raised(b)' = IF b \in bs THEN {} ELSE Raised(b)
  BY DEF Raised, Resting
<1>2. ASSUME NEW s \in Speaker, volume'[s] = Full
      PROVE  s \in loud' \/ \E b \in Booster : s \in Raised(b)'
  <2>1. s \in loud \/ \E b \in Booster : s \in Raised(b)
    BY <1>2 DEF FullOnlyWhileRaised
  <2>2. ASSUME NEW b \in bs, s \in Raised(b)
        PROVE  s \in loud'
    BY <1>2, <2>2 DEF LeftLoud
  <2> QED
    BY <2>1, <2>2, <1>1
<1>3. ASSUME NEW b \in Booster, NEW s \in Raised(b)', run'[b].back[s] = Full
      PROVE  s \in misread'[b]
  BY <1>1, <1>3 DEF FullOnlyWhileRaised
<1> QED
  BY <1>2, <1>3 DEF FullOnlyWhileRaised

(* A run reads full volume only from a speaker that is at full volume. *)
LEMMA ReadsFull ==
  ASSUME NEW b, NEW s, Reads(b, s) = Full
  PROVE  volume[s] = Full
BY DEF Reads, Fallback

LEMMA FullStep == FullInv /\ Busy /\ [Next]_vars => FullOnlyWhileRaised'
<1> SUFFICES ASSUME FullInv, Busy, [Next]_vars PROVE FullOnlyWhileRaised'
  OBVIOUS
<1>0. TypeOK
  BY DEF FullInv
<1>a. ASSUME run' = run, volume' = volume, UNCHANGED history
      PROVE  FullOnlyWhileRaised'
  BY <1>a, SameFull DEF Raised
<1>1. CASE Environment
  <2>1. CASE \E x \in Speaker : Switches(x)
    BY <2>1, <1>a DEF Switches
  <2>2. ASSUME NEW x \in Speaker, NEW v \in UserLevel, UserSets(x, v)
        PROVE  FullOnlyWhileRaised'
    <3>1. \A b \in Booster : Raised(b)' = Raised(b) /\ run' = run /\ misread' = misread
      BY <2>2 DEF UserSets, Raised
    <3>2. ASSUME NEW s \in Speaker, volume'[s] = Full
          PROVE  s \in loud' \/ \E b \in Booster : s \in Raised(b)'
      <4>1. CASE s = x
        BY <2>2, <3>2, <4>1, <1>0 DEF UserSets, TypeOK
      <4>2. CASE s # x
        <5>1. volume[s] = Full /\ (s \in loud => s \in loud')
          BY <2>2, <3>2, <4>2, <1>0 DEF UserSets, TypeOK
        <5> QED
          BY <5>1, <3>1 DEF FullInv, FullOnlyWhileRaised
      <4> QED
        BY <4>1, <4>2
    <3> QED
      BY <3>1, <3>2 DEF FullInv, FullOnlyWhileRaised
  <2> QED
    BY <1>1, <2>1, <2>2 DEF Environment
<1>2. CASE \E c \in Caller : Call(c)
  BY <1>2, <1>a DEF Call
<1>3. CASE StartRun
  <2> DEFINE c    == Head(queue)
             back == [s \in Speaker |-> IF s = Target[c] THEN Reads("script", s)
                                        ELSE GroupVolume]
  <2>1. TargetsOf(c) \in SUBSET Speaker /\ back \in [Speaker -> Level]
    BY <1>3, <1>0, QueueType, TargetsType, ReadsType, LevelAssumption DEF StartRun
  <2>2. Boosts("script", TargetsOf(c), back) /\ Raised("script") = {}
    BY <1>3 DEF StartRun, Idle, Raised
  <2>3. \A s \in TargetsOf(c) : back[s] = Full => volume[s] = Full
    BY <2>1, ReadsFull
  <2> HIDE DEF c, back
  <2> QED
    BY <2>1, <2>2, <2>3, BoostsFull
<1>4. CASE FinishRun
  <2> DEFINE r == run["script"]
  <2>1. Raised("script") = r.on /\ r.on \in SUBSET Speaker
    BY <1>4, <1>0 DEF FinishRun, Raised, TypeOK, Run
  <2>2. Raised("script")' = {} /\ \A o \in Booster \ {"script"} : run'[o] = run[o]
    BY <1>4, <1>0 DEF FinishRun, Raised, Resting, TypeOK
  <2> QED
    BY <1>4, <2>1, <2>2, PutsBackFull DEF FinishRun
<1>5. CASE Doorbells
  <2>1. ASSUME NEW b \in Doorbell, Rings(b)
        PROVE  FullOnlyWhileRaised'
    <3>1. b \in Booster /\ volume' = volume /\ UNCHANGED history
      BY <2>1, TimeAssumption DEF Rings
    <3>2. \A o \in Booster : Raised(o)' = Raised(o) /\ run'[o].back = run[o].back
      BY <2>1, <3>1, <1>0 DEF Rings, Idle, Raised, TypeOK, Run
    <3> QED
      BY <3>1, <3>2, SameFull
  <2>2. ASSUME NEW b \in Doorbell, DelayEnds(b)
        PROVE  FullOnlyWhileRaised'
    <3> DEFINE back == [s \in Speaker |-> IF s \in DoorSpeaker THEN Reads(b, s)
                                          ELSE GroupVolume]
    <3>1. b \in Booster /\ back \in [Speaker -> Level] /\ DoorSpeaker \in SUBSET Speaker
      BY <1>0, ReadsType, TimeAssumption, SpeakerAssumption, LevelAssumption
    <3>2. Boosts(b, DoorSpeaker, back) /\ Raised(b) = {}
      BY <2>2 DEF DelayEnds, Raised
    <3>3. \A s \in DoorSpeaker : back[s] = Full => volume[s] = Full
      BY <3>1, ReadsFull
    <3> HIDE DEF back
    <3> QED
      BY <3>1, <3>2, <3>3, BoostsFull
  <2>3. ASSUME NEW b \in Doorbell, NEW s \in Speaker, TurnsBack(b, s)
        PROVE  FullOnlyWhileRaised'
    <3>1. b \in Booster /\ run[b] \in Run /\ Raised(b) = run[b].on /\ s \in Raised(b)
      BY <2>3, <1>0, TimeAssumption DEF TurnsBack, Raised, TypeOK
    <3>2. /\ Raised(b)' = Raised(b) \ {s}
          /\ Raised(b)' # {} => run'[b].back = run[b].back
      <4>1. CASE run[b].on = {s}
        BY <2>3, <3>1, <4>1, <1>0 DEF TurnsBack, Raised, Resting, TypeOK
      <4>2. CASE run[b].on # {s}
        <5>1. run'[b] = [run[b] EXCEPT !.on = @ \ {s}]
          BY <2>3, <3>1, <4>2, <1>0 DEF TurnsBack, TypeOK
        <5>2. /\ run'[b].step = run[b].step /\ run'[b].back = run[b].back
              /\ run'[b].on = run[b].on \ {s}
          BY <3>1, <5>1 DEF Run
        <5> QED
          BY <2>3, <3>1, <5>2 DEF Raised, TurnsBack
      <4> QED
        BY <4>1, <4>2
    <3>3. \A o \in Booster \ {b} : run'[o] = run[o]
      BY <2>3, <1>0 DEF TurnsBack, TypeOK
    <3> QED
      BY <2>3, <3>1, <3>2, <3>3, PutsBackFull DEF TurnsBack
  <2>4. CASE PlayFanfare
    <3>1. \A o \in Booster : Raised(o)' = Raised(o) /\ run'[o].back = run[o].back
      BY <2>4, <1>0 DEF PlayFanfare, Raised, TypeOK, Run
    <3> QED
      BY <2>4, <3>1, SameFull DEF PlayFanfare
  <2> QED
    BY <1>5, <2>1, <2>2, <2>3, <2>4 DEF Doorbells
<1>6. CASE Speaking
  <2> PICK b \in Booster : Speaks(b)
    BY <1>6 DEF Speaking
  <2>1. \A o \in Booster : Raised(o)' = Raised(o) /\ run'[o].back = run[o].back
    BY <1>0 DEF Speaks, AboutToSpeak, Raised, TypeOK, Run
  <2> QED
    BY <2>1, SameFull DEF Speaks
<1>7. CASE Failing
  <2> PICK b \in Booster : Fails(b)
    BY <1>7 DEF Failing
  <2>1. run' = [o \in Booster |-> IF o \in {b} THEN Resting ELSE run[o]]
    BY <1>0 DEF Fails, TypeOK
  <2>2. \A o \in Booster \ {b} : misread'[o] = misread[o]
    BY <1>0 DEF Fails, TypeOK
  <2> QED
    BY <2>1, <2>2, BreakOffFull DEF Fails
<1>8. CASE Tick
  <2>1. \A o \in Booster : Raised(o)' = Raised(o) /\ run'[o].back = run[o].back
    BY <1>8, <1>0 DEF Tick, Elapses, OneLess, Raised, TypeOK, Run
  <2> QED
    BY <1>8, <2>1, SameFull DEF Tick
<1>9. CASE Restart
  <2>1. run' = [o \in Booster |-> IF o \in Booster THEN Resting ELSE run[o]]
    BY <1>9 DEF Restart
  <2> QED
    BY <1>9, <2>1, BreakOffFull DEF Restart
<1>10. CASE UNCHANGED vars
  BY <1>10, <1>a DEF vars, history
<1> QED
  BY <1>1, <1>2, <1>3, <1>4, <1>5, <1>6, <1>7, <1>8, <1>9, <1>10 DEF Next

LEMMA FullInit == Init => FullOnlyWhileRaised
BY DEF Init, Resting, Raised, FullOnlyWhileRaised

(* A speaker is at full volume only while a run is going to turn it back,  *)
(* and to less: with both doorbell automations, failing services and       *)
(* restarts, it is left loud only by a person who likes it so, by a run    *)
(* that broke off, or by a run that read its volume while it was so or     *)
(* while another run had it turned up.                                     *)
THEOREM LoudOnlyByThese == Spec => []FullOnlyWhileRaised
<1>1. Init => TypeOK /\ Busy /\ FullOnlyWhileRaised
  BY TypeInit, FullInit DEF Init, Resting, Busy
<1>2. TypeOK /\ Busy /\ FullOnlyWhileRaised /\ [Next]_vars
      => (TypeOK /\ Busy /\ FullOnlyWhileRaised)'
  BY TypeStep, BusyStep, FullStep DEF FullInv
<1> QED
  BY <1>1, <1>2, PTL DEF Spec

-----------------------------------------------------------------------------
(* The script without the doorbell automations, for the contract.          *)

(* A speaker that is turned up is at full volume or where a person has put *)
(* it since; what the script has misread it puts back as full volume.      *)
Overheard ==
  /\ \A b \in {"greeting", "return"} : run[b].step = "idle"
  /\ \A s \in Raised("script") : /\ volume[s] \in {Full, asked[s]}
                                 /\ s \in misread["script"] => run["script"].back[s] = Full

RefInv == FullInv /\ Overheard

LEMMA SameSettled ==
  ASSUME RefInv, volume' = volume, UNCHANGED history,
         Raised("script")' = Raised("script"), run'["script"].back = run["script"].back,
         \A b \in {"greeting", "return"} : run'[b].step = run[b].step
  PROVE  Overheard' /\ [Settled!Next]_Settled!contractVars
<1>1. settled' = settled
  BY DEF settled
<1>2. asked' = asked /\ loud' = loud /\ misread' = misread
  BY DEF history
<1>3. Overheard'
  BY <1>2 DEF RefInv, Overheard
<1> QED
  BY <1>1, <1>2, <1>3 DEF Settled!contractVars

(* A break-off shows the volumes as they are. *)
LEMMA BreaksOffSettled ==
  ASSUME RefInv, Raised("script")' = {}, volume' = volume, asked' = asked,
         loud' = loud \cup LeftLoud({"script"}),
         \A b \in {"greeting", "return"} : run'[b].step = "idle"
  PROVE  Overheard' /\ [Settled!Next]_Settled!contractVars
<1> DEFINE still == LeftLoud({"script"})
<1>0. /\ TypeOK /\ Raised("script") \subseteq Speaker
      /\ settled \in [Speaker -> Level]
  BY DEF RefInv, FullInv, settled, Raised, TypeOK, Run
<1>1. still = {s \in Raised("script") : volume[s] = Full}
  BY DEF LeftLoud
<1>2. settled' = [s \in Speaker |-> volume[s]]
  BY DEF settled
<1>3. ASSUME NEW s \in Speaker
      PROVE  volume[s] = IF s \notin Raised("script") THEN settled[s]
                         ELSE IF s \in still THEN Full ELSE asked[s]
  BY <1>1 DEF settled, RefInv, Overheard
<1> HIDE DEF still
<1>4. settled' = [s \in Speaker |-> IF s \notin Raised("script") THEN settled[s]
                                    ELSE IF s \in still THEN Full ELSE asked[s]]
  BY <1>2, <1>3
<1>5. still \in SUBSET Raised("script") /\ loud' = loud \cup still
  BY <1>1 DEF still
<1>6. Settled!BreaksOff(still)
  BY <1>4, <1>5 DEF Settled!BreaksOff
<1>7. Overheard'
  BY DEF Overheard
<1> QED
  BY <1>5, <1>6, <1>7 DEF Settled!Next

LEMMA SettledStep ==
  ASSUME Doorbell = {}, RefInv, Busy, [Next]_vars
  PROVE  Overheard' /\ [Settled!Next]_Settled!contractVars
<1> USE DEF RefInv, FullInv
<1> DEFINE r == run["script"]
<1>0. /\ TypeOK /\ r \in Run /\ r.back \in [Speaker -> Level]
      /\ Raised("script") \subseteq Speaker
      /\ settled \in [Speaker -> Level]
  BY DEF settled, Raised, TypeOK, Run
<1>b. \A b \in {"greeting", "return"} : run[b].step = "idle" /\ Raised(b) = {}
  BY DEF Overheard, Raised
<1>a. ASSUME run' = run, volume' = volume, UNCHANGED history
      PROVE  Overheard' /\ [Settled!Next]_Settled!contractVars
  BY <1>a, SameSettled DEF Raised
<1>1. CASE Environment
  <2>1. CASE \E s \in Speaker : Switches(s)
    BY <1>a, <2>1 DEF Switches
  <2>2. ASSUME NEW s \in Speaker, NEW v \in UserLevel, UserSets(s, v)
        PROVE  Overheard' /\ [Settled!Next]_Settled!contractVars
    <3>1. /\ run' = run /\ Raised("script")' = Raised("script") /\ misread' = misread
          /\ loud' = IF v = Full THEN loud \cup {s} ELSE loud \ {s}
          /\ asked' = [asked EXCEPT ![s] = v] /\ volume' = [volume EXCEPT ![s] = v]
      BY <2>2 DEF UserSets, Raised
    <3>2. Overheard'
      BY <3>1, <1>0 DEF Overheard, TypeOK
    <3>3. settled' = IF s \in Raised("script") THEN settled ELSE [settled EXCEPT ![s] = v]
      BY <3>1, <1>0 DEF settled, TypeOK
    <3>4. Settled!PersonSets(s, v)
      BY <3>1, <3>3 DEF Settled!PersonSets
    <3> QED
      BY <3>2, <3>4 DEF Settled!Next
  <2> QED
    BY <1>1, <2>1, <2>2 DEF Environment
<1>2. CASE \E c \in Caller : Call(c)
  BY <1>2, <1>a DEF Call
<1>3. CASE StartRun
  <2> DEFINE c    == Head(queue)
             on   == TargetsOf(c)
             back == [s \in Speaker |-> IF s = Target[c] THEN Reads("script", s)
                                        ELSE GroupVolume]
             usual == IF Target[c] = Group THEN Speaker ELSE (Speaker \cap {Target[c]}) \ shown
  <2>1. Raised("script") = {} /\ settled = volume
    BY <1>3, <1>0 DEF StartRun, Idle, Raised, settled, TypeOK
  <2>2. c \in Caller /\ on \in SUBSET Speaker
    BY <1>3, <1>0, QueueType, TargetsType DEF StartRun
  <2>3. Boosts("script", on, back)
    BY <1>3 DEF StartRun
  <2>4. \A s \in on : back[s] = IF s \in usual THEN GroupVolume ELSE volume[s]
    BY <2>2, SpeakerAssumption DEF TargetsOf, Reads, Fallback
  <2>5. usual \in SUBSET on
    BY <2>2 DEF TargetsOf
  <2> HIDE DEF c, on, back, usual
  <2>6. /\ run' = [run EXCEPT !["script"] = [step |-> "boosted", on |-> on,
                                            back |-> back, left |-> 0]]
        /\ volume' = [s \in Speaker |-> IF s \in on THEN Full ELSE volume[s]]
        /\ loud' = loud \ on /\ asked' = asked
        /\ misread'["script"] = {s \in on : back[s] = Full /\ LoudAlready("script", s)}
    BY <2>3, <1>0 DEF Boosts, TypeOK
  <2>7. /\ Raised("script")' = on /\ run'["script"].back = back
        /\ \A b \in {"greeting", "return"} : run'[b] = run[b]
    BY <2>6, <1>0 DEF Raised, TypeOK
  <2>8. settled' = [s \in Speaker |-> IF s \in on THEN back[s] ELSE volume[s]]
    BY <2>6, <2>7 DEF settled
  <2>9. settled' = [s \in Speaker |-> IF s \in usual THEN GroupVolume ELSE settled[s]]
    BY <2>1, <2>4, <2>5, <2>8
  <2>10. Overheard'
    BY <2>2, <2>6, <2>7, <1>b DEF Overheard
  <2>11. Settled!Begins(on, usual)
    BY <2>1, <2>5, <2>6, <2>7, <2>9 DEF Settled!Begins
  <2> QED
    BY <2>2, <2>5, <2>10, <2>11 DEF Settled!Next
<1>4. CASE FinishRun
  <2>1. Raised("script") = r.on /\ Raised("script")' = {}
        /\ \A b \in {"greeting", "return"} : run'[b] = run[b]
    BY <1>4, <1>0 DEF FinishRun, Raised, Resting, TypeOK
  <2>2. PutsBack("script", Raised("script"))
    BY <1>4, <2>1 DEF FinishRun
  <2>3. settled' = settled
    BY <2>1, <2>2 DEF PutsBack, settled
  <2>4. \A s \in Raised("script") : settled[s] = Full <=> s \in misread["script"]
    BY <1>0 DEF settled, Overheard, FullOnlyWhileRaised
  <2>5. Settled!AtFull(Raised("script")) = Raised("script") \cap misread["script"]
    BY <2>4 DEF Settled!AtFull
  <2>6. Settled!Ends
    BY <2>1, <2>2, <2>3, <2>5 DEF Settled!Ends, PutsBack
  <2>7. Overheard'
    BY <2>1, <1>b DEF Overheard
  <2> QED
    BY <2>6, <2>7 DEF Settled!Next
<1>5. CASE Doorbells
  <2>1. PlayFanfare
    BY <1>5 DEF Doorbells
  <2> QED
    BY <2>1, <1>b DEF PlayFanfare
<1>6. CASE Speaking
  <2> PICK b \in Booster : Speaks(b)
    BY <1>6 DEF Speaking
  <2>1. b = "script"
    BY <1>b DEF Speaks, AboutToSpeak
  <2>2. /\ run'["script"].on = r.on /\ run'["script"].back = r.back
        /\ r.step = "boosted" /\ run'["script"].step = "speaking"
        /\ \A o \in {"greeting", "return"} : run'[o].step = run[o].step
    BY <2>1, <1>0 DEF Speaks, AboutToSpeak, TypeOK, Run
  <2>3. Raised("script")' = Raised("script")
    BY <2>2 DEF Raised
  <2> QED
    BY <2>2, <2>3, SameSettled DEF Speaks
<1>7. CASE Failing
  <2> PICK b \in Booster : Fails(b)
    BY <1>7 DEF Failing
  <2>1. b = "script"
    BY <1>b DEF Fails, AtCall, Counting
  <2>2. /\ Raised("script")' = {}
        /\ \A o \in {"greeting", "return"} : run'[o] = run[o]
    BY <2>1, <1>0 DEF Fails, Raised, Resting, TypeOK
  <2> QED
    BY <2>1, <2>2, <1>b, BreaksOffSettled DEF Fails
<1>8. CASE Tick
  <2>1. ASSUME NEW b \in Booster
        PROVE  /\ run'[b].step = run[b].step
               /\ run'[b].on = run[b].on
               /\ run'[b].back = run[b].back
    BY <1>8, <1>0 DEF Tick, Elapses, OneLess, TypeOK, Run
  <2>2. Raised("script")' = Raised("script")
    BY <2>1 DEF Raised
  <2> QED
    BY <1>8, <2>1, <2>2, SameSettled DEF Tick
<1>9. CASE Restart
  <2>1. LeftLoud(Booster) = LeftLoud({"script"})
    BY <1>b DEF LeftLoud
  <2>2. Raised("script")' = {} /\ \A o \in {"greeting", "return"} : run'[o].step = "idle"
    BY <1>9 DEF Restart, Raised, Resting
  <2> QED
    BY <1>9, <2>1, <2>2, BreaksOffSettled DEF Restart
<1>10. CASE UNCHANGED vars
  BY <1>10, <1>a DEF vars, history
<1> QED
  BY <1>1, <1>2, <1>3, <1>4, <1>5, <1>6, <1>7, <1>8, <1>9, <1>10 DEF Next

(* The script, which the doorbell automations are no part of, implements   *)
(* the contract, with failing services and restarts: the volume a person   *)
(* chooses stays, until the usual one is set for an announcement to the    *)
(* group or on a speaker that shows none; but one chosen during an         *)
(* announcement on that speaker is overwritten, and an announcement that   *)
(* breaks off leaves full volume. *)
THEOREM ScriptImplementsContract ==
  ASSUME Doorbell = {}
  PROVE  Spec => ScriptSettles
<1>1. Init => Settled!Init /\ RefInv /\ Busy
  <2> SUFFICES ASSUME Init PROVE Settled!Init /\ RefInv /\ Busy
    OBVIOUS
  <2>1. Raised("script") = {} /\ volume \in [Speaker -> UserLevel]
    BY DEF Init, Resting, Raised
  <2>2. settled = volume
    BY <2>1 DEF settled
  <2>3. Settled!Init
    BY <2>1, <2>2 DEF Init, Settled!Init, Settled!AtFull
  <2>4. Overheard /\ Busy
    BY <2>1 DEF Init, Resting, Overheard, Busy
  <2> QED
    BY <2>3, <2>4, TypeInit, FullInit DEF RefInv, FullInv
<1>2. RefInv /\ Busy /\ [Next]_vars => (RefInv /\ Busy)'
  BY SettledStep, TypeStep, BusyStep, FullStep DEF RefInv, FullInv
<1>3. RefInv /\ Busy /\ [Next]_vars => [Settled!Next]_Settled!contractVars
  BY SettledStep
<1> QED
  BY <1>1, <1>2, <1>3, PTL DEF Spec, ScriptSettles, Settled!Spec
=============================================================================
