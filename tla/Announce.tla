------------------------------ MODULE Announce ------------------------------
(***************************************************************************)
(* The announcements of the house: script.tts_announce (scripts.yaml),     *)
(* which is queued, and the two doorbell automations that speak without it *)
(* (automations.yaml, "Hello Olivia" and "Colm's Grand Return").  All      *)
(* three turn speakers up to full volume, speak and turn them back, and    *)
(* they share the speakers.                                                *)
(*                                                                         *)
(* A run awaits every service it calls, so between any two of its steps    *)
(* the others run.  A caller of the script waits for its run to end.       *)
(***************************************************************************)
EXTENDS Naturals, Sequences

CONSTANTS
  Speaker,      \* the members of the home audio group
  DoorSpeaker,  \* those that the doorbell automations speak on
  Group,        \* stands for media_player.home_audio_group_cast
  Caller,       \* the automations that call the script
  Target,       \* per caller, the speaker or Group that it announces on
  Level,        \* volume levels, in tenths
  UserLevel,    \* those that people choose
  MaxRuns,      \* the script's "max": runs queued, the running one included
  SpeakTime,    \* per booster, how long it waits for its message
  FanfareTime,  \* how long the fanfare is given
  Doorbell,     \* which of the two doorbell automations are there
  MayFail,      \* can a service call fail?
  MayRestart    \* can Home Assistant restart?

Full    == 10                         \* volume_level: 1
Booster == {"script", "greeting", "return"}

(* The volume that is put back when none could be read. *)
Fallback(b) == IF b = "greeting" THEN 4 ELSE 5
GroupVolume == 5                      \* volume_level: 0.5

ASSUME SpeakerAssumption ==
  /\ DoorSpeaker \subseteq Speaker
  /\ Group \notin Speaker
  /\ Target \in [Caller -> Speaker \cup {Group}]

ASSUME LevelAssumption ==
  /\ {4, 5, Full} \subseteq Level
  /\ UserLevel \subseteq Level

ASSUME TimeAssumption ==
  /\ MaxRuns \in Nat
  /\ FanfareTime \in Nat
  /\ SpeakTime \in [Booster -> Nat]
  /\ Doorbell \subseteq {"greeting", "return"}
  /\ {MayFail, MayRestart} \subseteq BOOLEAN

VARIABLES
  volume,  \* each speaker's volume
  shown,   \* the speakers that report one (those that are not off)
  queue,   \* the callers whose runs of the script wait, the first one running
  run,     \* per booster, the run it is in
  asked,   \* history: per speaker, the volume a person last chose
  loud,    \* history: the speakers at full volume that no run turns back
  misread  \* history: per booster, the speakers it reads as such, or as turned up

history == <<asked, loud, misread>>
vars    == <<volume, shown, queue, run, history>>

Step == {"idle", "delayed", "boosted", "fanfare", "speaking"}
Run  == [ step : Step,
          on   : SUBSET Speaker,         \* turned up, to be turned back
          back : [Speaker -> Level],     \* to what
          left : Nat ]                   \* time left of the delay it is in

Idle(r) == r.step = "idle"

(* The speakers that run b has turned up. *)
Raised(b) == IF run[b].step \in {"boosted", "fanfare", "speaking"} THEN run[b].on ELSE {}

Resting == [step |-> "idle", on |-> {}, back |-> [s \in Speaker |-> GroupVolume], left |-> 0]

-----------------------------------------------------------------------------
Init ==
  /\ volume \in [Speaker -> UserLevel]
  /\ shown = Speaker
  /\ queue = << >>
  /\ run = [b \in Booster |-> Resting]
  /\ asked = volume
  /\ loud = {s \in Speaker : volume[s] = Full}
  /\ misread = [b \in Booster |-> {}]

(* People turn a speaker up or down, and speakers go off and on. *)
UserSets(s, v) ==
  /\ volume' = [volume EXCEPT ![s] = v]
  /\ asked' = [asked EXCEPT ![s] = v]
  /\ loud' = IF v = Full THEN loud \cup {s} ELSE loud \ {s}
  /\ UNCHANGED <<shown, queue, run, misread>>

Switches(s) ==
  /\ shown' = IF s \in shown THEN shown \ {s} ELSE shown \cup {s}
  /\ UNCHANGED <<volume, queue, run, history>>

-----------------------------------------------------------------------------
(* Turning up, speaking and turning back.  What is read is put back later: *)
(* "on" remembers for which speakers, "back" to which volume.              *)

Reads(b, s) == IF s \in shown THEN volume[s] ELSE Fallback(b)

LoudAlready(b, s) == s \in loud \/ \E o \in Booster \ {b} : s \in Raised(o)

Boosts(b, on, back) ==
  /\ run' = [run EXCEPT ![b] = [step |-> "boosted", on |-> on, back |-> back, left |-> 0]]
  /\ volume' = [s \in Speaker |-> IF s \in on THEN Full ELSE volume[s]]
  /\ misread' = [misread EXCEPT ![b] =
                   {s \in on : back[s] = Full /\ LoudAlready(b, s)}]
  /\ loud' = loud \ on
  /\ UNCHANGED asked

(* Speakers "off" are turned back by run b. *)
PutsBack(b, off) ==
  /\ volume' = [s \in Speaker |-> IF s \in off THEN run[b].back[s] ELSE volume[s]]
  /\ loud' = (loud \ off) \cup (off \cap misread[b])
  /\ misread' = [misread EXCEPT ![b] = @ \ off]
  /\ UNCHANGED asked

(* About to call the service that speaks. *)
AboutToSpeak(b) ==
  IF b = "return" THEN run[b].step = "fanfare" /\ run[b].left = 0
  ELSE run[b].step = "boosted"

Speaks(b) ==
  /\ AboutToSpeak(b)
  /\ run' = [run EXCEPT ![b].step = "speaking", ![b].left = SpeakTime[b]]
  /\ UNCHANGED <<volume, shown, queue, history>>

Counting(r) == r.step \in {"fanfare", "speaking"}

(* At a call of a service: to turn up, to speak, or to turn back. *)
AtCall(b) ==
  \/ IF b = "script" THEN Idle(run[b]) /\ queue # << >> ELSE run[b].step = "delayed"
  \/ run[b].step = "boosted"
  \/ Counting(run[b]) /\ run[b].left = 0

(* The speakers that are at full volume because of runs bs. *)
LeftLoud(bs) == {s \in UNION {Raised(b) : b \in bs} : volume[s] = Full}

(* An error ends the run where it is; for the script, the next one starts. *)
Fails(b) ==
  /\ MayFail
  /\ AtCall(b)
  /\ run' = [run EXCEPT ![b] = Resting]
  /\ queue' = IF b = "script" THEN Tail(queue) ELSE queue
  /\ loud' = loud \cup LeftLoud({b})
  /\ misread' = [misread EXCEPT ![b] = {}]
  /\ UNCHANGED <<volume, shown, asked>>

-----------------------------------------------------------------------------
(* script.tts_announce *)

TargetsOf(c) == IF Target[c] = Group THEN Speaker ELSE {Target[c]}

Accepted(c) == queue' = IF Len(queue) < MaxRuns THEN Append(queue, c) ELSE queue

Waits(c) == \E i \in 1..Len(queue) : queue[i] = c

Call(c) ==
  /\ ~Waits(c)
  /\ Accepted(c)
  /\ UNCHANGED <<volume, shown, run, history>>

(* Mutant: the prior volume is read when the volume is already up. *)
StartRunReadsLate ==
  /\ Idle(run["script"]) /\ queue # << >>
  /\ LET c == Head(queue)
     IN  Boosts("script", TargetsOf(c),
                [s \in Speaker |-> IF s = Target[c] THEN Full ELSE GroupVolume])
  /\ UNCHANGED <<shown, queue>>

(* The run at the head starts; only now is the volume read. *)
StartRun ==
  /\ Idle(run["script"]) /\ queue # << >>
  /\ LET c == Head(queue)
     IN  Boosts("script", TargetsOf(c),
                [s \in Speaker |-> IF s = Target[c] THEN Reads("script", s)
                                   ELSE GroupVolume])
  /\ UNCHANGED <<shown, queue>>

(* Mutant: an ended run stays in the queue. *)
FinishRunStaysQueued ==
  LET r == run["script"] IN
  /\ r.step = "speaking" /\ r.left = 0
  /\ PutsBack("script", r.on)
  /\ run' = [run EXCEPT !["script"] = Resting]
  /\ UNCHANGED <<shown, queue>>

(* Mutant: the volume is not turned back at the end. *)
FinishRunStaysLoud ==
  LET r == run["script"] IN
  /\ r.step = "speaking" /\ r.left = 0
  /\ run' = [run EXCEPT !["script"] = Resting]
  /\ queue' = Tail(queue)
  /\ UNCHANGED <<volume, shown, history>>

FinishRun ==
  LET r == run["script"] IN
  /\ r.step = "speaking" /\ r.left = 0
  /\ PutsBack("script", r.on)
  /\ run' = [run EXCEPT !["script"] = Resting]
  /\ queue' = Tail(queue)
  /\ UNCHANGED shown

-----------------------------------------------------------------------------
(* The doorbell automations, mode single: while one is in a run, what      *)
(* triggers it is dropped.  The delay of two minutes starts at a moment    *)
(* that nothing else determines, and so ends at any moment.                *)

Rings(b) ==
  /\ Idle(run[b])
  /\ run' = [run EXCEPT ![b].step = "delayed"]
  /\ UNCHANGED <<volume, shown, queue, history>>

DelayEnds(b) ==
  /\ run[b].step = "delayed"
  /\ Boosts(b, DoorSpeaker, [s \in Speaker |-> IF s \in DoorSpeaker THEN Reads(b, s)
                                               ELSE GroupVolume])
  /\ UNCHANGED <<shown, queue>>

PlayFanfare ==
  /\ run["return"].step = "boosted"
  /\ run' = [run EXCEPT !["return"].step = "fanfare", !["return"].left = FanfareTime]
  /\ UNCHANGED <<volume, shown, queue, history>>

(* Mutant: with the last speaker turned back, the run is not over. *)
TurnsBackNoEnd(b, s) ==
  LET r == run[b] IN
  /\ r.step = "speaking" /\ r.left = 0 /\ s \in r.on
  /\ PutsBack(b, {s})
  /\ run' = [run EXCEPT ![b].on = @ \ {s}]
  /\ UNCHANGED <<shown, queue>>

(* One call per speaker turns them back, here in any order. *)
TurnsBack(b, s) ==
  LET r == run[b] IN
  /\ r.step = "speaking" /\ r.left = 0 /\ s \in r.on
  /\ PutsBack(b, {s})
  /\ run' = [run EXCEPT ![b] = IF r.on = {s} THEN Resting
                               ELSE [r EXCEPT !.on = @ \ {s}]]
  /\ UNCHANGED <<shown, queue>>

-----------------------------------------------------------------------------
(* Delays: a run goes on as soon as its delay is over. *)

(* Mutant: time runs for a run that is in no delay. *)
OneLessAlways(r) == [r EXCEPT !.left = @ - 1]

OneLess(r)  == IF Counting(r) THEN [r EXCEPT !.left = @ - 1] ELSE r

Elapses == run' = [b \in Booster |-> OneLess(run[b])]
NoneDue == \A b \in Booster : Counting(run[b]) => run[b].left > 0

Tick ==
  /\ \E b \in Booster : Counting(run[b])
  /\ NoneDue
  /\ Elapses
  /\ UNCHANGED <<volume, shown, queue, history>>

(* Runs are not saved.  The speakers stay as they are. *)
Restart ==
  /\ MayRestart
  /\ queue' = << >>
  /\ run' = [b \in Booster |-> Resting]
  /\ loud' = loud \cup LeftLoud(Booster)
  /\ misread' = [b \in Booster |-> {}]
  /\ UNCHANGED <<volume, shown, asked>>

-----------------------------------------------------------------------------
Environment == \E s \in Speaker : Switches(s) \/ \E v \in UserLevel : UserSets(s, v)
Doorbells   == \/ \E b \in Doorbell : \/ Rings(b) \/ DelayEnds(b)
                                      \/ \E s \in Speaker : TurnsBack(b, s)
               \/ PlayFanfare
Speaking    == \E b \in Booster : Speaks(b)
Failing     == \E b \in Booster : Fails(b)

Next == \/ Environment
        \/ \E c \in Caller : Call(c)
        \/ StartRun \/ FinishRun
        \/ Doorbells
        \/ Speaking \/ Failing
        \/ Tick
        \/ Restart

Spec == Init /\ [][Next]_vars

(* Runs go on: the loop takes each of their steps, and time passes. *)
Fairness ==
  /\ WF_vars(Tick) /\ WF_vars(StartRun) /\ WF_vars(FinishRun) /\ WF_vars(PlayFanfare)
  /\ \A b \in Booster : WF_vars(Speaks(b))
  /\ \A b \in Doorbell : WF_vars(DelayEnds(b)) /\ WF_vars(\E s \in Speaker : TurnsBack(b, s))

FairSpec == Spec /\ Fairness

-----------------------------------------------------------------------------
TypeOK ==
  /\ volume \in [Speaker -> Level]
  /\ shown \subseteq Speaker
  /\ queue \in Seq(Caller)
  /\ run \in [Booster -> Run]
  /\ asked \in [Speaker -> UserLevel]
  /\ loud \subseteq Speaker
  /\ misread \in [Booster -> SUBSET Speaker]

(* A speaker is at full volume only while a run is going to turn it back,  *)
(* and back to less, by the runs of all three, with errors and restarts.   *)
(* The ways to be left loud are these: a person likes it so, the run that  *)
(* turned it up broke off, or a run read its volume while it was loud or   *)
(* while another run had it turned up, and put that back.                  *)
FullOnlyWhileRaised ==
  /\ \A s \in Speaker :
       volume[s] = Full => s \in loud \/ \E b \in Booster : s \in Raised(b)
  /\ \A b \in Booster : \A s \in Raised(b) :
       run[b].back[s] = Full => s \in misread[b]

(* What a speaker's volume is, or is going to be when the script is done. *)
settled == [s \in Speaker |-> IF s \in Raised("script") THEN run["script"].back[s]
                              ELSE volume[s]]

(* Without the doorbell automations, what the volumes people set come to   *)
(* is as the contract has it, also when announcements fail or are lost.    *)
Settled == INSTANCE VolumeContract WITH level <- settled, speaking <- Raised("script")
ScriptSettles == Settled!Spec

(* An accepted call is spoken, or fails, whatever the doorbell automations *)
(* do meanwhile; its caller does not wait for ever.                        *)
CallEnds == \A c \in Caller : Waits(c) ~> ~Waits(c)

(* A doorbell automation ends, so that it can be triggered again. *)
DoorbellEnds == \A b \in Doorbell : ~Idle(run[b]) ~> Idle(run[b])
=============================================================================
