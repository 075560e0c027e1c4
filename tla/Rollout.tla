------------------------------ MODULE Rollout ------------------------------
(***************************************************************************)
(* Update Manager's RolloutManager (rollout_manager.py): the updates of    *)
(* the devices of one Zigbee network are installed one at a time, in the   *)
(* order of a queue whose front is the one in flight, and an update of     *)
(* Core, which restarts Home Assistant, waits in _tier_blocked while any   *)
(* firmware is being installed.  Queue and _tier_blocked are stored, by    *)
(* saves that suspend the coroutine that makes them; requests, cancels, a  *)
(* completion, a tick every 30 s and a restart come in between.            *)
(*                                                                         *)
(* rm is the manager's memory, and an operation of the manager is a        *)
(* function of it, so that a handler that makes several of them in a row   *)
(* (the tick makes four) is one step.  Coroutines run until they suspend:  *)
(* only a save does, for the call of update.install returns at once with   *)
(* Zigbee2MQTT, as the device's own in_progress comes later.               *)
(*                                                                         *)
(* Left out: who asked (is_auto, contexts, notifications' texts), other    *)
(* networks, tiers between firmware and Core, entities that are            *)
(* unavailable between restarts, renames, and the stuck issue's clock.     *)
(***************************************************************************)
EXTENDS Naturals, Sequences, FiniteSets, SequencesExt

CONSTANTS
    Device,        \* update entities of the devices of one Zigbee network
    Core,          \* the update entity of Home Assistant Core
    Brisk,         \* saves are over before the next tick
    Offered,       \* updates there are to install when it starts
    MaxVersion,    \* bound: versions that come out
    MaxFaults,     \* bound: installs that fail, naps, restarts out of turn
    MaxWrites      \* bound: saves under way when something is asked

ASSUME RolloutAssumption ==
    /\ {Core, "nobody", "front"} \cap Device = {} /\ Offered \subseteq Device \cup {Core}
    /\ IsFiniteSet(Device) /\ Brisk \in BOOLEAN
    /\ MaxVersion \in Nat \ {0} /\ MaxFaults \in Nat /\ MaxWrites \in Nat \ {0}

VARIABLES
    rm,          \* the manager's memory, and in it rm.wrong, history: fronts
                 \* that gave way "early", under way or about to be, verdicts
                 \* on fronts that "never" had their turn, fronts dispatched
                 \* again "unsaved", "late" news of another version of the front
    disk,        \* its file
    flash,       \* what each update is at: "none", "asked" for, in_progress
                 \* ("running"), or asleep in the middle of it ("dozing")
    installed,   \* installed_version
    latest,      \* latest_version
    news,        \* installs that ended and that the coordinator has not told yet
    faults       \* faults so far

vars == <<rm, disk, flash, installed, latest, news, faults>>

Entity == Device \cup {Core}

\* What a coroutine does when its save is done: dispatch `who', which is the
\* caller's to do or the manager's, Foremost being what heads the list then; then
\* ask for an entry or retry what is blocked.
Nobody  == "nobody"
Foremost == "front"
Return  == [who |-> Nobody, caller |-> FALSE, ask |-> <<>>, retry |-> FALSE]

\* Its memory: the queue, of [entity, to]; Core in _tier_blocked; the saves
\* under way, with what their coroutines do next; of _in_flight, front_since
\* ("none", "fresh" or "old"), started_at and force_cleared; a retry that is in
\* its call for Core; and the history.
Empty == [queue |-> <<>>, blocked |-> FALSE, writes |-> <<>>,
          since |-> [e \in Device |-> "none"], started |-> {}, forced |-> {},
          retrying |-> FALSE, wrong |-> {}]

Init ==
    /\ rm = Empty /\ disk = [queue |-> <<>>, blocked |-> FALSE]
    /\ flash = [e \in Entity |-> "none"]
    /\ installed = [e \in Entity |-> 0] /\ latest = [e \in Entity |-> IF e \in Offered THEN 1 ELSE 0]
    /\ news = {} /\ faults = 0

Pending(e) == installed[e] # latest[e]
Running(e) == flash[e] = "running"
UnderWay(e) == flash[e] # "none"
Fault == faults < MaxFaults /\ faults' = faults + 1

(***************************************************************************)
(* The manager's memory.                                                   *)
(***************************************************************************)

\* _async_save: the store writes one at a time.
Save(m, resume) ==
    [m EXCEPT !.writes = Append(@, [data |-> [queue |-> m.queue, blocked |-> m.blocked],
                                    resume |-> resume])]

\* The list a suspended coroutine holds is the queue no more: it was emptied,
\* and there the coroutine fails, or it was left with `who' at its head.
Detached(writes, who) ==
    [i \in DOMAIN writes |->
       IF writes[i].resume.who # Foremost THEN writes[i]
       ELSE IF who = Nobody THEN [writes[i] EXCEPT !.resume = Return]
       ELSE [writes[i] EXCEPT !.resume.who = who]]

\* The entry of _in_flight goes.
Landed(m, e) ==
    [m EXCEPT !.since[e] = "none", !.started = @ \ {e}, !.forced = @ \ {e}]

\* A coroutine is in the save before it dispatches the front.
Awaited(m) ==
    \E i \in DOMAIN m.writes : m.writes[i].resume.who \in {Foremost, Head(m.queue).entity}

\* The front is taken off: noted in wrong if it was under way, or about to be.
Popped(m) ==
    LET e == Head(m.queue).entity
    IN  [Landed(m, e) EXCEPT !.queue = Tail(@),
                             !.wrong = IF UnderWay(e) \/ Awaited(m) THEN @ \cup {"early"} ELSE @]

\* Mutant: the entry that comes to the front is not dispatched.
AdvanceOnly(m, resume) ==
    LET p == Popped(m)
    IN  Save([p EXCEPT !.writes = IF p.queue = <<>> THEN Detached(@, Nobody) ELSE @], resume)

\* _async_advance, for a coroutine that has `resume' to do afterwards.
Advance(m, resume) ==
    LET p == Popped(m)
    IN  IF p.queue = <<>>
        THEN Save([p EXCEPT !.writes = Detached(@, Nobody)], resume)
        ELSE Save(p, [resume EXCEPT !.who = Foremost])

\* The front has what it was to install.
Arrived(m) ==
    m.queue # <<>> /\ installed[Head(m.queue).entity] = Head(m.queue).to

\* It has been given its minute, and does not.
Stalled(m) ==
    /\ m.queue # <<>>
    /\ m.since[Head(m.queue).entity] # "fresh"
    /\ installed[Head(m.queue).entity] # Head(m.queue).to

\* A verdict on the front of m is noted in wrong if it never had its turn.
Misjudged(m) ==
    LET e == Head(m.queue).entity
    IN  ~UnderWay(e) /\ m.since[e] = "none" /\ Pending(e)

\* _async_advance_past_stalled_front, for the front.
AdvancePastStalledFront(m) ==
    IF Stalled(m)
    THEN Advance([m EXCEPT !.wrong = IF Misjudged(m) THEN @ \cup {"never"} ELSE @], Return)
    ELSE m

\* _async_request_past_tier_gate, for an entry that is in no queue.
Enqueue(m, entry) ==
    IF m.queue = <<>>
    THEN Save([m EXCEPT !.queue = <<entry>>, !.since[entry.entity] = "fresh"],
              [Return EXCEPT !.who = entry.entity, !.caller = TRUE])
    ELSE Save([m EXCEPT !.queue = Append(@, entry)], Return)

\* update.install is refused when there is nothing to install or an install is
\* in progress.
Installs(e) == Pending(e) /\ ~Running(e)

Taken(fl, e) ==
    IF Installs(e) /\ fl[e] = "none" THEN [fl EXCEPT ![e] = "asked"] ELSE fl

\* _tier_blocking_entity and _min_blocking_tier_rank, for Core.
Gated(m) == \E e \in Device : Running(e) /\ e \notin m.forced

\* _async_retry_tier_blocked, where Core `can' be installed or not: it is let
\* go and dispatched, and saved after the call, which its own restart cuts off.
Cleared(m) == m.blocked /\ ~Gated(m)

Retry(m, can) ==
    IF ~Cleared(m) THEN m
    ELSE IF can THEN [m EXCEPT !.blocked = FALSE, !.retrying = TRUE]
    ELSE Save([m EXCEPT !.blocked = FALSE], Return)

Retried(m, can, fl) ==
    IF Cleared(m) /\ can THEN [fl EXCEPT ![Core] = "running"] ELSE fl

(***************************************************************************)
(* What is asked of it.                                                    *)
(***************************************************************************)

Room == Len(rm.writes) < MaxWrites

\* What is asked for names a version; 0 stands for none, and there may be
\* nothing left to install or an install in progress.
Known(e) == latest[e] > 0

Position(e) == SelectInSeq(rm.queue, LAMBDA x : x.entity = e)

\* async_request_install for a device.  The front is dispatched once more by
\* the caller; another place in the queue is kept; a front that has ended gives
\* way first, and the request is made after the save.
Request(e) ==
    LET entry == [entity |-> e, to |-> latest[e]]
        i == Position(e)
    IN  /\ Room /\ Known(e)
        /\ IF i = 1
           THEN /\ flash' = IF rm.queue[1].to = entry.to THEN Taken(flash, e) ELSE flash
                /\ rm' = IF rm.queue[1].to = entry.to /\ rm.writes # <<>>
                         THEN [rm EXCEPT !.wrong = @ \cup {"unsaved"}] ELSE rm
           ELSE /\ rm' = CASE i > 1 /\ rm.queue[i].to = entry.to -> rm
                           [] i > 1 /\ rm.queue[i].to # entry.to ->
                                Save([rm EXCEPT !.queue[i] = entry], Return)
                           [] i = 0 /\ Arrived(rm) -> Advance(rm, [Return EXCEPT !.ask = <<entry>>])
                           [] i = 0 /\ ~Arrived(rm) -> Enqueue(rm, entry)
                /\ UNCHANGED flash
        /\ UNCHANGED <<disk, installed, latest, news, faults>>

\* async_request_install for Core: held back, or left to the caller to dispatch.
RequestCore ==
    /\ Room /\ Known(Core)
    /\ IF Gated(rm)
       THEN rm' = Save([rm EXCEPT !.blocked = TRUE], Return) /\ UNCHANGED flash
       ELSE /\ flash' = [flash EXCEPT ![Core] = IF Installs(Core) THEN "running" ELSE @]
            /\ UNCHANGED rm
    /\ UNCHANGED <<disk, installed, latest, news, faults>>

\* async_cancel_queued: nobody's turn is taken away.
\* Mutant: the front's is, too.
CancelAny(e) ==
    /\ Room /\ Position(e) > 0
    /\ rm' = Save([rm EXCEPT !.queue = RemoveAt(@, Position(e))], Return)
    /\ UNCHANGED <<disk, flash, installed, latest, news, faults>>

Cancel(e) ==
    /\ Room /\ Position(e) > 1
    /\ rm' = Save([rm EXCEPT !.queue = RemoveAt(@, Position(e))], Return)
    /\ UNCHANGED <<disk, flash, installed, latest, news, faults>>

\* Mutant: without the save.
CancelCoreUnsaved ==
    /\ Room /\ rm.blocked
    /\ rm' = [rm EXCEPT !.blocked = FALSE]
    /\ UNCHANGED <<disk, flash, installed, latest, news, faults>>

CancelCore ==
    /\ Room /\ rm.blocked
    /\ rm' = Save([rm EXCEPT !.blocked = FALSE], Return)
    /\ UNCHANGED <<disk, flash, installed, latest, news, faults>>

\* async_set_master_enabled(False): _async_clear_all_waiting puts a new list
\* with the front alone in the place of the old one.
Pause ==
    /\ Room /\ (rm.blocked \/ Len(rm.queue) > 1)
    /\ rm' = LET m == [rm EXCEPT !.blocked = FALSE]
             IN  IF Len(rm.queue) <= 1 THEN Save(m, Return)
                 ELSE Save([m EXCEPT !.queue = <<Head(@)>>,
                                     !.writes = Detached(@, Head(rm.queue).entity)], Return)
    /\ UNCHANGED <<disk, flash, installed, latest, news, faults>>

\* async_stop_waiting_for, offered for an install that was seen in progress.
StopWaiting(e) ==
    /\ e \in rm.started \ rm.forced
    /\ LET m == [rm EXCEPT !.forced = @ \cup {e}]
       IN  /\ rm' = Retry(m, Installs(Core))
           /\ flash' = Retried(m, Installs(Core), flash)
    /\ UNCHANGED <<disk, installed, latest, news, faults>>

(***************************************************************************)
(* What happens to it.                                                     *)
(***************************************************************************)

\* A save is done and its coroutine goes on.  The saves that wait write what
\* the store was given last.  A call that fails changes nothing here: the
\* front is fresh, so that the failure handler's verdict is put off.
Write ==
    LET resume == Head(rm.writes).resume
        who == IF resume.who = Foremost THEN Head(rm.queue).entity ELSE resume.who
        m == [rm EXCEPT !.writes = [i \in DOMAIN Tail(@) |->
                            [Tail(@)[i] EXCEPT !.data = Last(rm.writes).data]]]
        d == IF who = Nobody \/ resume.caller THEN m ELSE [m EXCEPT !.since[who] = "fresh"]
        called == IF who = Nobody THEN flash ELSE Taken(flash, who)
    IN  /\ rm.writes # <<>>
        /\ disk' = Head(rm.writes).data
        /\ UNCHANGED <<installed, latest, news, faults>>
        /\ \E a \in {IF resume.ask = <<>> THEN d ELSE Enqueue(d, resume.ask[1])} :
             IF resume.retry
             THEN rm' = Retry(a, Installs(Core)) /\ flash' = Retried(a, Installs(Core), called)
             ELSE rm' = a /\ flash' = called

\* _on_install_completed.
Completed(n) ==
    LET front == Position(n.entity) = 1
        due == front /\ Head(rm.queue).to = n.version
        m == [Landed(rm, n.entity) EXCEPT
                !.wrong = IF front /\ ~due THEN @ \cup {"late"} ELSE @]
        r == Retry(m, Installs(Core))
    IN  /\ n \in news /\ news' = news \ {n}
        /\ rm' = IF due THEN Advance(r, Return) ELSE r
        /\ flash' = Retried(m, Installs(Core), flash)
        /\ UNCHANGED <<disk, installed, latest, faults>>

\* _async_recheck_stuck_installs: of the installs that were seen in progress
\* and no longer are, in the order they came to be known, the front is judged,
\* and then perhaps the next.
Ended(m) == {e \in m.started : ~Running(e)}

RecheckStuckInstalls(m, n) ==
    LET over == Ended(m)
        Judge(x) == IF x.queue # <<>> /\ Head(x.queue).entity \in over
                    THEN AdvancePastStalledFront(x) ELSE x
        j[i \in 0 .. n] == IF i = 0 THEN [m EXCEPT !.started = @ \ over] ELSE Judge(j[i - 1])
    IN  [j[n] EXCEPT !.started = @ \cup {e \in Device : Running(e)}]

\* _async_recheck_queue_fronts.
\* Mutant: only a front that has ended gives way.
RecheckEndedFronts(m) ==
    IF m.queue # <<>> /\ ~Running(Head(m.queue).entity) /\ Arrived(m)
    THEN Advance(m, Return) ELSE m

RecheckQueueFronts(m) ==
    IF m.queue = <<>> \/ Running(Head(m.queue).entity) THEN m
    ELSE IF Arrived(m) THEN Advance(m, Return)
    ELSE AdvancePastStalledFront(m)

Prompt == Brisk => rm.writes = <<>>

\* _async_periodic_recheck, every 30 s.
\* Mutant: what is blocked is not tried again.
TickWithoutRetry ==
    /\ Prompt
    /\ UNCHANGED <<disk, flash, installed, latest, news, faults>>
    /\ \E n \in 1 .. 1 + Cardinality(Ended(rm)) : \E m \in {RecheckStuckInstalls(rm, n)} :
         rm' = RecheckQueueFronts(m)

Tick ==
    /\ Prompt
    /\ UNCHANGED <<disk, installed, latest, news, faults>>
    /\ \E n \in 1 .. 1 + Cardinality(Ended(rm)) : \E m \in {RecheckStuckInstalls(rm, n)} :
         /\ flash' = Retried(m, Installs(Core), flash)
         /\ \E r \in {Retry(m, Installs(Core))} : rm' = RecheckQueueFronts(r)

\* The minute of _FRONT_GRACE passes: the save before e's call does not take
\* as long as that.
Ages(e) ==
    /\ rm.since[e] = "fresh" /\ Prompt
    /\ \A i \in DOMAIN rm.writes : rm.writes[i].resume.who # e
    /\ rm' = [rm EXCEPT !.since[e] = "old"]
    /\ UNCHANGED <<disk, flash, installed, latest, news, faults>>

(***************************************************************************)
(* The updates.                                                            *)
(***************************************************************************)

Starts(e) ==
    /\ flash[e] = "asked" /\ flash' = [flash EXCEPT ![e] = "running"]
    /\ UNCHANGED <<rm, disk, installed, latest, news, faults>>

Finishes(e) ==
    /\ Running(e) /\ flash' = [flash EXCEPT ![e] = "none"]
    /\ installed' = [installed EXCEPT ![e] = latest[e]]
    /\ news' = news \cup {[entity |-> e, version |-> latest[e]]}
    /\ UNCHANGED <<rm, disk, latest, faults>>

\* An install fails, or the request for it was lost.
Fails(e) ==
    /\ UnderWay(e) /\ Fault /\ flash' = [flash EXCEPT ![e] = "none"]
    /\ UNCHANGED <<rm, disk, installed, latest, news>>

\* A sleepy device stops reporting in the middle of its install.
Dozes(e) ==
    /\ Running(e) /\ Fault /\ flash' = [flash EXCEPT ![e] = "dozing"]
    /\ UNCHANGED <<rm, disk, installed, latest, news>>

Wakes(e) ==
    /\ flash[e] = "dozing" /\ flash' = [flash EXCEPT ![e] = "running"]
    /\ UNCHANGED <<rm, disk, installed, latest, news, faults>>

Released(e) ==
    /\ latest[e] < MaxVersion /\ latest' = [latest EXCEPT ![e] = @ + 1]
    /\ UNCHANGED <<rm, disk, flash, installed, news, faults>>

\* Core's install fails; the retry that dispatched it comes to its save.
CoreFails ==
    /\ Running(Core) /\ Fault /\ flash' = [flash EXCEPT ![Core] = "none"]
    /\ rm' = IF rm.retrying THEN Save([rm EXCEPT !.retrying = FALSE], Return) ELSE rm
    /\ UNCHANGED <<disk, installed, latest, news>>

\* async_load and _async_recover_after_restart.  The state of the front may
\* not be there yet, and what ended before is told again or not.
Restart ==
    LET m == [Empty EXCEPT !.queue = disk.queue, !.blocked = disk.blocked, !.wrong = rm.wrong]
        d == [m EXCEPT !.since[Head(m.queue).entity] = "fresh"]
        fl == [flash EXCEPT ![Core] = "none"]
        can == installed'[Core] # latest[Core]
    IN  /\ \/ /\ m.queue = <<>>
              /\ rm' = Retry(m, can) /\ flash' = Retried(m, can, fl)
           \/ /\ Arrived(m)
              /\ rm' = Advance(m, [Return EXCEPT !.retry = TRUE]) /\ flash' = fl
           \/ /\ m.queue # <<>>
              /\ rm' = Retry(d, can)
              /\ flash' = Retried(d, can, Taken(fl, Head(m.queue).entity))
        /\ news' \in {{}, news}
        /\ UNCHANGED <<disk, latest>>

\* Core's install ends in a restart; Home Assistant restarts for another reason.
CoreRestarts ==
    /\ Running(Core) /\ installed' = [installed EXCEPT ![Core] = latest[Core]]
    /\ Restart /\ UNCHANGED faults

Crash == Fault /\ UNCHANGED installed /\ Restart

Next ==
    \/ \E e \in Device :
         \/ Request(e) \/ Cancel(e) \/ StopWaiting(e) \/ Ages(e)
         \/ Starts(e) \/ Finishes(e) \/ Fails(e) \/ Dozes(e) \/ Wakes(e) \/ Released(e)
    \/ RequestCore \/ CancelCore \/ Pause
    \/ Write \/ (\E n \in news : Completed(n)) \/ Tick
    \/ CoreFails \/ CoreRestarts \/ Crash

\* Saves end, ticks and minutes pass, the coordinator tells what it saw, and
\* what a device or Core was asked for ends in some way.
Fairness ==
    /\ WF_vars(Write) /\ WF_vars(Tick)
    /\ \A e \in Device : /\ WF_vars(Ages(e)) /\ WF_vars(Starts(e))
                         /\ WF_vars(Finishes(e)) /\ WF_vars(Wakes(e))
    /\ WF_vars(CoreRestarts)

Spec == Init /\ [][Next]_vars /\ Fairness

(***************************************************************************)
(* What the manager promises.                                              *)
(***************************************************************************)

\* One device of the network at a time is being installed, however requests,
\* completions, saves, ticks and restarts interleave, as long as no front gave
\* way that was under way or about to be, or was dispatched again in its save.
OneAtATime ==
    {"early", "unsaved"} \cap rm.wrong = {} =>
      \A d, e \in Device : UnderWay(d) /\ UnderWay(e) => d = e

\* No front is forgotten, whichever list the coroutine that is to dispatch it
\* holds: one that is still to be installed has been dispatched, or that
\* coroutine is in its save, unless news of another version ended its minute.
FrontHasItsTurn ==
    LET e == Head(rm.queue).entity
    IN  rm.queue # <<>> /\ "late" \notin rm.wrong /\ Pending(e) =>
          rm.since[e] # "none" \/ Awaited(rm)

\* Once nothing is being written the file has what the manager has, except
\* while a retry is still in its call for Core.
DiskAgrees ==
    rm.writes = <<>> =>
      /\ disk.queue = rm.queue
      /\ rm.retrying \/ disk.blocked = rm.blocked

\* Nothing waits for ever: an entry's turn comes, or it is let go, whatever
\* fails, dozes off or restarts.
Drains == \A e \in Device : Position(e) # 0 ~> Position(e) = 0

\* Core does not wait for ever.
CoreHasItsTurn == rm.blocked ~> ~rm.blocked

\* A verdict ("did not finish") is for an install that was dispatched.
StalledHadStarted == "never" \notin rm.wrong
=============================================================================
