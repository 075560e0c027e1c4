--------------------------- MODULE RolloutProofs ---------------------------
(***************************************************************************)
(* Whatever is asked of the rollout manager, and whatever becomes of the   *)
(* installs, the saves and Home Assistant in between: one device at a time *)
(* is being installed, no front is forgotten, and the file is the memory.  *)
(* For any devices, versions, faults and saves.                            *)
(*                                                                         *)
(* The invariant is about a memory m, a file d and what the updates are at *)
(* (fl), not about the state, so that a lemma per operation of the manager *)
(* says what the operation keeps, and a handler that makes several of them *)
(* in a row is covered by citing them in a row.                            *)
(***************************************************************************)
EXTENDS Rollout, FiniteSetTheorems, WellFoundedInduction, TLAPS

Entry  == [entity : Device, to : Nat]
Stored == [queue : Seq(Entry), blocked : BOOLEAN]
Resume == [who : Device \cup {Nobody, Foremost}, caller : BOOLEAN,
           ask : Seq(Entry), retry : BOOLEAN]
Saving == [data : Stored, resume : Resume]
Memory == [queue : Seq(Entry), blocked : BOOLEAN, writes : Seq(Saving),
           since : [Device -> {"none", "fresh", "old"}],
           started : SUBSET Device, forced : SUBSET Device, retrying : BOOLEAN,
           wrong : SUBSET {"early", "never", "unsaved", "late"}]

AtFront(q) == Head(q).entity
Leads(q, e) == q # << >> /\ AtFront(q) = e

\* What is stored, or was given to the store last, is the memory.
Same(d, m) == d.queue = m.queue /\ (m.retrying \/ d.blocked = m.blocked)

Agrees(m, d) ==
  /\ m.writes = << >> => Same(d, m)
  /\ m.writes # << >> => Same(m.writes[Len(m.writes)].data, m)

\* The front has its turn: the caller of a request that waits in its save does
\* not count, as the manager has taken note of that turn already.
HasTurn(m) ==
  m.queue # << >> /\ "late" \notin m.wrong =>
    \/ m.since[AtFront(m.queue)] # "none"
    \/ \E i \in 1..Len(m.writes) : /\ m.writes[i].resume.who \in {Foremost, AtFront(m.queue)}
                                   /\ ~m.writes[i].resume.caller

\* A device under way is the front, in memory, in the file and in whatever
\* will be the file; and so is a device that is about to be dispatched, from
\* the save on that its coroutine is in.
Flying(m, d, fl) ==
  \A e \in Device : fl[e] # "none" =>
    /\ Leads(m.queue, e) /\ Leads(d.queue, e)
    /\ \A j \in 1..Len(m.writes) : Leads(m.writes[j].data.queue, e)

Waiting(m) ==
  \A i \in 1..Len(m.writes) : m.writes[i].resume.who # Nobody =>
    /\ m.queue # << >>
    /\ m.writes[i].resume.who \in {Foremost, AtFront(m.queue)}
    /\ \A j \in i..Len(m.writes) : Leads(m.writes[j].data.queue, AtFront(m.queue))

Careful(m) == {"early", "unsaved"} \cap m.wrong = {}

InTurn(m, d, fl) == Careful(m) => Flying(m, d, fl) /\ Waiting(m)

Sound(m, d, fl) == m \in Memory /\ Agrees(m, d) /\ InTurn(m, d, fl)

Good(m, d, fl) == Sound(m, d, fl) /\ HasTurn(m)

-----------------------------------------------------------------------------
(* Induction, as the least member of a set of numbers. *)

Less == {p \in Nat \X Nat : p[1] < p[2]}

LEMMA LessIsWellFounded == IsWellFoundedOn(Less, Nat)
BY NatLessThanWellFounded DEF OpToRel, Less

LEMMA Least ==
  ASSUME NEW T \in SUBSET Nat, T # {}
  PROVE  \E least \in T : \A n \in T : least <= n
<1>1. PICK least \in T : \A n \in T : <<n, least>> \notin Less
  BY WFMin, LessIsWellFounded
<1>2. ASSUME NEW n \in T PROVE least <= n
  <2>1. ~(n < least)
    BY <1>1 DEF Less
  <2> QED
    BY <2>1
<1> QED
  BY <1>2

-----------------------------------------------------------------------------
(* Saves *)

LEMMA ReturnTypes == Return \in Resume
<1>1. << >> \in Seq(Entry)
  OBVIOUS
<1> QED
  BY <1>1 DEF Return, Resume

\* A save adds the memory as it is, and changes nothing else.
LEMMA SaveAdds ==
  ASSUME NEW m \in Memory, NEW resume \in Resume
  PROVE  LET s == Save(m, resume) IN
         /\ s \in Memory
         /\ s.queue = m.queue /\ s.blocked = m.blocked /\ s.since = m.since
         /\ s.retrying = m.retrying /\ s.wrong = m.wrong
         /\ Len(s.writes) = Len(m.writes) + 1 /\ s.writes # << >>
         /\ \A i \in 1..Len(m.writes) : s.writes[i] = m.writes[i]
         /\ s.writes[Len(m.writes) + 1].data = [queue |-> m.queue, blocked |-> m.blocked]
         /\ s.writes[Len(m.writes) + 1].resume = resume
<1> DEFINE w == [data |-> [queue |-> m.queue, blocked |-> m.blocked], resume |-> resume]
<1>1. w \in Saving /\ w.resume = resume /\ w.data = [queue |-> m.queue, blocked |-> m.blocked]
  BY DEF Saving, Stored, Memory
<1> HIDE DEF w
<1>2. m.writes \in Seq(Saving)
  BY DEF Memory
<1>3. /\ Append(m.writes, w) \in Seq(Saving)
      /\ Len(Append(m.writes, w)) = Len(m.writes) + 1 /\ Append(m.writes, w) # << >>
      /\ \A i \in 1..Len(m.writes) : Append(m.writes, w)[i] = m.writes[i]
      /\ Append(m.writes, w)[Len(m.writes) + 1] = w
  BY <1>1, <1>2
<1> DEFINE v == Append(m.writes, w)
<1>4. Save(m, resume) = [m EXCEPT !.writes = v]
  BY DEF Save, w
<1>5. /\ v \in Seq(Saving) /\ Len(v) = Len(m.writes) + 1 /\ v # << >>
      /\ \A i \in 1..Len(m.writes) : v[i] = m.writes[i]
      /\ v[Len(m.writes) + 1].data = [queue |-> m.queue, blocked |-> m.blocked]
      /\ v[Len(m.writes) + 1].resume = resume
  BY <1>1, <1>3
<1> HIDE DEF v
<1>6. Save(m, resume) \in Memory
  BY <1>4, <1>5 DEF Memory
<1>7. /\ Save(m, resume).queue = m.queue /\ Save(m, resume).blocked = m.blocked
      /\ Save(m, resume).since = m.since /\ Save(m, resume).retrying = m.retrying
      /\ Save(m, resume).wrong = m.wrong /\ Save(m, resume).writes = v
  BY <1>4 DEF Memory
<1> QED
  BY <1>5, <1>6, <1>7

LEMMA SaveAgrees ==
  ASSUME NEW m \in Memory, NEW resume \in Resume, NEW d
  PROVE  Agrees(Save(m, resume), d)
<1> DEFINE s == Save(m, resume)
<1>1. /\ s.queue = m.queue /\ s.blocked = m.blocked /\ s.writes # << >>
      /\ s.writes[Len(s.writes)].data = [queue |-> m.queue, blocked |-> m.blocked]
  BY SaveAdds
<1> HIDE DEF s
<1> QED
  BY <1>1 DEF Agrees, Same, s

\* A coroutine that dispatches nothing, or the front, may save at any time.
LEMMA SaveSound ==
  ASSUME NEW m \in Memory, NEW resume \in Resume, NEW d, NEW fl, InTurn(m, d, fl),
         resume.who # Nobody => m.queue # << >> /\ resume.who \in {Foremost, AtFront(m.queue)}
  PROVE  Sound(Save(m, resume), d, fl)
<1> DEFINE s == Save(m, resume)
           n == Len(m.writes)
<1>1. /\ s \in Memory /\ s.queue = m.queue /\ s.wrong = m.wrong
      /\ Len(s.writes) = n + 1 /\ \A i \in 1..n : s.writes[i] = m.writes[i]
      /\ s.writes[n + 1].data = [queue |-> m.queue, blocked |-> m.blocked]
      /\ s.writes[n + 1].resume = resume
  BY SaveAdds
<1>2. n \in Nat
  BY DEF Memory
<1>3. Agrees(s, d)
  BY SaveAgrees
<1> HIDE DEF s
<1> HIDE DEF n
<1>4. ASSUME Careful(s) PROVE Flying(s, d, fl) /\ Waiting(s)
  <2>1. Flying(m, d, fl) /\ Waiting(m)
    BY <1>1, <1>4 DEF InTurn, Careful
  <2>2. Flying(s, d, fl)
    <3> SUFFICES ASSUME NEW e \in Device, fl[e] # "none"
                 PROVE  /\ Leads(s.queue, e) /\ Leads(d.queue, e)
                        /\ \A j \in 1..(n + 1) : Leads(s.writes[j].data.queue, e)
      BY <1>1 DEF Flying
    <3>1. /\ Leads(m.queue, e) /\ Leads(d.queue, e)
          /\ \A j \in 1..n : Leads(m.writes[j].data.queue, e)
      BY <2>1 DEF Flying, n
    <3>2. ASSUME NEW j \in 1..(n + 1) PROVE Leads(s.writes[j].data.queue, e)
      BY <1>1, <1>2, <3>1
    <3> QED
      BY <1>1, <3>1, <3>2
  <2>3. ASSUME NEW i \in 1..(n + 1), s.writes[i].resume.who # Nobody
        PROVE  /\ m.queue # << >>
               /\ s.writes[i].resume.who \in {Foremost, AtFront(m.queue)}
               /\ \A j \in i..(n + 1) : Leads(s.writes[j].data.queue, AtFront(m.queue))
    <3>1. CASE i = n + 1
      BY <1>1, <1>2, <2>3, <3>1 DEF Leads
    <3>2. CASE i # n + 1
      <4>1. i \in 1..n /\ s.writes[i] = m.writes[i]
        BY <1>1, <1>2, <3>2
      <4>2. /\ m.queue # << >>
            /\ s.writes[i].resume.who \in {Foremost, AtFront(m.queue)}
            /\ \A j \in i..n : Leads(m.writes[j].data.queue, AtFront(m.queue))
        BY <2>1, <2>3, <4>1 DEF Waiting, n
      <4>3. ASSUME NEW j \in i..(n + 1) PROVE Leads(s.writes[j].data.queue, AtFront(m.queue))
        <5>1. CASE j = n + 1
          BY <1>1, <4>2, <5>1 DEF Leads
        <5>2. CASE j # n + 1
          <6>1. j \in i..n /\ j \in 1..n
            BY <1>2, <4>1, <5>2
          <6> QED
            BY <1>1, <4>2, <6>1
        <5> QED
          BY <5>1, <5>2
      <4> QED
        BY <4>2, <4>3
    <3> QED
      BY <3>1, <3>2
  <2>4. Waiting(s)
    BY <1>1, <2>3 DEF Waiting
  <2> QED
    BY <2>2, <2>4
<1> QED
  BY <1>1, <1>3, <1>4 DEF Sound, InTurn, s

LEMMA SaveHasTurn ==
  ASSUME NEW m \in Memory, NEW resume \in Resume, HasTurn(m)
  PROVE  HasTurn(Save(m, resume))
<1> DEFINE s == Save(m, resume)
           n == Len(m.writes)
<1>1. /\ s.queue = m.queue /\ s.wrong = m.wrong /\ s.since = m.since
      /\ Len(s.writes) = n + 1 /\ \A i \in 1..n : s.writes[i] = m.writes[i]
  BY SaveAdds, ZenonT(30)
<1>2. n \in Nat
  BY DEF Memory
<1> HIDE DEF s
<1>3. \A i \in 1..n : i \in 1..(n + 1)
  BY <1>2
<1> QED
  BY <1>1, <1>3 DEF HasTurn, s

\* What is under way, or waits, is not concerned by a change behind the front;
\* where there is no front, nothing is and does.
LEMMA InTurnSame ==
  ASSUME NEW m, NEW k, NEW d, NEW fl, InTurn(m, d, fl),
         k.writes = m.writes, m.wrong \subseteq k.wrong,
         m.queue # << >> => Leads(k.queue, AtFront(m.queue))
  PROVE  InTurn(k, d, fl)
<1> SUFFICES ASSUME Careful(k) PROVE Flying(k, d, fl) /\ Waiting(k)
  BY DEF InTurn
<1>1. Flying(m, d, fl) /\ Waiting(m)
  BY DEF InTurn, Careful
<1>2. Flying(k, d, fl)
  BY <1>1 DEF Flying, Leads
<1>3. Waiting(k)
  BY <1>1 DEF Waiting, Leads
<1> QED
  BY <1>2, <1>3

\* Installs that end, or go on, are no danger.
LEMMA FewerFly ==
  ASSUME NEW m, NEW d, NEW fl, NEW gl, InTurn(m, d, fl),
         \A e \in Device : gl[e] # "none" => fl[e] # "none"
  PROVE  InTurn(m, d, gl)
BY DEF InTurn, Flying

\* What is saved is not concerned by the rest of the memory.
LEMMA AgreesSame ==
  ASSUME NEW m, NEW k, NEW d, Agrees(m, d), k.writes = m.writes,
         k.queue = m.queue, k.blocked = m.blocked, k.retrying = m.retrying
  PROVE  Agrees(k, d)
BY DEF Agrees, Same

-----------------------------------------------------------------------------
(* The front gives way *)

\* A list that is the queue no more: the saves and what they write are as before.
LEMMA DetachedTypes ==
  ASSUME NEW writes \in Seq(Saving), NEW who \in Device \cup {Nobody}
  PROVE  /\ Detached(writes, who) \in Seq(Saving)
         /\ Len(Detached(writes, who)) = Len(writes)
         /\ \A i \in 1..Len(writes) :
              /\ Detached(writes, who)[i].data = writes[i].data
              /\ writes[i].resume.who # Foremost => Detached(writes, who)[i] = writes[i]
              /\ writes[i].resume.who = Foremost => Detached(writes, who)[i].resume.who = who
              /\ who # Nobody => Detached(writes, who)[i].resume.caller = writes[i].resume.caller
<1> DEFINE n == Len(writes)
           f(i) == IF writes[i].resume.who # Foremost THEN writes[i]
                   ELSE IF who = Nobody THEN [writes[i] EXCEPT !.resume = Return]
                   ELSE [writes[i] EXCEPT !.resume.who = who]
<1>1. n \in Nat /\ DOMAIN writes = 1..n
  OBVIOUS
<1>2. Detached(writes, who) = [i \in 1..n |-> f(i)]
  BY <1>1 DEF Detached
<1>3. ASSUME NEW i \in 1..n
      PROVE  /\ f(i) \in Saving
             /\ f(i).data = writes[i].data
             /\ writes[i].resume.who # Foremost => f(i) = writes[i]
             /\ writes[i].resume.who = Foremost => f(i).resume.who = who
             /\ who # Nobody => f(i).resume.caller = writes[i].resume.caller
  <2>1. writes[i] \in Saving
    OBVIOUS
  <2>2. CASE writes[i].resume.who # Foremost
    BY <2>1, <2>2
  <2>3. CASE writes[i].resume.who = Foremost /\ who = Nobody
    BY <2>1, <2>3, ReturnTypes DEF Saving, Return
  <2>4. CASE writes[i].resume.who = Foremost /\ who # Nobody
    BY <2>1, <2>4 DEF Saving, Resume
  <2> QED
    BY <2>2, <2>3, <2>4
<1> HIDE DEF f
<1>4. [i \in 1..n |-> f(i)] \in Seq(Saving) /\ Len([i \in 1..n |-> f(i)]) = n
  BY <1>1, <1>3
<1> QED
  BY <1>2, <1>3, <1>4

LEMMA PoppedTypes ==
  ASSUME NEW m \in Memory, m.queue # << >>
  PROVE  LET p == Popped(m) IN
         /\ p \in Memory
         /\ p.queue = Tail(m.queue) /\ p.writes = m.writes /\ m.wrong \subseteq p.wrong
         /\ "early" \notin p.wrong => flash[AtFront(m.queue)] = "none" /\ ~Awaited(m)
<1> DEFINE e == Head(m.queue).entity
           wrong == IF UnderWay(e) \/ Awaited(m) THEN m.wrong \cup {"early"} ELSE m.wrong
<1>1. m.queue \in Seq(Entry) /\ m.since \in [Device -> {"none", "fresh", "old"}]
  BY DEF Memory
<1>1a. Head(m.queue) \in Entry /\ Tail(m.queue) \in Seq(Entry)
  BY <1>1
<1>1b. e \in Device
  BY <1>1a DEF Entry
<1>2. wrong \in SUBSET {"early", "never", "unsaved", "late"} /\ m.wrong \subseteq wrong
  BY DEF Memory
<1>3. "early" \notin wrong => ~UnderWay(e) /\ ~Awaited(m)
  OBVIOUS
<1>4. Popped(m) = [m EXCEPT !.since[e] = "none", !.started = m.started \ {e},
                            !.forced = m.forced \ {e}, !.queue = Tail(m.queue),
                            !.wrong = wrong]
  BY DEF Popped, Landed, Memory
<1>5. [m.since EXCEPT ![e] = "none"] \in [Device -> {"none", "fresh", "old"}]
  BY <1>1
<1> HIDE DEF e
<1> HIDE DEF wrong
<1> DEFINE since == [m.since EXCEPT ![e] = "none"]
           tail == Tail(m.queue)
           started == m.started \ {e}
           forced == m.forced \ {e}
<1>6. started \in SUBSET Device /\ forced \in SUBSET Device
  BY DEF Memory
<1>7. Popped(m) = [m EXCEPT !.since = since, !.started = started,
                            !.forced = forced, !.queue = tail, !.wrong = wrong]
  BY <1>4
<1> HIDE DEF e
<1> HIDE DEF wrong
<1>8. since \in [Device -> {"none", "fresh", "old"}] /\ tail \in Seq(Entry)
  BY <1>1a, <1>5
<1> HIDE DEF since
<1> HIDE DEF tail
<1> HIDE DEF started
<1> HIDE DEF forced
<1>9. Popped(m) \in Memory
  BY <1>2, <1>6, <1>7, <1>8 DEF Memory
<1>10. /\ Popped(m).queue = tail /\ Popped(m).writes = m.writes
       /\ Popped(m).wrong = wrong
  BY <1>7 DEF Memory
<1> QED
  BY <1>2, <1>3, <1>9, <1>10 DEF e, wrong, tail, UnderWay, AtFront

\* Nothing is under way, and nothing is about to be.
Quiet(m) ==
  /\ \A e \in Device : flash[e] = "none"
  /\ \A i \in 1..Len(m.writes) : m.writes[i].resume.who = Nobody

LEMMA QuietIsInTurn ==
  ASSUME NEW m, NEW d, Careful(m) => Quiet(m)
  PROVE  InTurn(m, d, flash)
BY DEF InTurn, Flying, Waiting, Quiet

\* A front that is taken off with care leaves quiet behind.
LEMMA PoppedIsQuiet ==
  ASSUME NEW m \in Memory, NEW d, m.queue # << >>, InTurn(m, d, flash), Careful(Popped(m))
  PROVE  Quiet(Popped(m))
<1> DEFINE p == Popped(m)
<1>1. /\ p.writes = m.writes /\ m.wrong \subseteq p.wrong
      /\ "early" \notin p.wrong => flash[AtFront(m.queue)] = "none" /\ ~Awaited(m)
  BY PoppedTypes
<1>2. Flying(m, d, flash) /\ Waiting(m)
  BY <1>1 DEF InTurn, Careful
<1>3. flash[AtFront(m.queue)] = "none" /\ ~Awaited(m)
  BY <1>1 DEF Careful
<1>4. \A e \in Device : flash[e] = "none"
  BY <1>2, <1>3 DEF Flying, Leads
<1>5. DOMAIN m.writes = 1..Len(m.writes)
  BY DEF Memory
<1>6. ASSUME NEW i \in 1..Len(m.writes) PROVE m.writes[i].resume.who = Nobody
  <2>1. m.writes[i].resume.who \notin {Foremost, AtFront(m.queue)}
    BY <1>3, <1>5 DEF Awaited, AtFront
  <2> QED
    BY <1>2, <2>1 DEF Waiting
<1> QED
  BY <1>1, <1>4, <1>6 DEF Quiet

\* Advance: whatever the front was at, what comes to the front is dispatched
\* by the coroutine that made it the front.
LEMMA AdvanceGood ==
  ASSUME NEW m \in Memory, NEW d, NEW resume \in Resume, m.queue # << >>,
         InTurn(m, d, flash), resume.who = Nobody, resume.caller = FALSE
  PROVE  Good(Advance(m, resume), d, flash)
<1> DEFINE p == Popped(m)
           k == [p EXCEPT !.writes = Detached(p.writes, Nobody)]
           next == [resume EXCEPT !.who = Foremost]
<1>1. p \in Memory
  BY PoppedTypes
<1>2. p.writes \in Seq(Saving)
  BY <1>1 DEF Memory
<1>3. Careful(p) => Quiet(p)
  BY PoppedIsQuiet
<1>4. CASE p.queue = << >>
  <2>1. /\ Detached(p.writes, Nobody) \in Seq(Saving)
        /\ Len(Detached(p.writes, Nobody)) = Len(p.writes)
        /\ \A i \in 1..Len(p.writes) : \/ Detached(p.writes, Nobody)[i] = p.writes[i]
                                       \/ Detached(p.writes, Nobody)[i].resume.who = Nobody
    BY <1>2, DetachedTypes
  <2>2. /\ k \in Memory /\ k.queue = p.queue /\ k.wrong = p.wrong
        /\ k.writes = Detached(p.writes, Nobody)
    BY <1>1, <2>1 DEF Memory
  <2>3. Advance(m, resume) = Save(k, resume)
    BY <1>4 DEF Advance
  <2> HIDE DEF k
  <2> HIDE DEF p
  <2>4. Careful(k) => Quiet(k)
    BY <1>3, <2>1, <2>2 DEF Careful, Quiet
  <2>5. InTurn(k, d, flash)
    BY <2>4, QuietIsInTurn
  <2>6. Sound(Save(k, resume), d, flash)
    BY <2>2, <2>5, SaveSound
  <2>7. Save(k, resume).queue = << >>
    BY <1>4, <2>2, SaveAdds
  <2> QED
    BY <2>3, <2>6, <2>7 DEF Good, HasTurn
<1>5. CASE p.queue # << >>
  <2>1. next \in Resume /\ next.who = Foremost /\ next.caller = FALSE
    BY DEF Resume
  <2>2. Advance(m, resume) = Save(p, next)
    BY <1>5 DEF Advance
  <2> HIDE DEF p
  <2> HIDE DEF next
  <2>3. InTurn(p, d, flash)
    BY <1>3, QuietIsInTurn
  <2>4. Sound(Save(p, next), d, flash)
    BY <1>1, <1>5, <2>1, <2>3, SaveSound
  <2>5. /\ Len(Save(p, next).writes) = Len(p.writes) + 1
        /\ Save(p, next).writes[Len(p.writes) + 1].resume = next
    BY <1>1, <2>1, SaveAdds
  <2>6. Len(p.writes) + 1 \in 1..Len(Save(p, next).writes)
    BY <1>2, <2>5
  <2>7. HasTurn(Save(p, next))
    BY <2>1, <2>5, <2>6 DEF HasTurn
  <2> QED
    BY <2>2, <2>4, <2>7 DEF Good
<1> QED
  BY <1>4, <1>5

-----------------------------------------------------------------------------
(* The other operations of the manager *)

LEMMA RetryKeeps ==
  ASSUME NEW m, NEW d, NEW fl, NEW can \in BOOLEAN, Sound(m, d, fl)
  PROVE  LET r == Retry(m, can) IN
         /\ Sound(r, d, fl) /\ (HasTurn(m) => HasTurn(r))
         /\ r.queue = m.queue /\ r.wrong = m.wrong /\ r.since = m.since
<1> DEFINE free == [m EXCEPT !.blocked = FALSE]
           call == [m EXCEPT !.blocked = FALSE, !.retrying = TRUE]
<1>1. m \in Memory
  BY DEF Sound
<1>2. CASE ~Cleared(m)
  BY <1>2 DEF Retry
<1>3. CASE Cleared(m) /\ can
  <2>1. /\ call \in Memory /\ call.queue = m.queue /\ call.writes = m.writes
        /\ call.wrong = m.wrong /\ call.since = m.since /\ call.retrying
    BY <1>1 DEF Memory
  <2>2. Retry(m, can) = call
    BY <1>3 DEF Retry
  <2> HIDE DEF call
  <2>3. InTurn(call, d, fl)
    BY <2>1 DEF Sound, InTurn, Careful, Flying, Waiting
  <2>4. Agrees(call, d)
    BY <2>1 DEF Sound, Agrees, Same
  <2>5. HasTurn(m) => HasTurn(call)
    BY <2>1 DEF HasTurn
  <2> QED
    BY <2>1, <2>2, <2>3, <2>4, <2>5 DEF Sound
<1>4. CASE Cleared(m) /\ ~can
  <2>1. /\ free \in Memory /\ free.queue = m.queue /\ free.writes = m.writes
        /\ free.wrong = m.wrong /\ free.since = m.since
    BY <1>1 DEF Memory
  <2>2. Retry(m, can) = Save(free, Return)
    BY <1>4 DEF Retry
  <2>3. Return.who = Nobody
    BY DEF Return
  <2> HIDE DEF free
  <2>4. InTurn(free, d, fl)
    BY <2>1 DEF Sound, InTurn, Careful, Flying, Waiting
  <2>5. Sound(Save(free, Return), d, fl)
    BY <2>1, <2>3, <2>4, ReturnTypes, SaveSound
  <2>6. HasTurn(m) => HasTurn(free)
    BY <2>1 DEF HasTurn
  <2>7. HasTurn(free) => HasTurn(Save(free, Return))
    BY <2>1, ReturnTypes, SaveHasTurn
  <2>8. /\ Save(free, Return).queue = m.queue /\ Save(free, Return).wrong = m.wrong
        /\ Save(free, Return).since = m.since
    BY <2>1, ReturnTypes, SaveAdds
  <2> QED
    BY <2>2, <2>5, <2>6, <2>7, <2>8
<1> QED
  BY <1>2, <1>3, <1>4

\* An entry goes to the end, and is dispatched by its caller if that is the front.
LEMMA EnqueueGood ==
  ASSUME NEW m \in Memory, NEW d, NEW fl, NEW entry \in Entry, InTurn(m, d, fl), HasTurn(m)
  PROVE  Good(Enqueue(m, entry), d, fl)
<1> DEFINE since == [m.since EXCEPT ![entry.entity] = "fresh"]
           first == [m EXCEPT !.queue = <<entry>>, !.since = since]
           more == [m EXCEPT !.queue = Append(m.queue, entry)]
           call == [Return EXCEPT !.who = entry.entity, !.caller = TRUE]
<1>1. /\ m.queue \in Seq(Entry) /\ entry.entity \in Device
      /\ m.since \in [Device -> {"none", "fresh", "old"}]
  BY DEF Memory, Entry
<1>2. CASE m.queue = << >>
  <2>1. /\ since \in [Device -> {"none", "fresh", "old"}] /\ since[entry.entity] = "fresh"
        /\ <<entry>> \in Seq(Entry) /\ <<entry>> # << >> /\ Head(<<entry>>) = entry
    BY <1>1
  <2>2. call \in Resume /\ call.who = entry.entity
    BY <1>1, ReturnTypes DEF Return, Resume
  <2>3. Enqueue(m, entry) = Save(first, call)
    BY <1>2 DEF Enqueue
  <2> HIDE DEF since
  <2> HIDE DEF call
  <2>4. /\ first \in Memory /\ first.queue = <<entry>> /\ first.writes = m.writes
        /\ first.wrong = m.wrong /\ first.since = since
    BY <2>1 DEF Memory
  <2> HIDE DEF first
  <2>5. AtFront(first.queue) = entry.entity /\ first.queue # << >>
    BY <2>1, <2>4 DEF AtFront
  <2>6. InTurn(first, d, fl)
    BY <1>2, <2>4, InTurnSame
  <2>7. Sound(Save(first, call), d, fl)
    BY <2>2, <2>4, <2>5, <2>6, SaveSound
  <2>8. HasTurn(first)
    BY <2>1, <2>4, <2>5 DEF HasTurn
  <2>9. HasTurn(Save(first, call))
    BY <2>2, <2>4, <2>8, SaveHasTurn
  <2> QED
    BY <2>3, <2>7, <2>9 DEF Good
<1>3. CASE m.queue # << >>
  <2>1. /\ Append(m.queue, entry) \in Seq(Entry) /\ Append(m.queue, entry) # << >>
        /\ Head(Append(m.queue, entry)) = Head(m.queue)
    BY <1>1, <1>3
  <2>2. Enqueue(m, entry) = Save(more, Return) /\ Return.who = Nobody
    BY <1>3 DEF Enqueue, Return
  <2>3. /\ more \in Memory /\ more.queue = Append(m.queue, entry) /\ more.writes = m.writes
        /\ more.wrong = m.wrong /\ more.since = m.since
    BY <2>1 DEF Memory
  <2> HIDE DEF more
  <2>4. AtFront(more.queue) = AtFront(m.queue)
    BY <2>1, <2>3 DEF AtFront
  <2>5. InTurn(more, d, fl)
    BY <2>1, <2>3, <2>4, InTurnSame DEF Leads
  <2>6. Sound(Save(more, Return), d, fl)
    BY <2>2, <2>3, <2>5, ReturnTypes, SaveSound
  <2>7. HasTurn(more)
    BY <1>3, <2>3, <2>4 DEF HasTurn
  <2>8. HasTurn(Save(more, Return))
    BY <2>3, <2>7, ReturnTypes, SaveHasTurn
  <2> QED
    BY <2>2, <2>6, <2>8 DEF Good
<1> QED
  BY <1>2, <1>3

LEMMA ReturnIs == Return \in Resume /\ Return.who = Nobody /\ Return.caller = FALSE
BY ReturnTypes DEF Return

LEMMA PastStalledGood ==
  ASSUME NEW m, NEW d, Good(m, d, flash)
  PROVE  Good(AdvancePastStalledFront(m), d, flash)
<1> DEFINE wrong == IF Misjudged(m) THEN m.wrong \cup {"never"} ELSE m.wrong
           k == [m EXCEPT !.wrong = wrong]
<1>1. m \in Memory /\ InTurn(m, d, flash)
  BY DEF Good, Sound
<1>2. CASE ~Stalled(m)
  BY <1>2 DEF AdvancePastStalledFront
<1>3. CASE Stalled(m)
  <2>1. AdvancePastStalledFront(m) = Advance(k, Return)
    BY <1>3 DEF AdvancePastStalledFront
  <2>2. wrong \in SUBSET {"early", "never", "unsaved", "late"} /\ m.wrong \subseteq wrong
    BY <1>1 DEF Memory
  <2> HIDE DEF wrong
  <2>3. k \in Memory /\ k.queue = m.queue /\ k.writes = m.writes /\ m.wrong \subseteq k.wrong
    BY <1>1, <2>2 DEF Memory
  <2> HIDE DEF k
  <2>4. m.queue # << >>
    BY <1>3 DEF Stalled
  <2>5. InTurn(k, d, flash)
    BY <1>1, <2>3, <2>4, InTurnSame DEF Leads
  <2>6. Good(Advance(k, Return), d, flash)
    BY <2>3, <2>4, <2>5, ReturnIs, AdvanceGood
  <2> QED
    BY <2>1, <2>6
<1> QED
  BY <1>2, <1>3

LEMMA QueueFrontsGood ==
  ASSUME NEW m, NEW d, Good(m, d, flash)
  PROVE  Good(RecheckQueueFronts(m), d, flash)
<1>1. m \in Memory /\ InTurn(m, d, flash)
  BY DEF Good, Sound
<1>2. m.queue # << >> => Good(Advance(m, Return), d, flash)
  BY <1>1, ReturnIs, AdvanceGood
<1>3. Good(AdvancePastStalledFront(m), d, flash)
  BY PastStalledGood
<1> QED
  BY <1>2, <1>3 DEF RecheckQueueFronts

\* Nor is the invariant about the rest of the memory.
LEMMA GoodSame ==
  ASSUME NEW m, NEW k \in Memory, NEW d, NEW fl, Good(m, d, fl),
         k.queue = m.queue, k.blocked = m.blocked, k.writes = m.writes, k.since = m.since,
         k.retrying = m.retrying, k.wrong = m.wrong
  PROVE  Good(k, d, fl)
<1>1. Agrees(k, d)
  BY AgreesSame DEF Good, Sound
<1>2. InTurn(k, d, fl)
  BY DEF Good, Sound, InTurn, Careful, Flying, Waiting
<1>3. HasTurn(k)
  BY DEF Good, HasTurn
<1> QED
  BY <1>1, <1>2, <1>3 DEF Good, Sound

(* RecheckStuckInstalls judges the front once and again: its function is what *)
(* IsJudged says of it, and such a function exists.                           *)
Judge(x, over) ==
  IF x.queue # << >> /\ Head(x.queue).entity \in over THEN AdvancePastStalledFront(x) ELSE x

IsJudged(j, first, over, n) ==
  j = [i \in 0..n |-> IF i = 0 THEN first ELSE Judge(j[i - 1], over)]

LEMMA JudgedExists ==
  ASSUME NEW first, NEW over, NEW n \in Nat
  PROVE  \E j : IsJudged(j, first, over, n)
<1> DEFINE Without == {k \in Nat : ~\E j : IsJudged(j, first, over, k)}
<1> SUFFICES ASSUME Without # {} PROVE FALSE
  OBVIOUS
<1>0. Without \in SUBSET Nat
  OBVIOUS
<1>1. PICK k \in Without : \A l \in Without : k <= l
  BY <1>0, Least
<1>2. k # 0
  <2>1. IsJudged([i \in 0..0 |-> first], first, over, 0)
    BY DEF IsJudged
  <2> QED
    BY <1>1, <2>1
<1>3. k - 1 \in Nat /\ k - 1 \notin Without
  BY <1>1, <1>2
<1>4. PICK f : IsJudged(f, first, over, k - 1)
  BY <1>3
<1> DEFINE g == [i \in 0..k |-> IF i = k THEN Judge(f[k - 1], over) ELSE f[i]]
<1>5. ASSUME NEW i \in 0..k
      PROVE  g[i] = IF i = 0 THEN first ELSE Judge(g[i - 1], over)
  <2>1. CASE i = k
    BY <1>2, <2>1
  <2>2. CASE i # k
    <3>1. i \in 0..(k - 1) /\ (i # 0 => i - 1 \in 0..(k - 1))
      BY <2>2
    <3>2. f[i] = IF i = 0 THEN first ELSE Judge(f[i - 1], over)
      BY <1>4, <3>1 DEF IsJudged
    <3> QED
      BY <2>2, <3>1, <3>2
  <2> QED
    BY <2>1, <2>2
<1>6. IsJudged(g, first, over, k)
  BY <1>5 DEF IsJudged
<1> QED
  BY <1>1, <1>6

LEMMA JudgedGood ==
  ASSUME NEW first, NEW over, NEW d, NEW n \in Nat, NEW j, IsJudged(j, first, over, n),
         Good(first, d, flash)
  PROVE  Good(j[n], d, flash)
<1> DEFINE Bad == {k \in Nat : k <= n /\ ~Good(j[k], d, flash)}
<1> SUFFICES ASSUME Bad # {} PROVE FALSE
  OBVIOUS
<1>0. Bad \in SUBSET Nat
  OBVIOUS
<1>1. PICK k \in Bad : \A l \in Bad : k <= l
  BY <1>0, Least
<1>2. k \in 0..n /\ j[k] = IF k = 0 THEN first ELSE Judge(j[k - 1], over)
  BY <1>1 DEF IsJudged
<1>3. k # 0
  BY <1>1, <1>2
<1>4. k - 1 \in Nat /\ k - 1 <= n /\ k - 1 \notin Bad
  BY <1>1, <1>2, <1>3
<1>5. Good(j[k - 1], d, flash)
  BY <1>4
<1>6. Good(AdvancePastStalledFront(j[k - 1]), d, flash)
  BY <1>5, PastStalledGood
<1>7. Good(j[k], d, flash)
  BY <1>2, <1>3, <1>5, <1>6 DEF Judge
<1> QED
  BY <1>1, <1>7

LEMMA StuckInstallsGood ==
  ASSUME NEW m, NEW d, NEW n \in Nat, Good(m, d, flash)
  PROVE  Good(RecheckStuckInstalls(m, n), d, flash)
<1> DEFINE over == Ended(m)
           first == [m EXCEPT !.started = m.started \ over]
           j == CHOOSE g : IsJudged(g, first, over, n)
           last == [j[n] EXCEPT !.started = j[n].started \cup {e \in Device : Running(e)}]
<1>1. IsJudged(j, first, over, n)
  BY JudgedExists
<1>2. RecheckStuckInstalls(m, n) = last
  BY DEF RecheckStuckInstalls, IsJudged, Judge
<1>3. m \in Memory
  BY DEF Good, Sound
<1> HIDE DEF over
<1>4. /\ first \in Memory /\ first.queue = m.queue /\ first.blocked = m.blocked
      /\ first.writes = m.writes /\ first.since = m.since
      /\ first.retrying = m.retrying /\ first.wrong = m.wrong
  BY <1>3 DEF Memory
<1> HIDE DEF first
<1>5. Good(first, d, flash)
  BY <1>4, GoodSame
<1> HIDE DEF j
<1>6. Good(j[n], d, flash)
  BY <1>1, <1>5, JudgedGood
<1>7. j[n] \in Memory
  BY <1>6 DEF Good, Sound
<1>8. /\ last \in Memory /\ last.queue = j[n].queue /\ last.blocked = j[n].blocked
      /\ last.writes = j[n].writes /\ last.since = j[n].since
      /\ last.retrying = j[n].retrying /\ last.wrong = j[n].wrong
  BY <1>7 DEF Memory
<1> HIDE DEF last
<1>9. Good(last, d, flash)
  BY <1>6, <1>8, GoodSame
<1> QED
  BY <1>2, <1>9

-----------------------------------------------------------------------------
(* The inductive invariant *)

Progress == {"none", "asked", "running", "dozing"}

Rest ==
  /\ disk \in Stored /\ flash \in [Entity -> Progress]
  /\ installed \in [Entity -> Nat] /\ latest \in [Entity -> Nat]
  /\ news \subseteq [entity : Device, version : Nat] /\ faults \in Nat

IInv == Rest /\ Good(rm, disk, flash)

LEMMA Names == Core \notin Device /\ Nobody \notin Device /\ Foremost \notin Device
BY RolloutAssumption DEF Nobody, Foremost

\* An install that is asked for is no danger where the device leads everywhere.
LEMMA TakenInTurn ==
  ASSUME NEW m, NEW d, NEW fl \in [Entity -> Progress], NEW e, InTurn(m, d, fl),
         Careful(m) => /\ Leads(m.queue, e) /\ Leads(d.queue, e)
                       /\ \A j \in 1..Len(m.writes) : Leads(m.writes[j].data.queue, e)
  PROVE  InTurn(m, d, Taken(fl, e)) /\ Taken(fl, e) \in [Entity -> Progress]
<1>1. Taken(fl, e) \in [Entity -> Progress]
  BY DEF Taken, Progress
<1>2. ASSUME NEW x \in Device, Taken(fl, e)[x] # "none", x # e PROVE fl[x] # "none"
  BY <1>2 DEF Taken, Entity
<1> QED
  BY <1>1, <1>2 DEF InTurn, Flying

LEMMA RetriedInTurn ==
  ASSUME NEW m, NEW k, NEW d, NEW can, NEW fl \in [Entity -> Progress], InTurn(m, d, fl)
  PROVE  InTurn(m, d, Retried(k, can, fl)) /\ Retried(k, can, fl) \in [Entity -> Progress]
<1>1. Retried(k, can, fl) \in [Entity -> Progress]
  BY DEF Retried, Progress
<1>2. ASSUME NEW x \in Device PROVE Retried(k, can, fl)[x] = fl[x]
  BY Names DEF Retried, Entity
<1> QED
  BY <1>1, <1>2, FewerFly

\* The same of a memory that is good.
LEMMA RetriedGood ==
  ASSUME NEW m, NEW k, NEW d, NEW can, NEW fl \in [Entity -> Progress], Good(m, d, fl)
  PROVE  Good(m, d, Retried(k, can, fl)) /\ Retried(k, can, fl) \in [Entity -> Progress]
BY RetriedInTurn DEF Good, Sound

LEMMA FewerFlyGood ==
  ASSUME NEW m, NEW d, NEW fl, NEW gl, Good(m, d, fl),
         \A e \in Device : gl[e] # "none" => fl[e] # "none"
  PROVE  Good(m, d, gl)
BY FewerFly DEF Good, Sound

LEMMA SaveGood ==
  ASSUME NEW m \in Memory, NEW d, NEW fl, InTurn(m, d, fl), HasTurn(m)
  PROVE  Good(Save(m, Return), d, fl)
BY ReturnIs, SaveSound, SaveHasTurn DEF Good

LEMMA RetryGood ==
  ASSUME NEW m, NEW d, NEW fl, NEW can \in BOOLEAN, Good(m, d, fl)
  PROVE  Good(Retry(m, can), d, fl)
BY RetryKeeps DEF Good

\* Where an entry is: its first place, or none.
LEMMA Places ==
  ASSUME rm.queue \in Seq(Entry), NEW e
  PROVE  /\ Position(e) \in 0..Len(rm.queue)
         /\ Position(e) > 0 => rm.queue[Position(e)].entity = e
         /\ Position(e) = 1 <=> Leads(rm.queue, e)
<1> DEFINE I == {i \in 1..Len(rm.queue) : rm.queue[i].entity = e}
<1>1. Position(e) = IF I = {} THEN 0 ELSE CHOOSE i \in I : \A j \in I : i <= j
  BY DEF Position, SelectInSeq, Min
<1>2. I \in SUBSET Nat
  OBVIOUS
<1>3. Leads(rm.queue, e) <=> 1 \in I
  BY DEF Leads, AtFront
<1>4. CASE I = {}
  BY <1>1, <1>3, <1>4
<1>5. CASE I # {}
  <2>1. Position(e) \in I /\ \A j \in I : Position(e) <= j
    BY <1>1, <1>2, <1>5, Least
  <2>2. /\ Position(e) \in 1..Len(rm.queue) /\ rm.queue[Position(e)].entity = e
        /\ Position(e) \in Nat /\ Position(e) >= 1
    BY <2>1
  <2>3. 1 \in I => Position(e) <= 1
    BY <2>1
  <2>4. 1 \in I => Position(e) = 1
    BY <2>2, <2>3
  <2>5. Position(e) = 1 => 1 \in I
    BY <2>1
  <2> QED
    BY <1>3, <2>2, <2>4, <2>5
<1> QED
  BY <1>4, <1>5

LEMMA Init_IInv == Init => IInv
<1> SUFFICES ASSUME Init PROVE IInv
  OBVIOUS
<1>1. rm \in Memory
  <2>1. << >> \in Seq(Entry) /\ << >> \in Seq(Saving)
    OBVIOUS
  <2> QED
    BY <2>1 DEF Init, Empty, Memory
<1>2. rm.queue = << >> /\ rm.writes = << >> /\ rm.blocked = FALSE
  BY DEF Init, Empty
<1>3. Agrees(rm, disk)
  BY <1>2 DEF Init, Agrees, Same
<1>4. InTurn(rm, disk, flash)
  BY <1>2 DEF Init, InTurn, Flying, Waiting, Entity
<1>5. HasTurn(rm)
  BY <1>2 DEF HasTurn
<1>6. disk \in Stored
  <2>1. << >> \in Seq(Entry)
    OBVIOUS
  <2> QED
    BY <2>1 DEF Init, Stored
<1>7. Rest
  BY <1>6 DEF Init, Rest, Progress
<1> QED
  BY <1>1, <1>3, <1>4, <1>5, <1>7 DEF IInv, Good, Sound

-----------------------------------------------------------------------------
(* What is asked of the manager keeps the invariant *)

LEMMA RequestKeeps ==
  ASSUME IInv, NEW e \in Device, Request(e)
  PROVE  IInv'
<1> DEFINE entry == [entity |-> e, to |-> latest[e]]
           i == Position(e)
           moved == [rm EXCEPT !.queue[i] = entry]
           ask == [Return EXCEPT !.ask = <<entry>>]
           unsaved == [rm EXCEPT !.wrong = rm.wrong \cup {"unsaved"}]
<1>1. /\ Rest /\ rm \in Memory /\ rm.queue \in Seq(Entry) /\ Good(rm, disk, flash)
      /\ InTurn(rm, disk, flash) /\ HasTurn(rm) /\ Agrees(rm, disk)
  BY DEF IInv, Good, Sound, Memory
<1>2. entry \in Entry
  BY <1>1 DEF Entry, Rest, Entity
<1>3. /\ i \in 0..Len(rm.queue)
      /\ i > 0 => rm.queue[i].entity = e
      /\ i = 1 <=> Leads(rm.queue, e)
  BY <1>1, Places
<1>4. ASSUME Good(rm', disk, flash), flash' = flash PROVE IInv'
  BY <1>1, <1>4 DEF Request, IInv, Rest
<1>5. CASE i = 1
  <2>1. rm' = rm \/ rm' = unsaved
    BY <1>5 DEF Request
  <2>2. /\ unsaved \in Memory /\ unsaved.queue = rm.queue /\ unsaved.blocked = rm.blocked
        /\ unsaved.writes = rm.writes /\ unsaved.since = rm.since
        /\ unsaved.retrying = rm.retrying /\ rm.wrong \subseteq unsaved.wrong
        /\ "unsaved" \in unsaved.wrong
        /\ unsaved.wrong = rm.wrong \cup {"unsaved"}
    BY <1>1 DEF Memory
  <2>3. CASE rm.queue[1].to # entry.to
    <3>1. flash' = flash /\ rm' = rm
      BY <1>5, <2>3 DEF Request
    <3> QED
      BY <1>1, <1>4, <3>1
  <2>4. CASE rm.queue[1].to = entry.to /\ rm.writes # << >>
    <3>1. flash' = Taken(flash, e) /\ rm' = unsaved
      BY <1>5, <2>4 DEF Request
    <3> HIDE DEF unsaved
    <3>2. InTurn(unsaved, disk, Taken(flash, e))
      BY <2>2 DEF InTurn, Careful
    <3>3. Agrees(unsaved, disk)
      BY <1>1, <2>2, AgreesSame
    <3>4. HasTurn(unsaved)
      BY <1>1, <2>2 DEF HasTurn
    <3>5. Taken(flash, e) \in [Entity -> Progress]
      BY <1>1 DEF Taken, Rest, Progress
    <3> QED
      BY <1>1, <2>2, <3>1, <3>2, <3>3, <3>4, <3>5
         DEF Request, IInv, Rest, Good, Sound
  <2>5. CASE rm.queue[1].to = entry.to /\ rm.writes = << >>
    <3>1. flash' = Taken(flash, e) /\ rm' = rm
      BY <1>5, <2>5 DEF Request
    <3>2. Leads(rm.queue, e) /\ Leads(disk.queue, e)
      BY <1>1, <1>3, <1>5, <2>5 DEF Agrees, Same
    <3>3. flash \in [Entity -> Progress] /\ Len(rm.writes) = 0
      BY <1>1, <2>5 DEF Rest
    <3>4. \A j \in 1..Len(rm.writes) : Leads(rm.writes[j].data.queue, e)
      BY <3>3
    <3>5. InTurn(rm, disk, Taken(flash, e)) /\ Taken(flash, e) \in [Entity -> Progress]
      BY <1>1, <3>2, <3>3, <3>4, TakenInTurn
    <3> QED
      BY <1>1, <3>1, <3>5 DEF Request, IInv, Rest, Good, Sound
  <2> QED
    BY <2>3, <2>4, <2>5
<1>6. CASE i > 1
  <2>1. /\ flash' = flash
        /\ rm.queue[i].to = entry.to => rm' = rm
        /\ rm.queue[i].to # entry.to => rm' = Save(moved, Return)
    BY <1>3, <1>6 DEF Request
  <2>2. /\ [rm.queue EXCEPT ![i] = entry] \in Seq(Entry)
        /\ [rm.queue EXCEPT ![i] = entry] # << >>
        /\ Head([rm.queue EXCEPT ![i] = entry]) = Head(rm.queue)
    BY <1>1, <1>2, <1>3, <1>6
  <2>3. /\ moved \in Memory /\ moved.queue = [rm.queue EXCEPT ![i] = entry]
        /\ moved.writes = rm.writes /\ moved.wrong = rm.wrong /\ moved.since = rm.since
    BY <1>1, <2>2 DEF Memory
  <2> HIDE DEF moved
  <2>4. moved.queue # << >> /\ AtFront(moved.queue) = AtFront(rm.queue)
    BY <2>2, <2>3 DEF AtFront
  <2>5. InTurn(moved, disk, flash)
    BY <1>1, <2>3, <2>4, InTurnSame DEF Leads
  <2>6. HasTurn(moved)
    <3>1. rm.queue # << >>
      BY <1>1, <1>3, <1>6
    <3> QED
      BY <1>1, <2>3, <2>4, <3>1 DEF HasTurn
  <2>7. Good(Save(moved, Return), disk, flash)
    BY <2>3, <2>5, <2>6, SaveGood
  <2> QED
    BY <1>1, <1>4, <2>1, <2>7
<1>7. CASE i = 0
  <2>1. /\ flash' = flash
        /\ Arrived(rm) => rm' = Advance(rm, ask)
        /\ ~Arrived(rm) => rm' = Enqueue(rm, entry)
    BY <1>7 DEF Request
  <2>2. ask \in Resume /\ ask.who = Nobody /\ ask.caller = FALSE
    <3>1. <<entry>> \in Seq(Entry)
      BY <1>2
    <3> HIDE DEF entry
    <3> QED
      BY <3>1, ReturnIs DEF Return, Resume
  <2> HIDE DEF ask
  <2>3. CASE Arrived(rm)
    BY <1>1, <1>4, <2>1, <2>2, <2>3, AdvanceGood DEF Arrived
  <2>4. CASE ~Arrived(rm)
    BY <1>1, <1>2, <1>4, <2>1, <2>4, EnqueueGood
  <2> QED
    BY <2>3, <2>4
<1> QED
  BY <1>3, <1>5, <1>6, <1>7

\* Core is held back, or is let go.
LEMMA BlockedKeeps ==
  ASSUME IInv, NEW b \in BOOLEAN
  PROVE  LET k == [rm EXCEPT !.blocked = b] IN
         Good(Save(k, Return), disk, flash)
<1> DEFINE k == [rm EXCEPT !.blocked = b]
<1>1. rm \in Memory /\ InTurn(rm, disk, flash) /\ HasTurn(rm)
  BY DEF IInv, Good, Sound
<1>2. /\ k \in Memory /\ k.queue = rm.queue /\ k.writes = rm.writes
      /\ k.wrong = rm.wrong /\ k.since = rm.since
  BY <1>1 DEF Memory
<1> HIDE DEF k
<1>3. InTurn(k, disk, flash)
  BY <1>1, <1>2, InTurnSame DEF Leads
<1>4. HasTurn(k)
  BY <1>1, <1>2 DEF HasTurn
<1>5. Good(Save(k, Return), disk, flash)
  BY <1>2, <1>3, <1>4, SaveGood
<1> QED
  BY <1>5 DEF k

LEMMA CoreKeeps ==
  ASSUME IInv, RequestCore \/ CancelCore
  PROVE  IInv'
<1>1. Rest /\ Good(rm, disk, flash)
  BY DEF IInv
<1>2. CASE rm' = rm
  <2>1. flash' = [flash EXCEPT ![Core] = "running"] \/ flash' = flash
    <3>1. [flash EXCEPT ![Core] = flash[Core]] = flash
      BY <1>1 DEF Rest
    <3> QED
      BY <1>2, <3>1 DEF RequestCore, CancelCore
  <2>2. \A e \in Device : flash'[e] = flash[e]
    BY <1>1, <2>1, Names DEF Rest, Entity
  <2>3. Good(rm', disk, flash')
    BY <1>1, <1>2, <2>2, FewerFlyGood
  <2>4. flash' \in [Entity -> Progress]
    BY <1>1, <2>1 DEF Rest, Progress
  <2> QED
    BY <1>1, <2>3, <2>4 DEF RequestCore, CancelCore, IInv, Rest
<1>3. CASE rm' # rm
  <2>1. flash' = flash /\ \E b \in BOOLEAN : rm' = Save([rm EXCEPT !.blocked = b], Return)
    BY <1>3 DEF RequestCore, CancelCore
  <2>2. Good(rm', disk, flash)
    BY <2>1, BlockedKeeps
  <2> QED
    BY <1>1, <2>1, <2>2 DEF RequestCore, CancelCore, IInv, Rest
<1> QED
  BY <1>2, <1>3

LEMMA CancelKeeps ==
  ASSUME IInv, NEW e \in Device, Cancel(e)
  PROVE  IInv'
<1> DEFINE i == Position(e)
           left == RemoveAt(rm.queue, i)
           k == [rm EXCEPT !.queue = left]
<1>1. /\ Rest /\ rm \in Memory /\ rm.queue \in Seq(Entry)
      /\ InTurn(rm, disk, flash) /\ HasTurn(rm)
  BY DEF IInv, Good, Sound, Memory
<1>2. i \in 0..Len(rm.queue) /\ i > 1
  BY <1>1, Places DEF Cancel
<1>3. left \in Seq(Entry) /\ left # << >> /\ Head(left) = Head(rm.queue) /\ rm.queue # << >>
  <2> HIDE DEF i
  <2> DEFINE before == SubSeq(rm.queue, 1, i - 1)
             after == SubSeq(rm.queue, i + 1, Len(rm.queue))
  <2>1. before \in Seq(Entry) /\ Len(before) = i - 1 /\ before[1] = rm.queue[1]
    BY <1>1, <1>2
  <2>2. after \in Seq(Entry)
    BY <1>1, <1>2
  <2>3. rm.queue # << >>
    BY <1>1, <1>2
  <2>4. left = before \o after
    BY DEF RemoveAt
  <2> HIDE DEF before
  <2> HIDE DEF after
  <2>5. Len(before) > 0
    BY <1>2, <2>1
  <2>6. /\ before \o after \in Seq(Entry) /\ before \o after # << >>
        /\ Head(before \o after) = before[1]
    BY <2>1, <2>2, <2>5
  <2> QED
    BY <1>1, <2>1, <2>3, <2>4, <2>6
<1>4. rm' = Save(k, Return)
  BY DEF Cancel
<1> HIDE DEF left
<1>5. /\ k \in Memory /\ k.queue = left /\ k.writes = rm.writes
      /\ k.wrong = rm.wrong /\ k.since = rm.since
  BY <1>1, <1>3 DEF Memory
<1> HIDE DEF k
<1>6. k.queue # << >> /\ AtFront(k.queue) = AtFront(rm.queue)
  BY <1>3, <1>5 DEF AtFront
<1>7. InTurn(k, disk, flash)
  BY <1>1, <1>5, <1>6, InTurnSame DEF Leads
<1>8. HasTurn(k)
  BY <1>1, <1>3, <1>5, <1>6 DEF HasTurn
<1>9. Good(rm', disk, flash)
  BY <1>4, <1>5, <1>7, <1>8, SaveGood
<1> QED
  BY <1>1, <1>9 DEF Cancel, IInv, Rest

\* The list is replaced: the coroutines that were to dispatch its front still do.
LEMMA PauseKeeps ==
  ASSUME IInv, Pause
  PROVE  IInv'
<1> DEFINE front == AtFront(rm.queue)
           writes == Detached(rm.writes, front)
           k == [rm EXCEPT !.blocked = FALSE, !.queue = <<Head(rm.queue)>>, !.writes = writes]
           n == Len(rm.writes)
<1>1. /\ Rest /\ rm \in Memory /\ rm.queue \in Seq(Entry) /\ rm.writes \in Seq(Saving)
      /\ InTurn(rm, disk, flash) /\ HasTurn(rm)
  BY DEF IInv, Good, Sound, Memory
<1>2. CASE Len(rm.queue) <= 1
  <2>1. rm' = Save([rm EXCEPT !.blocked = FALSE], Return)
    BY <1>2 DEF Pause
  <2>2. Good(rm', disk, flash)
    BY <2>1, BlockedKeeps
  <2> QED
    BY <1>1, <2>2 DEF Pause, IInv, Rest
<1>3. CASE ~(Len(rm.queue) <= 1)
  <2>1. rm' = Save(k, Return)
    BY <1>3 DEF Pause, AtFront
  <2>2. rm.queue # << >>
    BY <1>3
  <2>3. Head(rm.queue) \in Entry
    BY <1>1, <2>2
  <2>4. front \in Device /\ front # Nobody /\ front # Foremost
    BY <2>3, Names DEF AtFront, Entry
  <2>5. /\ writes \in Seq(Saving) /\ Len(writes) = n
        /\ \A i \in 1..n :
             /\ writes[i].data = rm.writes[i].data
             /\ rm.writes[i].resume.who # Foremost => writes[i] = rm.writes[i]
             /\ rm.writes[i].resume.who = Foremost => writes[i].resume.who = front
             /\ writes[i].resume.caller = rm.writes[i].resume.caller
    BY <1>1, <2>4, DetachedTypes
  <2>6. n \in Nat
    BY <1>1
  <2>7. <<Head(rm.queue)>> \in Seq(Entry) /\ AtFront(<<Head(rm.queue)>>) = front
    BY <2>3 DEF AtFront
  <2> HIDE DEF writes
  <2>8. /\ k \in Memory /\ k.queue = <<Head(rm.queue)>> /\ k.writes = writes
        /\ k.wrong = rm.wrong /\ k.since = rm.since
    BY <1>1, <2>5, <2>7 DEF Memory
  <2> HIDE DEF k
  <2>9. Leads(k.queue, front) /\ AtFront(k.queue) = front
    BY <2>7, <2>8 DEF Leads
  <2> HIDE DEF n
  <2>10. InTurn(k, disk, flash)
    <3> SUFFICES ASSUME Careful(k) PROVE Flying(k, disk, flash) /\ Waiting(k)
      BY DEF InTurn
    <3>1. Flying(rm, disk, flash) /\ Waiting(rm)
      BY <1>1, <2>8 DEF InTurn, Careful
    <3>2. Flying(k, disk, flash)
      <4> SUFFICES ASSUME NEW e \in Device, flash[e] # "none"
                   PROVE  /\ Leads(k.queue, e) /\ Leads(disk.queue, e)
                          /\ \A j \in 1..n : Leads(writes[j].data.queue, e)
        BY <2>5, <2>8 DEF Flying
      <4>1. /\ Leads(rm.queue, e) /\ Leads(disk.queue, e)
            /\ \A j \in 1..n : Leads(rm.writes[j].data.queue, e)
        BY <3>1 DEF Flying, n
      <4>2. e = front
        BY <4>1 DEF Leads
      <4> QED
        BY <2>5, <2>9, <4>1, <4>2
    <3>3. ASSUME NEW i \in 1..n, writes[i].resume.who # Nobody
          PROVE  /\ writes[i].resume.who \in {Foremost, front}
                 /\ \A j \in i..n : Leads(writes[j].data.queue, front)
      <4>1. rm.writes[i].resume.who # Nobody
        BY <2>5, <3>3, Names DEF Nobody, Foremost
      <4>2. /\ rm.writes[i].resume.who \in {Foremost, front}
            /\ \A j \in i..n : Leads(rm.writes[j].data.queue, front)
        BY <3>1, <4>1 DEF Waiting, n
      <4>3. \A j \in i..n : j \in 1..n
        BY <2>6
      <4> QED
        BY <2>5, <4>2, <4>3
    <3>4. Waiting(k)
      BY <2>5, <2>8, <2>9, <3>3 DEF Waiting, Leads
    <3> QED
      BY <3>2, <3>4
  <2>11. HasTurn(k)
    <3> SUFFICES ASSUME "late" \notin rm.wrong, rm.since[front] = "none"
                 PROVE  \E i \in 1..n : /\ writes[i].resume.who \in {Foremost, front}
                                        /\ ~writes[i].resume.caller
      BY <2>5, <2>8, <2>9 DEF HasTurn
    <3>1. PICK i \in 1..n : /\ rm.writes[i].resume.who \in {Foremost, front}
                            /\ ~rm.writes[i].resume.caller
      BY <1>1, <2>2 DEF HasTurn, n
    <3> QED
      BY <2>5, <3>1
  <2>12. Good(rm', disk, flash)
    BY <2>1, <2>8, <2>10, <2>11, SaveGood
  <2> QED
    BY <1>1, <2>12 DEF Pause, IInv, Rest
<1> QED
  BY <1>2, <1>3

LEMMA StopWaitingKeeps ==
  ASSUME IInv, NEW e \in Device, StopWaiting(e)
  PROVE  IInv'
<1> DEFINE m == [rm EXCEPT !.forced = rm.forced \cup {e}]
           can == Installs(Core)
<1>1. Rest /\ rm \in Memory /\ Good(rm, disk, flash)
  BY DEF IInv, Good, Sound
<1>2. /\ m \in Memory /\ m.queue = rm.queue /\ m.blocked = rm.blocked
      /\ m.writes = rm.writes /\ m.since = rm.since
      /\ m.retrying = rm.retrying /\ m.wrong = rm.wrong
  BY <1>1 DEF Memory
<1>3. rm' = Retry(m, can) /\ flash' = Retried(m, can, flash)
  BY DEF StopWaiting
<1>4. can \in BOOLEAN
  BY DEF Installs, Pending
<1> HIDE DEF m
<1> HIDE DEF can
<1>5. Good(m, disk, flash)
  BY <1>1, <1>2, GoodSame
<1>6. Good(rm', disk, flash)
  BY <1>3, <1>4, <1>5, RetryGood
<1>7. Good(rm', disk, flash') /\ flash' \in [Entity -> Progress]
  BY <1>1, <1>3, <1>6, RetriedGood DEF Rest
<1> QED
  BY <1>1, <1>7 DEF StopWaiting, IInv, Rest

-----------------------------------------------------------------------------
(* What happens to the manager keeps the invariant *)

LEMMA CompletedKeeps ==
  ASSUME IInv, NEW n, Completed(n)
  PROVE  IInv'
<1> DEFINE e == n.entity
           front == Position(e) = 1
           due == front /\ Head(rm.queue).to = n.version
           since == [rm.since EXCEPT ![e] = "none"]
           started == rm.started \ {e}
           forced == rm.forced \ {e}
           wrong == IF front /\ ~due THEN rm.wrong \cup {"late"} ELSE rm.wrong
           m == [rm EXCEPT !.since = since, !.started = started, !.forced = forced,
                           !.wrong = wrong]
           can == Installs(Core)
           r == Retry(m, can)
<1>1. /\ Rest /\ rm \in Memory /\ rm.queue \in Seq(Entry) /\ Good(rm, disk, flash)
      /\ InTurn(rm, disk, flash) /\ HasTurn(rm) /\ Agrees(rm, disk)
      /\ rm.since \in [Device -> {"none", "fresh", "old"}]
  BY DEF IInv, Good, Sound, Memory
<1>2. e \in Device
  BY <1>1 DEF Rest, Completed
<1>3. front <=> Leads(rm.queue, e)
  BY <1>1, Places
<1>4. /\ rm' = IF due THEN Advance(r, Return) ELSE r
      /\ flash' = Retried(m, can, flash)
  BY DEF Completed, Landed
<1>5. can \in BOOLEAN
  BY DEF Installs, Pending
<1>6. /\ since \in [Device -> {"none", "fresh", "old"}]
      /\ \A x \in Device : x # e => since[x] = rm.since[x]
      /\ started \in SUBSET Device /\ forced \in SUBSET Device
      /\ wrong \in SUBSET {"early", "never", "unsaved", "late"}
      /\ rm.wrong \subseteq wrong /\ (front /\ ~due => "late" \in wrong)
  BY <1>1 DEF Memory
<1>7. due => front
  OBVIOUS
<1> HIDE DEF due
<1> HIDE DEF front
<1> HIDE DEF can
<1> HIDE DEF e
<1> HIDE DEF since
<1> HIDE DEF started
<1> HIDE DEF forced
<1> HIDE DEF wrong
<1>8. /\ m \in Memory /\ m.queue = rm.queue /\ m.blocked = rm.blocked
      /\ m.writes = rm.writes /\ m.since = since
      /\ m.retrying = rm.retrying /\ m.wrong = wrong
  BY <1>1, <1>6 DEF Memory
<1> HIDE DEF m
<1>9. Sound(m, disk, flash)
  <2>1. Agrees(m, disk)
    BY <1>1, <1>8, AgreesSame
  <2>2. InTurn(m, disk, flash)
    BY <1>1, <1>6, <1>8, InTurnSame DEF Leads
  <2> QED
    BY <1>8, <2>1, <2>2 DEF Sound
<1>10. /\ Sound(r, disk, flash) /\ (HasTurn(m) => HasTurn(r)) /\ r.queue = rm.queue
  BY <1>5, <1>8, <1>9, RetryKeeps
<1> HIDE DEF r
<1>11. Good(rm', disk, flash)
  <2>1. CASE due
    <3>1. r.queue # << >> /\ r \in Memory /\ InTurn(r, disk, flash)
      BY <1>3, <1>7, <1>10, <2>1 DEF Leads, Sound
    <3> QED
      BY <1>4, <2>1, <3>1, ReturnIs, AdvanceGood
  <2>2. CASE ~due
    <3>1. HasTurn(m)
      <4> SUFFICES ASSUME rm.queue # << >>, "late" \notin wrong
                   PROVE  \/ since[AtFront(rm.queue)] # "none"
                          \/ \E i \in 1..Len(rm.writes) :
                               /\ rm.writes[i].resume.who \in {Foremost, AtFront(rm.queue)}
                               /\ ~rm.writes[i].resume.caller
        BY <1>8 DEF HasTurn
      <4>1. ~front
        BY <1>6, <2>2
      <4>2. AtFront(rm.queue) # e
        BY <1>3, <4>1 DEF Leads
      <4>3. AtFront(rm.queue) \in Device
        <5>1. Head(rm.queue) \in Entry
          BY <1>1
        <5> QED
          BY <5>1 DEF AtFront, Entry
      <4>4. since[AtFront(rm.queue)] = rm.since[AtFront(rm.queue)]
        BY <1>6, <4>2, <4>3
      <4> QED
        BY <1>1, <1>6, <4>4 DEF HasTurn
    <3> QED
      BY <1>4, <1>10, <2>2, <3>1 DEF Good
  <2> QED
    BY <2>1, <2>2
<1>12. Good(rm', disk, flash') /\ flash' \in [Entity -> Progress]
  BY <1>1, <1>4, <1>11, RetriedGood DEF Rest
<1> QED
  BY <1>1, <1>12 DEF Completed, IInv, Rest

LEMMA TickKeeps ==
  ASSUME IInv, Tick
  PROVE  IInv'
<1> DEFINE can == Installs(Core)
<1>1. Rest /\ rm \in Memory /\ Good(rm, disk, flash)
  BY DEF IInv, Good, Sound
<1>2. Cardinality(Ended(rm)) \in Nat
  <2>1. Ended(rm) \in SUBSET Device
    BY <1>1 DEF Ended, Memory
  <2>2. IsFiniteSet(Ended(rm))
    BY <2>1, RolloutAssumption, FS_Subset
  <2> QED
    BY <2>2, FS_CardinalityType
<1>3. PICK n \in 1..1 + Cardinality(Ended(rm)) : \E m \in {RecheckStuckInstalls(rm, n)} :
        /\ flash' = Retried(m, can, flash)
        /\ rm' = RecheckQueueFronts(Retry(m, can))
  BY DEF Tick
<1> DEFINE m == RecheckStuckInstalls(rm, n)
<1>4. /\ n \in Nat
      /\ flash' = Retried(m, can, flash) /\ rm' = RecheckQueueFronts(Retry(m, can))
  BY <1>2, <1>3
<1> HIDE DEF m
<1>5. Good(m, disk, flash)
  BY <1>1, <1>4, StuckInstallsGood DEF m
<1>6. can \in BOOLEAN
  BY DEF Installs, Pending
<1> HIDE DEF can
<1>7. Good(Retry(m, can), disk, flash)
  BY <1>5, <1>6, RetryGood
<1>8. Good(rm', disk, flash)
  BY <1>4, <1>7, QueueFrontsGood
<1>9. Good(rm', disk, flash') /\ flash' \in [Entity -> Progress]
  BY <1>1, <1>4, <1>8, RetriedGood DEF Rest
<1> QED
  BY <1>1, <1>9 DEF Tick, IInv, Rest

LEMMA AgesKeeps ==
  ASSUME IInv, NEW e \in Device, Ages(e)
  PROVE  IInv'
<1> DEFINE since == [rm.since EXCEPT ![e] = "old"]
           k == [rm EXCEPT !.since = since]
<1>1. /\ Rest /\ rm \in Memory /\ Good(rm, disk, flash)
      /\ InTurn(rm, disk, flash) /\ HasTurn(rm) /\ Agrees(rm, disk)
      /\ rm.since \in [Device -> {"none", "fresh", "old"}]
  BY DEF IInv, Good, Sound, Memory
<1>2. rm' = k /\ flash' = flash
  BY DEF Ages
<1>3. /\ since \in [Device -> {"none", "fresh", "old"}]
      /\ \A x : rm.since[x] # "none" /\ x \in Device => since[x] # "none"
  BY <1>1
<1> HIDE DEF since
<1>4. /\ k \in Memory /\ k.queue = rm.queue /\ k.blocked = rm.blocked
      /\ k.writes = rm.writes /\ k.since = since
      /\ k.retrying = rm.retrying /\ k.wrong = rm.wrong
  BY <1>1, <1>3 DEF Memory
<1> HIDE DEF k
<1>5. Agrees(k, disk) /\ InTurn(k, disk, flash)
  BY <1>1, <1>4, AgreesSame, InTurnSame DEF Leads
<1>6. rm.queue # << >> => AtFront(rm.queue) \in Device
  <2>1. rm.queue # << >> => Head(rm.queue) \in Entry
    BY <1>1 DEF Memory
  <2> QED
    BY <2>1 DEF AtFront, Entry
<1>7. HasTurn(k)
  BY <1>1, <1>3, <1>4, <1>6 DEF HasTurn
<1> QED
  BY <1>1, <1>2, <1>4, <1>5, <1>7 DEF Ages, IInv, Rest, Good, Sound

\* An update goes on, or ends, and nothing is under way that was not.
LEMMA UpdateKeeps ==
  ASSUME IInv, NEW e \in Device,
         Starts(e) \/ Finishes(e) \/ Fails(e) \/ Dozes(e) \/ Wakes(e) \/ Released(e)
  PROVE  IInv'
<1>1. Rest /\ rm \in Memory /\ Good(rm, disk, flash) /\ e \in Entity
  BY DEF IInv, Good, Sound, Entity
<1>2. PICK s \in Progress : /\ flash' = [flash EXCEPT ![e] = s] \/ flash' = flash
                            /\ s # "none" => flash[e] # "none"
  <2>1. CASE Starts(e)
    BY <2>1 DEF Starts, Progress
  <2>2. CASE Finishes(e)
    BY <2>2 DEF Finishes, Progress
  <2>3. CASE Fails(e)
    BY <2>3 DEF Fails, Progress
  <2>4. CASE Dozes(e)
    BY <2>4 DEF Dozes, Running, Progress
  <2>5. CASE Wakes(e)
    BY <2>5 DEF Wakes, Progress
  <2>6. CASE Released(e)
    BY <2>6 DEF Released, Progress
  <2> QED
    BY <2>1, <2>2, <2>3, <2>4, <2>5, <2>6
<1>3. \A x \in Device : flash'[x] # "none" => flash[x] # "none"
  BY <1>1, <1>2 DEF Rest, Entity
<1>4. Good(rm, disk, flash')
  BY <1>1, <1>3, FewerFlyGood
<1>5. rm' = rm /\ disk' = disk
  BY DEF Starts, Finishes, Fails, Dozes, Wakes, Released
<1>6. flash' \in [Entity -> Progress]
  BY <1>1, <1>2 DEF Rest
<1>7. latest[e] \in Nat
  BY <1>1 DEF Rest
<1>8. faults' \in Nat
  BY <1>1 DEF Starts, Finishes, Fails, Dozes, Wakes, Released, Rest, Fault
<1>9. installed' \in [Entity -> Nat]
  BY <1>1, <1>7 DEF Starts, Finishes, Fails, Dozes, Wakes, Released, Rest
<1>10. latest' \in [Entity -> Nat]
  BY <1>1, <1>7 DEF Starts, Finishes, Fails, Dozes, Wakes, Released, Rest
<1>11. news' \subseteq [entity : Device, version : Nat]
  <2>1. [entity |-> e, version |-> latest[e]] \in [entity : Device, version : Nat]
    BY <1>7
  <2>2. news' = news \/ news' = news \cup {[entity |-> e, version |-> latest[e]]}
    BY DEF Starts, Finishes, Fails, Dozes, Wakes, Released
  <2> QED
    BY <1>1, <2>1, <2>2 DEF Rest
<1>12. disk' \in Stored
  BY <1>1, <1>5 DEF Rest
<1>13. Rest'
  BY <1>6, <1>8, <1>9, <1>10, <1>11, <1>12 DEF Rest
<1> QED
  BY <1>4, <1>5, <1>13 DEF IInv

LEMMA CoreFailsKeeps ==
  ASSUME IInv, CoreFails
  PROVE  IInv'
<1> DEFINE k == [rm EXCEPT !.retrying = FALSE]
<1>1. /\ Rest /\ rm \in Memory /\ InTurn(rm, disk, flash) /\ HasTurn(rm) /\ Good(rm, disk, flash)
  BY DEF IInv, Good, Sound
<1>2. /\ k \in Memory /\ k.queue = rm.queue /\ k.writes = rm.writes
      /\ k.wrong = rm.wrong /\ k.since = rm.since
  BY <1>1 DEF Memory
<1>3. rm' = Save(k, Return) \/ rm' = rm
  BY DEF CoreFails
<1> HIDE DEF k
<1>4. InTurn(k, disk, flash)
  BY <1>1, <1>2, InTurnSame DEF Leads
<1>5. HasTurn(k)
  BY <1>1, <1>2 DEF HasTurn
<1>6. Good(rm', disk, flash)
  BY <1>1, <1>2, <1>3, <1>4, <1>5, SaveGood
<1>7. flash' = [flash EXCEPT ![Core] = "none"]
  BY DEF CoreFails
<1>8. \A x \in Device : flash'[x] = flash[x]
  BY <1>1, <1>7, Names DEF Rest, Entity
<1>9. Good(rm', disk, flash') /\ flash' \in [Entity -> Progress]
  BY <1>1, <1>6, <1>7, <1>8, FewerFlyGood DEF Rest, Progress
<1> QED
  BY <1>1, <1>9 DEF CoreFails, Fault, IInv, Rest

\* What the manager comes back with is the file, and what is under way leads it.
LEMMA RestartKeeps ==
  ASSUME IInv, Restart
  PROVE  /\ Good(rm', disk', flash') /\ flash' \in [Entity -> Progress]
         /\ disk' = disk /\ latest' = latest
         /\ news' \subseteq [entity : Device, version : Nat]
<1> DEFINE m == [Empty EXCEPT !.queue = disk.queue, !.blocked = disk.blocked, !.wrong = rm.wrong]
           front == Head(m.queue).entity
           since == [m.since EXCEPT ![front] = "fresh"]
           d == [m EXCEPT !.since = since]
           fl == [flash EXCEPT ![Core] = "none"]
           can == installed'[Core] # latest[Core]
           again == [Return EXCEPT !.retry = TRUE]
<1>1. /\ Rest /\ rm \in Memory /\ InTurn(rm, disk, flash)
      /\ disk.queue \in Seq(Entry) /\ disk.blocked \in BOOLEAN
  BY DEF IInv, Good, Sound, Rest, Stored
<1>2. /\ \/ /\ m.queue = << >>
            /\ rm' = Retry(m, can) /\ flash' = Retried(m, can, fl)
         \/ /\ Arrived(m)
            /\ rm' = Advance(m, again) /\ flash' = fl
         \/ /\ m.queue # << >>
            /\ rm' = Retry(d, can)
            /\ flash' = Retried(d, can, Taken(fl, front))
      /\ news' \in {{}, news}
      /\ disk' = disk /\ latest' = latest
  BY DEF Restart
<1>3. /\ m \in Memory /\ m.queue = disk.queue /\ m.blocked = disk.blocked
      /\ m.writes = << >> /\ m.wrong = rm.wrong
      /\ m.since \in [Device -> {"none", "fresh", "old"}]
  <2>1. << >> \in Seq(Saving)
    OBVIOUS
  <2>2. rm.wrong \in SUBSET {"early", "never", "unsaved", "late"}
    BY <1>1 DEF Memory
  <2>3. Empty \in Memory /\ Empty.writes = << >>
    <3>1. << >> \in Seq(Entry)
      OBVIOUS
    <3> QED
      BY <2>1, <3>1 DEF Empty, Memory
  <2> QED
    BY <1>1, <2>2, <2>3 DEF Memory
<1>4. can \in BOOLEAN
  OBVIOUS
<1>5. fl \in [Entity -> Progress] /\ \A x \in Device : fl[x] = flash[x]
  BY <1>1, Names DEF Rest, Entity, Progress
<1>6. again \in Resume /\ again.who = Nobody /\ again.caller = FALSE
  BY ReturnIs DEF Resume, Return
<1> HIDE DEF m
<1> HIDE DEF can
<1> HIDE DEF fl
<1> HIDE DEF again
<1>7. Len(m.writes) = 0 /\ \A j \in 1..Len(m.writes) : FALSE
  BY <1>3
<1>8. Agrees(m, disk) /\ InTurn(m, disk, flash)
  <2>1. Agrees(m, disk)
    BY <1>3 DEF Agrees, Same
  <2>2. ASSUME Careful(m) PROVE Flying(m, disk, flash) /\ Waiting(m)
    <3>1. Flying(rm, disk, flash)
      BY <1>1, <1>3, <2>2 DEF InTurn, Careful
    <3> QED
      BY <1>3, <1>7, <3>1 DEF Flying, Waiting
  <2> QED
    BY <2>1, <2>2 DEF InTurn
<1>9. InTurn(m, disk, fl)
  BY <1>5, <1>8, FewerFly
<1>10. CASE m.queue = << >> /\ rm' = Retry(m, can) /\ flash' = Retried(m, can, fl)
  <2>1. HasTurn(m)
    BY <1>10 DEF HasTurn
  <2>2. Good(m, disk, fl)
    BY <1>3, <1>8, <1>9, <2>1 DEF Good, Sound
  <2>3. Good(rm', disk, fl)
    BY <1>4, <1>10, <2>2, RetryGood
  <2> QED
    BY <1>1, <1>2, <1>5, <1>10, <2>3, RetriedGood DEF Rest
<1>11. CASE Arrived(m) /\ rm' = Advance(m, again) /\ flash' = fl
  <2>1. Good(rm', disk, flash)
    BY <1>3, <1>6, <1>8, <1>11, AdvanceGood DEF Arrived
  <2>2. Good(rm', disk, fl)
    BY <1>5, <2>1, FewerFlyGood
  <2> QED
    BY <1>1, <1>2, <1>5, <1>11, <2>2 DEF Rest
<1>12. CASE /\ m.queue # << >> /\ rm' = Retry(d, can)
            /\ flash' = Retried(d, can, Taken(fl, front))
  <2>1. Head(m.queue) \in Entry
    BY <1>1, <1>3, <1>12
  <2>2. front \in Device
    BY <2>1 DEF Entry
  <2>3. Leads(m.queue, front)
    BY <1>12 DEF Leads, AtFront
  <2> HIDE DEF front
  <2>4. since \in [Device -> {"none", "fresh", "old"}] /\ since[front] = "fresh"
    BY <1>3, <2>2
  <2> HIDE DEF since
  <2>5. /\ d \in Memory /\ d.queue = m.queue /\ d.blocked = m.blocked /\ d.writes = m.writes
        /\ d.since = since /\ d.retrying = m.retrying /\ d.wrong = m.wrong
    BY <1>3, <2>4 DEF Memory
  <2> HIDE DEF d
  <2>6. Agrees(d, disk) /\ InTurn(d, disk, fl)
    BY <1>8, <1>9, <2>5, AgreesSame, InTurnSame DEF Leads
  <2>7. \A j \in 1..Len(d.writes) : Leads(d.writes[j].data.queue, front)
    BY <1>7, <2>5
  <2>8. Leads(d.queue, front) /\ Leads(disk.queue, front)
    BY <1>3, <2>3, <2>5
  <2>9. InTurn(d, disk, Taken(fl, front)) /\ Taken(fl, front) \in [Entity -> Progress]
    BY <1>5, <2>6, <2>7, <2>8, TakenInTurn
  <2>10. HasTurn(d)
    BY <2>3, <2>4, <2>5 DEF HasTurn, Leads
  <2>11. Good(d, disk, Taken(fl, front))
    BY <2>5, <2>6, <2>9, <2>10 DEF Good, Sound
  <2>12. Good(rm', disk, Taken(fl, front))
    BY <1>4, <1>12, <2>11, RetryGood
  <2> QED
    BY <1>1, <1>2, <1>12, <2>9, <2>12, RetriedGood DEF Rest
<1> QED
  BY <1>2, <1>10, <1>11, <1>12

LEMMA RestartsKeep ==
  ASSUME IInv, CoreRestarts \/ Crash
  PROVE  IInv'
<1>1. Rest /\ Restart
  BY DEF CoreRestarts, Crash, IInv
<1>2. installed' \in [Entity -> Nat] /\ faults' \in Nat
  BY <1>1 DEF CoreRestarts, Crash, Fault, Rest, Entity
<1> QED
  BY <1>1, <1>2, RestartKeeps DEF IInv, Rest

LEMMA TailIs ==
  ASSUME NEW S, NEW s \in Seq(S), s # << >>
  PROVE  /\ DOMAIN Tail(s) = 1..(Len(s) - 1)
         /\ \A i \in 1..(Len(s) - 1) : Tail(s)[i] = s[i + 1]
OBVIOUS

\* A save is done: the file is what was given to the store first, what waits
\* writes what it was given last, and the coroutine dispatches the front.
LEMMA WriteKeeps ==
  ASSUME IInv, Write
  PROVE  IInv'
<1> DEFINE w == rm.writes
           n == Len(w)
           resume == Head(w).resume
           who == IF resume.who = Foremost THEN Head(rm.queue).entity ELSE resume.who
           writes == [i \in DOMAIN Tail(w) |-> [Tail(w)[i] EXCEPT !.data = Last(w).data]]
           m == [rm EXCEPT !.writes = writes]
           noted == ~(who = Nobody \/ resume.caller)
           since == [rm.since EXCEPT ![who] = "fresh"]
           d == IF ~noted THEN m ELSE [m EXCEPT !.since = since]
           called == IF who = Nobody THEN flash ELSE Taken(flash, who)
           a == IF resume.ask = << >> THEN d ELSE Enqueue(d, resume.ask[1])
           can == Installs(Core)
<1>1. /\ Rest /\ rm \in Memory /\ rm.queue \in Seq(Entry) /\ w \in Seq(Saving)
      /\ InTurn(rm, disk, flash) /\ HasTurn(rm) /\ Agrees(rm, disk)
      /\ rm.since \in [Device -> {"none", "fresh", "old"}] /\ flash \in [Entity -> Progress]
  BY DEF IInv, Good, Sound, Memory, Rest
<1>2. /\ w # << >> /\ disk' = Head(w).data
      /\ installed' = installed /\ latest' = latest /\ news' = news /\ faults' = faults
      /\ resume.retry => rm' = Retry(a, can) /\ flash' = Retried(a, can, called)
      /\ ~resume.retry => rm' = a /\ flash' = called
  BY DEF Write, m
<1>3. /\ n \in Nat /\ n >= 1 /\ Head(w) = w[1] /\ Last(w) = w[n]
      /\ \A i \in 1..n : w[i] \in Saving /\ w[i].data \in Stored /\ w[i].resume \in Resume
  <2>1. w \in Seq(Saving) /\ w # << >>
    BY <1>1, <1>2
  <2> HIDE DEF w
  <2>2. \A x \in Saving : x.data \in Stored /\ x.resume \in Resume
    BY DEF Saving
  <2>3. \A i \in 1..n : w[i] \in Saving
    BY <2>1
  <2>4. n \in Nat /\ n >= 1 /\ Head(w) = w[1] /\ Last(w) = w[n]
    BY <2>1 DEF Last
  <2> HIDE DEF n
  <2>5. \A i \in 1..n : w[i].data \in Stored /\ w[i].resume \in Resume
    BY <2>2, <2>3
  <2> QED
    BY <2>3, <2>4, <2>5
<1>4. /\ writes \in Seq(Saving) /\ Len(writes) = n - 1
      /\ \A i \in 1..(n - 1) : /\ writes[i].data = w[n].data
                               /\ writes[i].resume = w[i + 1].resume
  <2>1. /\ DOMAIN Tail(w) = 1..(n - 1) /\ \A i \in 1..(n - 1) : Tail(w)[i] = w[i + 1]
    BY <1>1, <1>2, TailIs
  <2> DEFINE l == n - 1
             g(i) == [w[i + 1] EXCEPT !.data = w[n].data]
  <2>2. writes = [i \in 1..l |-> g(i)]
    BY <1>3, <2>1
  <2>3. ASSUME NEW i \in 1..l
        PROVE  /\ g(i) \in Saving /\ g(i).data = w[n].data
               /\ g(i).resume = w[i + 1].resume
    <3>1. i + 1 \in 1..n /\ n \in 1..n
      BY <1>3
    <3>2. w[i + 1] \in Saving /\ w[n].data \in Stored
      BY <1>3, <3>1
    <3> HIDE DEF w
    <3> QED
      BY <3>2 DEF Saving
  <2>4. l \in Nat
    BY <1>3
  <2> HIDE DEF g
  <2> HIDE DEF l
  <2>5. [i \in 1..l |-> g(i)] \in Seq(Saving) /\ Len([i \in 1..l |-> g(i)]) = l
    BY <2>3, <2>4
  <2>6. \A i \in 1..l : /\ writes[i].data = w[n].data
                        /\ writes[i].resume = w[i + 1].resume
    BY <2>2, <2>3
  <2> QED
    BY <2>2, <2>5, <2>6 DEF l
<1>5. disk' \in Stored /\ resume \in Resume
  <2>1. disk' = w[1].data /\ resume = w[1].resume
    BY <1>2, <1>3
  <2>2. w[1].data \in Stored /\ w[1].resume \in Resume
    BY <1>3
  <2> QED
    BY <2>1, <2>2
<1>6. can \in BOOLEAN
  BY DEF Installs, Pending
<1>7. resume = w[1].resume /\ disk' = w[1].data
  BY <1>2, <1>3
<1> HIDE DEF writes
<1> HIDE DEF can
<1> HIDE DEF n
<1> HIDE DEF w
<1> HIDE DEF resume
<1>8. /\ m \in Memory /\ m.queue = rm.queue /\ m.blocked = rm.blocked /\ m.writes = writes
      /\ m.since = rm.since /\ m.retrying = rm.retrying /\ m.wrong = rm.wrong
  BY <1>1, <1>4 DEF Memory
<1> HIDE DEF m
<1>9. since \in [Device -> {"none", "fresh", "old"}]
  BY <1>1
<1>10. \A x \in Device : x = who \/ rm.since[x] # "none" => since[x] # "none"
  BY <1>1
<1> HIDE DEF since
<1> HIDE DEF who
<1>11. /\ d \in Memory /\ d.queue = rm.queue /\ d.blocked = rm.blocked /\ d.writes = writes
       /\ d.since = (IF noted THEN since ELSE rm.since)
       /\ d.retrying = rm.retrying /\ d.wrong = rm.wrong
  BY <1>8, <1>9 DEF Memory
<1> HIDE DEF d
<1>12. Agrees(d, disk')
  <2>1. Same(w[n].data, rm)
    BY <1>1, <1>2 DEF Agrees, w, n
  <2>2. CASE n = 1
    <3>1. writes = << >>
      BY <1>4, <2>2
    <3> QED
      BY <1>7, <1>11, <2>1, <2>2, <3>1 DEF Agrees, Same
  <2>3. CASE n # 1
    <3>1. writes # << >> /\ n - 1 \in 1..(n - 1)
      BY <1>3, <1>4, <2>3
    <3>2. writes[Len(writes)].data = w[n].data
      BY <1>4, <3>1
    <3> QED
      BY <1>11, <2>1, <3>1, <3>2 DEF Agrees, Same
  <2> QED
    BY <2>2, <2>3
<1>13. \A i \in 1..(n - 1) : i + 1 \in 1..n /\ n \in (i + 1)..n
  BY <1>3
<1>14. 1 \in 1..n /\ n \in 1..n
  BY <1>3
<1>15. InTurn(d, disk', flash)
  <2> SUFFICES ASSUME Careful(d) PROVE Flying(d, disk', flash) /\ Waiting(d)
    BY DEF InTurn
  <2>1. Flying(rm, disk, flash) /\ Waiting(rm)
    BY <1>1, <1>11 DEF InTurn, Careful
  <2>2. Flying(d, disk', flash)
    <3> SUFFICES ASSUME NEW e \in Device, flash[e] # "none"
                 PROVE  /\ Leads(d.queue, e) /\ Leads(disk'.queue, e)
                        /\ \A j \in 1..Len(d.writes) : Leads(d.writes[j].data.queue, e)
      BY DEF Flying
    <3>1. Leads(rm.queue, e) /\ \A j \in 1..n : Leads(w[j].data.queue, e)
      BY <2>1 DEF Flying, w, n
    <3> QED
      BY <1>4, <1>7, <1>11, <1>14, <3>1
  <2>3. ASSUME NEW i \in 1..(n - 1), writes[i].resume.who # Nobody
        PROVE  /\ rm.queue # << >>
               /\ writes[i].resume.who \in {Foremost, AtFront(rm.queue)}
               /\ Leads(w[n].data.queue, AtFront(rm.queue))
    <3>1. writes[i].resume = w[i + 1].resume
      BY <1>4
    <3>2. i + 1 \in 1..n /\ n \in (i + 1)..n
      BY <1>13
    <3> QED
      BY <2>1, <2>3, <3>1, <3>2 DEF Waiting, w, n
  <2>4. \A i, j \in 1..(n - 1) : j \in i..(n - 1) => writes[j].data = w[n].data
    BY <1>4
  <2>5. \A i \in 1..(n - 1) : \A j \in i..(n - 1) : j \in 1..(n - 1)
    BY <1>3
  <2>6. Waiting(d)
    BY <1>4, <1>11, <2>3, <2>4, <2>5 DEF Waiting
  <2> QED
    BY <2>2, <2>6
<1>16. InTurn(d, disk', called) /\ called \in [Entity -> Progress]
  <2>1. CASE who = Nobody
    BY <1>1, <1>15, <2>1
  <2>2. CASE who # Nobody
    <3>1. ASSUME Careful(d)
          PROVE  /\ Leads(d.queue, who) /\ Leads(disk'.queue, who)
                 /\ \A j \in 1..Len(d.writes) : Leads(d.writes[j].data.queue, who)
      <4>1. Waiting(rm)
        BY <1>1, <1>11, <3>1 DEF InTurn, Careful
      <4>2. resume.who # Nobody
        BY <2>2, Names DEF who, Nobody, Foremost
      <4>3. /\ rm.queue # << >> /\ resume.who \in {Foremost, AtFront(rm.queue)}
            /\ \A j \in 1..n : Leads(w[j].data.queue, AtFront(rm.queue))
        BY <1>7, <1>14, <4>1, <4>2 DEF Waiting, w, n
      <4>4. who = AtFront(rm.queue)
        BY <4>3 DEF who, AtFront
      <4> QED
        BY <1>4, <1>7, <1>11, <1>14, <4>3, <4>4 DEF Leads
    <3> QED
      BY <1>1, <1>15, <2>2, <3>1, TakenInTurn
  <2> QED
    BY <2>1, <2>2
<1> HIDE DEF called
<1>17. HasTurn(d)
  <2> DEFINE front == AtFront(rm.queue)
  <2> SUFFICES ASSUME rm.queue # << >>, "late" \notin rm.wrong
               PROVE  \/ d.since[front] # "none"
                      \/ \E i \in 1..(n - 1) : /\ writes[i].resume.who \in {Foremost, front}
                                               /\ ~writes[i].resume.caller
    BY <1>4, <1>11 DEF HasTurn
  <2>1. front \in Device
    <3>1. Head(rm.queue) \in Entry
      BY <1>1
    <3> QED
      BY <3>1 DEF AtFront, Entry
  <2>2. CASE rm.since[front] # "none"
    BY <1>10, <1>11, <2>1, <2>2
  <2>3. CASE rm.since[front] = "none"
    <3>1. PICK i \in 1..n : w[i].resume.who \in {Foremost, front} /\ ~w[i].resume.caller
      BY <1>1, <2>3 DEF HasTurn, w, n
    <3>2. CASE i = 1
      <4>1. resume.who \in {Foremost, front} /\ ~resume.caller
        BY <1>7, <3>1, <3>2
      <4>2. who = front
        BY <4>1 DEF who, AtFront
      <4>3. noted
        BY <2>1, <4>1, <4>2, Names
      <4> QED
        BY <1>10, <1>11, <2>1, <4>2, <4>3
    <3>3. CASE i # 1
      <4>1. i - 1 \in 1..(n - 1) /\ (i - 1) + 1 = i
        BY <1>3, <3>3
      <4>2. writes[i - 1].resume = w[i].resume
        BY <1>4, <4>1
      <4> QED
        BY <3>1, <4>1, <4>2
    <3> QED
      BY <3>2, <3>3
  <2> QED
    BY <2>2, <2>3
<1> HIDE DEF noted
<1>18. Good(a, disk', called)
  <2>1. CASE resume.ask = << >>
    BY <1>11, <1>12, <1>16, <1>17, <2>1 DEF Good, Sound
  <2>2. CASE resume.ask # << >>
    <3>1. resume.ask \in Seq(Entry)
      BY <1>5 DEF Resume
    <3>2. resume.ask[1] \in Entry
      BY <2>2, <3>1
    <3> QED
      BY <1>11, <1>16, <1>17, <2>2, <3>2, EnqueueGood
  <2> QED
    BY <2>1, <2>2
<1> HIDE DEF a
<1>19. Good(rm', disk', flash') /\ flash' \in [Entity -> Progress]
  <2>1. CASE ~resume.retry
    BY <1>2, <1>16, <1>18, <2>1
  <2>2. CASE resume.retry
    <3>1. Good(rm', disk', called)
      BY <1>2, <1>6, <1>18, <2>2, RetryGood
    <3> QED
      BY <1>2, <1>16, <2>2, <3>1, RetriedGood
  <2> QED
    BY <2>1, <2>2
<1> QED
  BY <1>1, <1>2, <1>5, <1>19 DEF IInv, Rest

-----------------------------------------------------------------------------
(* The theorems *)

LEMMA IInvStep == IInv /\ [Next]_vars => IInv'
<1> SUFFICES ASSUME IInv, [Next]_vars PROVE IInv'
  OBVIOUS
<1>1. ASSUME NEW e \in Device,
             Request(e) \/ Cancel(e) \/ StopWaiting(e) \/ Ages(e)
      PROVE  IInv'
  BY <1>1, RequestKeeps, CancelKeeps, StopWaitingKeeps, AgesKeeps
<1>2. ASSUME NEW e \in Device,
             Starts(e) \/ Finishes(e) \/ Fails(e) \/ Dozes(e) \/ Wakes(e) \/ Released(e)
      PROVE  IInv'
  BY <1>2, UpdateKeeps
<1>3. ASSUME RequestCore \/ CancelCore PROVE IInv'
  BY <1>3, CoreKeeps
<1>4. ASSUME Pause PROVE IInv'
  BY <1>4, PauseKeeps
<1>5. ASSUME Write PROVE IInv'
  BY <1>5, WriteKeeps
<1>6. ASSUME NEW n \in news, Completed(n) PROVE IInv'
  BY <1>6, CompletedKeeps
<1>7. ASSUME Tick PROVE IInv'
  BY <1>7, TickKeeps
<1>8. ASSUME CoreFails PROVE IInv'
  BY <1>8, CoreFailsKeeps
<1>9. ASSUME CoreRestarts \/ Crash PROVE IInv'
  BY <1>9, RestartsKeep
<1>10. ASSUME UNCHANGED vars PROVE IInv'
  BY <1>10 DEF vars, IInv, Rest, Good, Sound, Memory, Agrees, InTurn, HasTurn
<1> QED
  BY <1>1, <1>2, <1>3, <1>4, <1>5, <1>6, <1>7, <1>8, <1>9, <1>10 DEF Next

LEMMA IInvInvariant == Spec => []IInv
BY Init_IInv, IInvStep, PTL DEF Spec

\* The manager's memory and its file are what the code keeps there: a queue of
\* updates, Core held back or not, and saves with what is to follow each.
THEOREM RolloutTypes == Spec => [](rm \in Memory /\ disk \in Stored)
<1>1. IInv => rm \in Memory /\ disk \in Stored
  BY DEF IInv, Rest, Good, Sound
<1> QED
  BY <1>1, IInvInvariant, PTL

\* One device at a time is being installed, as long as no front gave way that
\* was under way or about to be, or was dispatched again in its save.
THEOREM RolloutOneAtATime == Spec => []OneAtATime
<1>1. IInv => OneAtATime
  BY DEF IInv, Good, Sound, InTurn, Careful, Flying, Leads, OneAtATime, UnderWay
<1> QED
  BY <1>1, IInvInvariant, PTL

\* No front is forgotten: it has been dispatched, or a coroutine in its save
\* will do it, unless news of another version ended its minute.
THEOREM RolloutFrontHasItsTurn == Spec => []FrontHasItsTurn
<1>1. ASSUME IInv PROVE FrontHasItsTurn
  <2>1. HasTurn(rm) /\ DOMAIN rm.writes = 1..Len(rm.writes)
    BY <1>1 DEF IInv, Good, Sound, Memory
  <2> QED
    BY <2>1 DEF HasTurn, FrontHasItsTurn, Awaited, AtFront
<1> QED
  BY <1>1, IInvInvariant, PTL

\* Once nothing is being written the file is the memory, except for Core while
\* a retry is in its call for it.
THEOREM RolloutDiskAgrees == Spec => []DiskAgrees
<1>1. IInv => DiskAgrees
  BY DEF IInv, Good, Sound, Agrees, Same, DiskAgrees
<1> QED
  BY <1>1, IInvInvariant, PTL
=============================================================================
