---------------------------- MODULE AttemptProofs ----------------------------
(***************************************************************************)
(* One attempt, whatever it awaits and however its operations, its timers  *)
(* and the event loop interleave: a timer reaches its own await only, and  *)
(* an await that was not timed out says what its operation says.           *)
(***************************************************************************)
EXTENDS TimedConnection, SequenceTheorems, TLAPS

Handler == [what : {"step", "timer"}, of : Awaits, ec : {"ok", "error", "aborted"}]

\* At most one step of an operation is in the queue, as it is awaited.
NoStep(q) == \A k \in DOMAIN q : q[k].what # "step"
AtMostOneStep(q) ==
  \A k, l \in DOMAIN q : q[k].what = "step" /\ q[l].what = "step" => k = l

\* The timers whose handlers are in the queue were armed once.
OfSetTimers(q, t) == \A k \in DOMAIN q : q[k].what = "timer" => t[q[k].of] # "unset"

\* The types the proofs need.
AwaitTypes ==
  /\ script \in Scripts
  /\ at \in 0 .. Len(script) + 1
  /\ op \in {"waiting", "queued"}
  /\ timer \in [Awaits -> {"unset", "armed", "queued", "done"}]
  /\ active \in [Awaits -> BOOLEAN] /\ timed_out \in [Awaits -> BOOLEAN]
  /\ verdict \in [Awaits -> {"none", "ok", "timeout", "error", "aborted"}]
  /\ hit \in [Awaits -> Awaits \cup {0, Gone}]
  /\ ready \in Seq(Handler)

Queue == /\ AtMostOneStep(ready)
         /\ NoStep(ready) \/ (op = "queued" /\ at \in Awaits)
         /\ OfSetTimers(ready, timer)

\* A flag is up only for the await the coroutine is in, once its timer is armed.
Flags == \A i \in Awaits : timer[i] # "unset" /\ active[i] => at = i

\* Verdicts are given in order, each when its flag goes down, and the coroutine
\* goes on only after a success.
Verdicts == /\ \A i \in Awaits : verdict[i] # "none" => i < at /\ ~active[i]
            /\ at \in Awaits => \A j \in 1 .. (at - 1) : verdict[j] = "ok"

AwaitInv == AwaitTypes /\ Queue /\ Flags /\ Verdicts /\ CancelsItsOwn /\ OnlyUntimedSucceeds
-----------------------------------------------------------------------------
\* Scripts are sequences, so awaits are numbered from 1.
LEMMA ScriptIsSequence ==
  ASSUME script \in Scripts
  PROVE  Len(script) \in Nat /\ Awaits = 1 .. Len(script)
<1>1. script \in Seq([kind : Kinds, steps : Nat \ {0}])
  BY ScriptAssumption
<1> QED
  BY <1>1, LenProperties DEF Awaits

\* Taking the first handler out of a queue.
LEMMA Popped ==
  ASSUME NEW S, NEW q \in Seq(S), q # <<>>
  PROVE  /\ Head(q) \in S /\ Tail(q) \in Seq(S)
         /\ NoStep(q) => NoStep(Tail(q))
         /\ AtMostOneStep(q) => AtMostOneStep(Tail(q))
         /\ AtMostOneStep(q) /\ Head(q).what = "step" => NoStep(Tail(q))
         /\ NoStep(q) => Head(q).what # "step"
         /\ \A t : OfSetTimers(q, t) => OfSetTimers(Tail(q), t)
         /\ \A t : OfSetTimers(q, t) /\ Head(q).what = "timer" => t[Head(q).of] # "unset"
<1>1. /\ Head(q) \in S /\ Tail(q) \in Seq(S)
      /\ Len(Tail(q)) = Len(q) - 1
      /\ \A k \in 1 .. Len(Tail(q)) : Tail(q)[k] = q[k + 1]
  BY HeadTailProperties
<1>2. /\ Len(q) \in Nat \ {0} /\ DOMAIN q = 1 .. Len(q)
      /\ DOMAIN Tail(q) = 1 .. Len(Tail(q))
  BY <1>1, LenProperties, EmptySeq
<1>3. 1 \in DOMAIN q /\ Head(q) = q[1]
  BY <1>2
<1>4. \A k \in DOMAIN Tail(q) : /\ k \in Nat \ {0}
                                /\ k + 1 \in DOMAIN q /\ Tail(q)[k] = q[k + 1]
  BY <1>1, <1>2
<1>5. NoStep(q) => NoStep(Tail(q)) /\ Head(q).what # "step"
  BY <1>3, <1>4 DEF NoStep
<1>6. AtMostOneStep(q) => AtMostOneStep(Tail(q))
  <2> SUFFICES ASSUME AtMostOneStep(q), NEW k \in DOMAIN Tail(q), NEW l \in DOMAIN Tail(q),
                      Tail(q)[k].what = "step", Tail(q)[l].what = "step"
               PROVE  k = l
    BY DEF AtMostOneStep
  <2>1. k + 1 = l + 1
    BY <1>4 DEF AtMostOneStep
  <2> QED
    BY <1>4, <2>1
<1>7. AtMostOneStep(q) /\ Head(q).what = "step" => NoStep(Tail(q))
  <2> SUFFICES ASSUME AtMostOneStep(q), q[1].what = "step", NEW k \in DOMAIN Tail(q),
                      Tail(q)[k].what = "step"
               PROVE  FALSE
    BY <1>3 DEF NoStep
  <2>1. k + 1 = 1
    BY <1>3, <1>4 DEF AtMostOneStep
  <2> QED
    BY <1>4, <2>1
<1>8. \A t : OfSetTimers(q, t) => OfSetTimers(Tail(q), t)
  BY <1>4 DEF OfSetTimers
<1>9. \A t : OfSetTimers(q, t) /\ Head(q).what = "timer" => t[Head(q).of] # "unset"
  BY <1>3 DEF OfSetTimers
<1> QED
  BY <1>1, <1>5, <1>6, <1>7, <1>8, <1>9

\* Putting a handler behind a queue.
LEMMA Pushed ==
  ASSUME NEW S, NEW q \in Seq(S), NEW x \in S
  PROVE  /\ Append(q, x) \in Seq(S)
         /\ q \o <<x>> = Append(q, x) /\ q \o <<>> = q
         /\ NoStep(q) => AtMostOneStep(Append(q, x))
         /\ x.what = "timer" /\ NoStep(q) => NoStep(Append(q, x))
         /\ x.what = "timer" /\ AtMostOneStep(q) => AtMostOneStep(Append(q, x))
         /\ \A t : OfSetTimers(q, t) /\ (x.what = "timer" => t[x.of] # "unset")
                     => OfSetTimers(Append(q, x), t)
<1>1. /\ Append(q, x) \in Seq(S) /\ q \o <<x>> = Append(q, x)
      /\ Len(Append(q, x)) = Len(q) + 1
  OBVIOUS
<1>2. q \o <<>> = q
  BY ConcatEmptySeq
<1>3. /\ Len(q) \in Nat /\ DOMAIN q = 1 .. Len(q)
      /\ DOMAIN Append(q, x) = 1 .. Len(q) + 1
  BY <1>1, LenProperties
<1>4. \A k \in DOMAIN Append(q, x) : \/ k \in DOMAIN q /\ Append(q, x)[k] = q[k]
                                     \/ k = Len(q) + 1 /\ Append(q, x)[k] = x
  BY <1>3
<1>5. NoStep(q) => AtMostOneStep(Append(q, x))
  BY <1>4 DEF NoStep, AtMostOneStep
<1>6. x.what = "timer" /\ NoStep(q) => NoStep(Append(q, x))
  BY <1>4 DEF NoStep
<1>7. x.what = "timer" /\ AtMostOneStep(q) => AtMostOneStep(Append(q, x))
  BY <1>4 DEF AtMostOneStep
<1>8. \A t : OfSetTimers(q, t) /\ (x.what = "timer" => t[x.of] # "unset")
               => OfSetTimers(Append(q, x), t)
  BY <1>4 DEF OfSetTimers
<1> QED
  BY <1>1, <1>2, <1>5, <1>6, <1>7, <1>8

\* Timers that are set stay set.
LEMMA TimersStaySet ==
  ASSUME NEW q \in Seq(Handler), NEW t, NEW u, OfSetTimers(q, t),
         \A i \in Awaits : t[i] # "unset" => u[i] # "unset"
  PROVE  OfSetTimers(q, u)
<1>1. \A k \in DOMAIN q : q[k] \in Handler
  BY ElementOfSeq, LenProperties
<1>2. \A k \in DOMAIN q : q[k].of \in Awaits
  BY <1>1 DEF Handler
<1> QED
  BY <1>2 DEF OfSetTimers

\* The invariant says nothing of what only the steps and the resolver use.
LEMMA InvKept ==
  ASSUME AwaitInv, UNCHANGED <<script, at, op, timer, active, timed_out, ready, verdict, hit>>
  PROVE  AwaitInv'
  BY DEF AwaitInv, AwaitTypes, Queue, Flags, Verdicts, CancelsItsOwn, OnlyUntimedSucceeds,
     AtMostOneStep, NoStep, OfSetTimers, Handler, Awaits, Gone

\* The attempt starts with all flags up and no timer set.
LEMMA AwaitInvInit == Init => AwaitInv
<1> SUFFICES ASSUME Init PROVE AwaitInv
  OBVIOUS
<1>1. Len(script) \in Nat /\ Awaits = 1 .. Len(script)
  BY ScriptIsSequence DEF Init
<1>2. AwaitTypes
  BY <1>1 DEF Init, AwaitTypes
<1>3. Queue
  BY DEF Init, Queue, AtMostOneStep, NoStep, OfSetTimers
<1>4. Flags /\ Verdicts /\ CancelsItsOwn /\ OnlyUntimedSucceeds
  BY <1>1 DEF Init, Flags, Verdicts, CancelsItsOwn, OnlyUntimedSucceeds
<1> QED
  BY <1>2, <1>3, <1>4 DEF AwaitInv

-----------------------------------------------------------------------------
\* The first timer is armed.
LEMMA StepBegin == AwaitInv /\ Begin => AwaitInv'
<1> SUFFICES ASSUME AwaitInv, Begin PROVE AwaitInv'
  OBVIOUS
<1>1. AwaitTypes /\ Queue /\ Flags /\ Verdicts
  BY DEF AwaitInv
<1>2. Len(script) \in Nat /\ Awaits = 1 .. Len(script) /\ Awaits' = Awaits /\ Gone' = Gone
  BY <1>1, ScriptIsSequence DEF AwaitTypes, Begin, Awaits, Gone
<1>3. /\ at = 0 /\ at' = 1
      /\ timer' = [timer EXCEPT ![1] = "armed"]
      /\ UNCHANGED <<script, op, active, timed_out, ready, verdict, hit>>
  BY DEF Begin
<1>4. AwaitTypes'
  <2>1. timer' \in [Awaits -> {"unset", "armed", "queued", "done"}]
    BY <1>1, <1>3 DEF AwaitTypes
  <2>2. at' \in 0 .. Len(script) + 1
    BY <1>2, <1>3
  <2>3. Handler' = Handler
    BY <1>2 DEF Handler
  <2> QED
    BY <1>1, <1>2, <1>3, <2>1, <2>2, <2>3 DEF AwaitTypes
<1>5. NoStep(ready)
  BY <1>1, <1>2, <1>3 DEF Queue
<1>6. OfSetTimers(ready, timer')
  <2>1. \A i \in Awaits : timer[i] # "unset" => timer'[i] # "unset"
    BY <1>1, <1>3 DEF AwaitTypes
  <2>2. ready \in Seq(Handler) /\ OfSetTimers(ready, timer)
    BY <1>1 DEF AwaitTypes, Queue
  <2> QED
    BY <2>1, <2>2, TimersStaySet
<1>7. Queue'
  BY <1>1, <1>3, <1>5, <1>6 DEF Queue
<1>8. Flags'
  BY <1>1, <1>2, <1>3 DEF Flags, AwaitTypes
<1>9. Verdicts'
  BY <1>1, <1>2, <1>3 DEF Verdicts
<1>10. CancelsItsOwn' /\ OnlyUntimedSucceeds'
  BY <1>2, <1>3 DEF AwaitInv, CancelsItsOwn, OnlyUntimedSucceeds
<1> QED
  BY <1>4, <1>7, <1>8, <1>9, <1>10 DEF AwaitInv

\* A handler is queued: the step's, of which there was none, or a timer's.
LEMMA StepQueues ==
  ASSUME AwaitInv, (\E ec \in {"ok", "error"} : Completes(ec)) \/ (\E i \in Awaits : Expires(i))
  PROVE  AwaitInv'
<1>1. AwaitTypes /\ Queue /\ Flags /\ Verdicts
  BY DEF AwaitInv
<1>2. UNCHANGED <<script, at, active, timed_out, verdict, hit>>
  BY DEF Completes, Expires
<1>3. Awaits' = Awaits /\ Gone' = Gone /\ Handler' = Handler
  BY <1>2 DEF Awaits, Gone, Handler
<1>4. /\ Verdicts'
      /\ CancelsItsOwn' /\ OnlyUntimedSucceeds'
  BY <1>1, <1>2, <1>3 DEF AwaitInv, Verdicts, CancelsItsOwn, OnlyUntimedSucceeds
<1>5. ASSUME NEW ec \in {"ok", "error"}, Completes(ec) PROVE AwaitInv'
  <2>1. at \in Awaits /\ op = "waiting" /\ op' = "queued" /\ UNCHANGED timer
    BY <1>5 DEF Completes, Outstanding
  <2>2. PICK x \in Handler : x.what = "step" /\ ready' = Append(ready, x)
    <3>1. StepDone(IF given_up THEN "aborted" ELSE ec) \in Handler
      BY <2>1 DEF StepDone, Handler
    <3> QED
      BY <1>5, <3>1 DEF Completes, StepDone
  <2>3. NoStep(ready)
    BY <1>1, <2>1 DEF Queue
  <2>4. Queue'
    BY <1>1, <1>2, <1>3, <2>1, <2>2, <2>3, Pushed DEF Queue, AwaitTypes
  <2>5. AwaitTypes'
    BY <1>1, <1>2, <1>3, <2>1, <2>2, Pushed DEF AwaitTypes
  <2>6. Flags'
    BY <1>1, <1>2, <1>3, <2>1 DEF Flags
  <2> QED
    BY <1>4, <2>4, <2>5, <2>6 DEF AwaitInv
<1>6. ASSUME NEW i \in Awaits, Expires(i) PROVE AwaitInv'
  <2>1. /\ timer[i] = "armed" /\ timer' = [timer EXCEPT ![i] = "queued"] /\ UNCHANGED op
        /\ ready' = Append(ready, TimerDone(i, "ok"))
    BY <1>6 DEF Expires
  <2>2. TimerDone(i, "ok") \in Handler /\ TimerDone(i, "ok").what = "timer" /\ TimerDone(i, "ok").of = i
    BY DEF TimerDone, Handler
  <2>3. timer'[i] = "queued" /\ \A j \in Awaits : j # i => timer'[j] = timer[j]
    BY <1>1, <2>1 DEF AwaitTypes
  <2>4. OfSetTimers(ready, timer')
    BY <1>1, <2>3, TimersStaySet DEF AwaitTypes, Queue
  <2>5. Queue'
    BY <1>1, <1>2, <1>3, <2>1, <2>2, <2>3, <2>4, Pushed DEF Queue, AwaitTypes
  <2>6. AwaitTypes'
    BY <1>1, <1>2, <1>3, <2>1, <2>2, Pushed DEF AwaitTypes
  <2>7. Flags'
    BY <1>1, <1>2, <1>3, <2>1, <2>3 DEF Flags
  <2> QED
    BY <1>4, <2>5, <2>6, <2>7 DEF AwaitInv
<1> QED
  BY <1>5, <1>6

\* A timer's handler runs.  It wins only with its flag up, and then its await is
\* the one the coroutine is in.
LEMMA StepRunTimer == AwaitInv /\ RunTimer => AwaitInv'
<1> SUFFICES ASSUME AwaitInv, RunTimer PROVE AwaitInv'
  OBVIOUS
<1> DEFINE h == Head(ready)
<1>1. AwaitTypes /\ Queue /\ Flags /\ Verdicts /\ CancelsItsOwn /\ OnlyUntimedSucceeds
  BY DEF AwaitInv
<1>2. /\ ready # <<>> /\ h.what = "timer"
      /\ timer' = [timer EXCEPT ![h.of] = "done"]
      /\ UNCHANGED <<script, at, left, verdict>>
  BY DEF RunTimer
<1>3. Awaits' = Awaits /\ Gone' = Gone /\ Handler' = Handler
  BY <1>2 DEF Awaits, Gone, Handler
<1>4. /\ h \in Handler /\ Tail(ready) \in Seq(Handler)
      /\ AtMostOneStep(Tail(ready))
      /\ NoStep(ready) => NoStep(Tail(ready))
      /\ OfSetTimers(Tail(ready), timer)
      /\ timer[h.of] # "unset"
  BY <1>1, <1>2, Popped DEF AwaitTypes, Queue
<1>5. h.of \in Awaits
  BY <1>4 DEF Handler
<1>6. timer'[h.of] = "done" /\ \A j \in Awaits : j # h.of => timer'[j] = timer[j]
  BY <1>1, <1>2, <1>5 DEF AwaitTypes
<1>7. OfSetTimers(Tail(ready), timer')
  <2>1. \A i \in Awaits : timer[i] # "unset" => timer'[i] # "unset"
    BY <1>6
  <2> QED
    BY <1>4, <2>1, TimersStaySet
<1>8. timer' \in [Awaits -> {"unset", "armed", "queued", "done"}]
  BY <1>1, <1>2 DEF AwaitTypes
<1>9. CASE Wins(h)
  <2>1. /\ active' = [active EXCEPT ![h.of] = FALSE]
        /\ timed_out' = [timed_out EXCEPT ![h.of] = TRUE]
        /\ Cancel(h.of)
    BY <1>9 DEF RunTimer
  <2>2. at = h.of /\ active[h.of]
    BY <1>1, <1>4, <1>5, <1>9 DEF Wins, Flags
  <2>3. hit' = [hit EXCEPT ![h.of] = at]
    BY <2>1 DEF Cancel
  <2>4. CancelsItsOwn'
    BY <1>1, <1>3, <1>5, <2>2, <2>3 DEF CancelsItsOwn, AwaitTypes
  <2>5. /\ active'[h.of] = FALSE /\ \A j \in Awaits : j # h.of => active'[j] = active[j]
        /\ \A j \in Awaits : j # h.of => timed_out'[j] = timed_out[j]
    BY <1>1, <1>5, <2>1 DEF AwaitTypes
  <2>6. Flags'
    BY <1>1, <1>2, <1>3, <1>6, <2>5 DEF Flags
  <2>7. Verdicts'
    BY <1>1, <1>2, <1>3, <2>5 DEF Verdicts
  <2>8. OnlyUntimedSucceeds'
    <3>1. verdict[h.of] = "none"
      BY <1>1, <1>5, <2>2 DEF Verdicts
    <3> QED
      BY <1>1, <1>2, <1>3, <2>5, <3>1 DEF OnlyUntimedSucceeds
  <2>9. AwaitTypes' /\ Queue'
    <3>1. CASE Aborts
      <4>1. op = "waiting" /\ at \in Awaits
        BY <3>1 DEF Aborts, Outstanding
      <4>2. NoStep(Tail(ready))
        BY <1>1, <1>4, <4>1 DEF Queue
      <4>3. op' = "queued" /\ ready' = Tail(ready) \o <<StepDone("aborted")>>
        BY <2>1, <3>1 DEF Cancel
      <4>4. StepDone("aborted") \in Handler /\ StepDone("aborted").what = "step"
        BY <4>1 DEF StepDone, Handler
      <4>5. Queue'
        BY <1>2, <1>3, <1>4, <1>7, <4>1, <4>2, <4>3, <4>4, Pushed DEF Queue
      <4>6. ready' \in Seq(Handler)
        BY <1>4, <4>3, <4>4, Pushed
      <4> QED
        BY <1>1, <1>2, <1>3, <1>5, <1>8, <2>1, <2>3, <4>1, <4>3, <4>5, <4>6 DEF AwaitTypes
    <3>2. CASE ~Aborts
      <4>1. op' = op /\ ready' = Tail(ready)
        <5>1. op' = op /\ ready' = Tail(ready) \o <<>>
          BY <2>1, <3>2 DEF Cancel
        <5> QED
          BY <1>4, <5>1, ConcatEmptySeq
      <4>2. Queue'
        BY <1>1, <1>2, <1>3, <1>4, <1>7, <4>1 DEF Queue
      <4> QED
        BY <1>1, <1>2, <1>3, <1>4, <1>5, <1>8, <2>1, <2>2, <2>3, <4>1, <4>2 DEF AwaitTypes
    <3> QED
      BY <3>1, <3>2
  <2> QED
    BY <2>4, <2>6, <2>7, <2>8, <2>9 DEF AwaitInv
<1>10. CASE ~Wins(h)
  <2>1. ready' = Tail(ready) /\ UNCHANGED <<op, active, timed_out, hit>>
    BY <1>10 DEF RunTimer
  <2>2. Queue'
    BY <1>1, <1>2, <1>3, <1>4, <1>7, <2>1 DEF Queue
  <2>3. AwaitTypes'
    BY <1>1, <1>2, <1>3, <1>4, <1>8, <2>1 DEF AwaitTypes
  <2>4. Flags'
    BY <1>1, <1>2, <1>3, <1>4, <1>6, <2>1 DEF Flags
  <2>5. Verdicts' /\ CancelsItsOwn' /\ OnlyUntimedSucceeds'
    BY <1>1, <1>2, <1>3, <2>1 DEF Verdicts, CancelsItsOwn, OnlyUntimedSucceeds
  <2> QED
    BY <2>2, <2>3, <2>4, <2>5 DEF AwaitInv
<1> QED
  BY <1>9, <1>10

\* A step is done, and the operation goes on.
LEMMA StepRunStep == AwaitInv /\ RunStep => AwaitInv'
<1> SUFFICES ASSUME AwaitInv, RunStep PROVE AwaitInv'
  OBVIOUS
<1>1. AwaitTypes /\ Queue /\ Flags /\ Verdicts /\ CancelsItsOwn /\ OnlyUntimedSucceeds
  BY DEF AwaitInv
<1>2. /\ ready # <<>> /\ Head(ready).what = "step"
      /\ UNCHANGED <<script, at, timer, active, timed_out, verdict, hit>>
  BY DEF RunStep
<1>3. Awaits' = Awaits /\ Gone' = Gone /\ Handler' = Handler
  BY <1>2 DEF Awaits, Gone, Handler
<1>4. /\ Tail(ready) \in Seq(Handler)
      /\ NoStep(Tail(ready)) /\ AtMostOneStep(Tail(ready))
      /\ OfSetTimers(Tail(ready), timer)
      /\ ~NoStep(ready)
  BY <1>1, <1>2, Popped DEF AwaitTypes, Queue
<1>5. at \in Awaits
  BY <1>1, <1>4 DEF Queue
<1>6. StepDone("ok") \in Handler /\ StepDone("ok").what = "step"
  BY <1>5 DEF StepDone, Handler
<1>7. Flags' /\ Verdicts' /\ CancelsItsOwn' /\ OnlyUntimedSucceeds'
  BY <1>1, <1>2, <1>3 DEF Flags, Verdicts, CancelsItsOwn, OnlyUntimedSucceeds
<1>8. CASE op' = "waiting" /\ ready' = Tail(ready)
  BY <1>1, <1>2, <1>3, <1>4, <1>7, <1>8 DEF AwaitInv, AwaitTypes, Queue
<1>9. CASE op' = "queued" /\ ready' = Append(Tail(ready), StepDone("ok"))
  <2>1. Queue'
    BY <1>2, <1>3, <1>4, <1>5, <1>6, <1>9, Pushed DEF Queue
  <2>2. ready' \in Seq(Handler)
    BY <1>4, <1>6, <1>9, Pushed
  <2> QED
    BY <1>1, <1>2, <1>3, <1>7, <1>9, <2>1, <2>2 DEF AwaitInv, AwaitTypes
<1> QED
  BY <1>8, <1>9 DEF RunStep

\* The coroutine is resumed: its flag goes down, its timer is recalled, and its
\* verdict is given.
LEMMA StepResume == ASSUME AwaitInv, NEW next, Resume(next) PROVE AwaitInv'
<1> DEFINE ec == Head(ready).ec
<1>1. AwaitTypes /\ Queue /\ Flags /\ Verdicts /\ CancelsItsOwn /\ OnlyUntimedSucceeds
  BY DEF AwaitInv
<1>2. /\ ready # <<>> /\ Head(ready).what = "step"
      /\ active' = [active EXCEPT ![at] = FALSE]
      /\ at' = next
      /\ verdict' = [verdict EXCEPT ![at] = Judge(ec)]
      /\ next = Gone \/ (Judge(ec) = "ok" /\ next = at + 1)
      /\ op' = "waiting"
      /\ ready' = Tail(ready) \o TimerCancelled
      /\ UNCHANGED <<script, timed_out, hit>>
  BY DEF Resume
<1>3. /\ Awaits' = Awaits /\ Gone' = Gone /\ Handler' = Handler
      /\ Len(script) \in Nat /\ Awaits = 1 .. Len(script)
  BY <1>1, <1>2, ScriptIsSequence DEF Awaits, Gone, Handler, AwaitTypes
<1>4. /\ Head(ready) \in Handler /\ Tail(ready) \in Seq(Handler)
      /\ NoStep(Tail(ready)) /\ AtMostOneStep(Tail(ready))
      /\ OfSetTimers(Tail(ready), timer)
      /\ ~NoStep(ready)
  BY <1>1, <1>2, Popped DEF AwaitTypes, Queue
<1>5. at \in Awaits /\ ec \in {"ok", "error", "aborted"}
  BY <1>1, <1>4 DEF Queue, Handler
<1>6. at' \in 1 .. Len(script) + 1 /\ at < at'
  BY <1>2, <1>3, <1>5 DEF Gone
<1>7. /\ Judge(ec) \in {"ok", "timeout", "error", "aborted"}
      /\ Judge(ec) = "timeout" <=> timed_out[at]
  BY <1>1, <1>5 DEF Judge, AwaitTypes
<1>8. timer' = [i \in Awaits |-> IF i = at /\ timer[i] = "armed" THEN "queued"
                                 ELSE IF i = next THEN "armed" ELSE timer[i]]
  BY DEF Resume
<1>9. /\ timer' \in [Awaits -> {"unset", "armed", "queued", "done"}]
      /\ \A i \in Awaits : timer[i] # "unset" => timer'[i] # "unset"
      /\ \A i \in Awaits : i # at' /\ timer'[i] # "unset" => timer[i] # "unset"
  BY <1>1, <1>2, <1>8 DEF AwaitTypes
<1>10. /\ active'[at] = FALSE /\ \A i \in Awaits : i # at => active'[i] = active[i]
       /\ verdict'[at] = Judge(ec) /\ \A i \in Awaits : i # at => verdict'[i] = verdict[i]
  BY <1>1, <1>2, <1>5 DEF AwaitTypes
<1>11. ready' \in Seq(Handler) /\ AtMostOneStep(ready') /\ NoStep(ready')
       /\ OfSetTimers(ready', timer')
  <2>1. OfSetTimers(Tail(ready), timer')
    BY <1>4, <1>9, TimersStaySet
  <2>2. CASE timer[at] = "armed"
    <3>1. ready' = Tail(ready) \o <<TimerDone(at, "aborted")>>
      BY <1>2, <2>2 DEF TimerCancelled
    <3>2. /\ TimerDone(at, "aborted") \in Handler
          /\ TimerDone(at, "aborted").what = "timer" /\ TimerDone(at, "aborted").of = at
      BY <1>5 DEF TimerDone, Handler
    <3>3. timer'[at] # "unset"
      BY <1>5, <1>9, <2>2
    <3> DEFINE x == TimerDone(at, "aborted")
    <3>4. /\ ready' = Append(Tail(ready), x) /\ Append(Tail(ready), x) \in Seq(Handler)
          /\ NoStep(Append(Tail(ready), x)) /\ AtMostOneStep(Append(Tail(ready), x))
      BY <1>4, <3>1, <3>2, Pushed
    <3>5. OfSetTimers(Append(Tail(ready), x), timer')
      BY <1>4, <2>1, <3>2, <3>3, Pushed
    <3> QED
      BY <3>4, <3>5
  <2>3. CASE timer[at] # "armed"
    <3>1. ready' = Tail(ready) \o <<>>
      BY <1>2, <2>3 DEF TimerCancelled
    <3>2. ready' = Tail(ready)
      BY <1>4, <3>1, ConcatEmptySeq
    <3> QED
      BY <1>4, <2>1, <3>2
  <2> QED
    BY <2>2, <2>3
<1>12. AwaitTypes'
  <2>1. verdict' \in [Awaits -> {"none", "ok", "timeout", "error", "aborted"}]
    BY <1>1, <1>2, <1>7 DEF AwaitTypes
  <2>2. active' \in [Awaits -> BOOLEAN]
    BY <1>1, <1>2 DEF AwaitTypes
  <2>3. at' \in 0 .. Len(script) + 1
    BY <1>3, <1>6
  <2> QED
    BY <1>1, <1>2, <1>3, <1>9, <1>11, <2>1, <2>2, <2>3 DEF AwaitTypes
<1>13. Queue'
  BY <1>11 DEF Queue
<1>14. Flags'
  <2> SUFFICES ASSUME NEW i \in Awaits, timer'[i] # "unset", active'[i] PROVE at' = i
    BY <1>3 DEF Flags
  <2>1. i # at
    BY <1>10
  <2>2. active[i]
    BY <1>10, <2>1
  <2> QED
    BY <1>1, <1>9, <2>1, <2>2 DEF Flags
<1>15. Verdicts'
  <2>1. ASSUME NEW i \in Awaits, verdict'[i] # "none" PROVE i < at' /\ ~active'[i]
    <3>1. CASE i = at
      BY <1>6, <1>10, <3>1
    <3>2. CASE i # at
      BY <1>1, <1>3, <1>5, <1>6, <1>10, <2>1, <3>2 DEF Verdicts
    <3> QED
      BY <3>1, <3>2
  <2>2. ASSUME at' \in Awaits, NEW j \in 1 .. (at' - 1) PROVE verdict'[j] = "ok"
    <3>1. at' = at + 1 /\ Judge(ec) = "ok"
      BY <1>2, <1>3, <2>2 DEF Gone
    <3>2. CASE j = at
      BY <1>10, <3>1, <3>2
    <3>3. CASE j # at
      BY <1>1, <1>3, <1>5, <1>10, <2>2, <3>1, <3>3 DEF Verdicts
    <3> QED
      BY <3>2, <3>3
  <2> QED
    BY <1>3, <2>1, <2>2 DEF Verdicts
<1>16. CancelsItsOwn'
  BY <1>1, <1>2, <1>3 DEF CancelsItsOwn
<1>17. OnlyUntimedSucceeds'
  <2> SUFFICES ASSUME NEW i \in Awaits, verdict'[i] # "none"
               PROVE  /\ \A j \in 1 .. (i - 1) : verdict'[j] = "ok"
                      /\ verdict'[i] = "timeout" <=> timed_out[i]
    BY <1>2, <1>3 DEF OnlyUntimedSucceeds
  <2>1. CASE i = at
    <3>1. \A j \in 1 .. (at - 1) : verdict[j] = "ok" /\ j \in Awaits /\ j # at
      BY <1>1, <1>3, <1>5 DEF Verdicts
    <3> QED
      BY <1>7, <1>10, <2>1, <3>1
  <2>2. CASE i # at
    <3>1. i < at
      BY <1>1, <1>10, <2>2 DEF Verdicts
    <3>2. \A j \in 1 .. (i - 1) : j \in Awaits /\ j # at
      BY <1>3, <1>5, <3>1
    <3> QED
      BY <1>1, <1>10, <2>2, <3>2 DEF OnlyUntimedSucceeds
  <2> QED
    BY <2>1, <2>2
<1> QED
  BY <1>1, <1>12, <1>13, <1>14, <1>15, <1>16, <1>17 DEF AwaitInv

\* Every step of the wrappers preserves the invariant.
LEMMA AwaitInvariant == Spec => []AwaitInv
<1>1. AwaitInv /\ [Next]_vars => AwaitInv'
  <2>1. CASE UNCHANGED vars
    BY <2>1, InvKept DEF vars
  <2> QED
    BY <2>1, StepBegin, StepQueues, StepRunTimer, StepRunStep, StepResume
    DEF Next, Loop, ResumeAny
<1> QED
  BY <1>1, AwaitInvInit, PTL DEF Spec

-----------------------------------------------------------------------------
(***************************************************************************)
(* The attempt: each of its steps is a step of its wrappers or leaves them *)
(* alone, and likewise of its connection.                                  *)
(***************************************************************************)

\* An attempt is a coroutine that awaits with timeouts.
LEMMA AttemptAwaits == AttemptSpec => Spec
<1>1. AttemptInit => Init
  BY DEF AttemptInit
<1>2. [AttemptNext]_attemptVars => [Next]_vars
  <2>1. Start => Next
    BY DEF Start, Next
  <2>2. Resumed => Next
    BY DEF Resumed, Next, Loop, ResumeAny
  <2>3. TearDown => UNCHANGED vars
    BY DEF TearDown
  <2>4. Handled \/ Background => Next
    BY DEF Handled, Background, Next, Loop
  <2>5. UNCHANGED attemptVars => UNCHANGED vars
    BY DEF attemptVars
  <2> QED
    BY <2>1, <2>2, <2>3, <2>4, <2>5 DEF AttemptNext
<1> QED
  BY <1>1, <1>2, PTL DEF AttemptSpec, Spec

\* An attempt is an attempt of Connection.
LEMMA AttemptConnects == AttemptSpec => C!Spec
<1>1. AttemptInit => C!Init
  BY DEF AttemptInit
<1>2. [AttemptNext]_attemptVars => [C!Next]_(C!vars)
  <2>1. Start => C!Next
    BY DEF Start, C!Next
  <2>2. Resumed => C!Next
    BY DEF Resumed, Received, C!Next
  <2>3. TearDown => C!Next
    BY DEF TearDown, C!Next
  <2>4. UNCHANGED attempt => UNCHANGED C!vars
    BY DEF attempt, C!vars, C!progress, C!ending
  <2>5. UNCHANGED attemptVars => UNCHANGED attempt
    BY DEF attemptVars
  <2> QED
    BY <2>1, <2>2, <2>3, <2>4, <2>5 DEF AttemptNext
<1> QED
  BY <1>1, <1>2, PTL DEF AttemptSpec, C!Spec

\* A timer that expires cancels the operation of its own await or nothing: never
\* a later operation on the same socket, nor its teardown.
THEOREM TimersCancelTheirOwn == AttemptSpec => []CancelsItsOwn
<1>1. AwaitInv => CancelsItsOwn
  BY DEF AwaitInv
<1> QED
  BY <1>1, AttemptAwaits, AwaitInvariant, PTL

\* What was timed out is reported as a timeout, and nothing else is; the attempt
\* goes on only after operations that succeeded within their time.
THEOREM TimeoutsAreReported == AttemptSpec => []OnlyUntimedSucceeds
<1>1. AwaitInv => OnlyUntimedSucceeds
  BY DEF AwaitInv
<1> QED
  BY <1>1, AttemptAwaits, AwaitInvariant, PTL

-----------------------------------------------------------------------------
\* How far an attempt has come, by the operation it awaits.
Position ==
  /\ policy \in C!Policies
  /\ operation \in {"proxy connection", "proxy read"} => greeted
  /\ operation = "proxy read" => ~requested
  /\ operation \in {"handshake"} \cup C!Exchanging => (policy.proxied => greeted /\ granted)
  /\ operation \in C!Exchanging => (policy.tls => shaken)
  /\ C!RequestReachesTarget

\* Each operation is reached through the ones before it.
LEMMA StepPosition == Position /\ [C!Next]_(C!vars) => Position'
<1> USE DEF C!Exchanging, C!Connecting, C!RequestReachesTarget
<1> SUFFICES ASSUME Position, [C!Next]_(C!vars) PROVE Position'
  OBVIOUS
<1>1. CASE C!Start
  BY <1>1 DEF C!Start, C!progress, C!ending, Position
<1>2. CASE C!Fail
  BY <1>2 DEF C!Fail, C!Leave, C!progress, Position
<1>3. CASE C!Pass
  <2>1. UNCHANGED <<policy, greeted, granted, shaken>>
    BY <1>3 DEF C!Pass
  <2>2. operation' = C!After(policy, operation) /\ requested' = (operation = "make request")
    BY <1>3 DEF C!Pass
  <2>3. CASE operation \in {"resolve", "write auth"}
    BY <2>1, <2>2, <2>3 DEF C!After, Position
  <2>4. CASE operation = "connect"
    BY <2>1, <2>2, <2>4 DEF C!After, C!Secured, Position
  <2>5. CASE operation = "proxy connection"
    BY <2>1, <2>2, <2>5 DEF C!After, Position
  <2>6. CASE operation = "make request"
    BY <2>1, <2>2, <2>6 DEF C!After, Position
  <2> QED
    BY <1>3, <2>3, <2>4, <2>5, <2>6 DEF C!Pass
<1>4. CASE C!Handshake
  BY <1>4 DEF C!Handshake, C!After, C!ending, Position
<1>5. CASE C!Query
  BY <1>5 DEF C!Query, C!Leave, C!progress, Position
<1>6. ASSUME NEW version \in {4, 5}, NEW method \in {0, 255}, C!ReadAuth(version, method)
      PROVE  Position'
  BY <1>6 DEF C!ReadAuth, C!Leave, C!After, Position
<1>7. ASSUME NEW code \in {0, 1}, NEW size \in ReplySizes, C!ReadReply(code, size)
      PROVE  Position'
  <2>1. operation = "proxy read" /\ granted' = (code = 0)
        /\ UNCHANGED <<policy, greeted, shaken, requested>>
    BY <1>7 DEF C!ReadReply
  <2>2. CASE code = 0
    <3>1. operation' = C!Secured(policy)
      BY <1>7, <2>1, <2>2 DEF C!ReadReply, C!Refused, C!After
    <3> QED
      BY <2>1, <2>2, <3>1 DEF C!Secured, Position
  <2>3. CASE code # 0
    <3>1. operation' = "cleanup"
      BY <1>7, <2>3 DEF C!ReadReply, C!Refused, C!Leave
    <3> QED
      BY <2>1, <3>1 DEF Position
  <2> QED
    BY <2>2, <2>3
<1>8. ASSUME NEW ec \in C!CleanupCodes, C!Cleanup(ec) PROVE Position'
  BY <1>8 DEF C!Cleanup, C!progress, Position
<1>9. CASE UNCHANGED C!vars
  BY <1>9 DEF C!vars, C!progress, Position
<1> QED
  BY <1>1, <1>2, <1>3, <1>4, <1>5, <1>6, <1>7, <1>8, <1>9 DEF C!Next

\* Under every policy a request is written only to the target: through a proxy
\* that accepted the greeting and granted the tunnel, and inside TLS if asked.
THEOREM RequestsReachTheTarget == AttemptSpec => []RequestReachesTarget
<1>1. C!Init => Position
  BY DEF C!Init, Position, C!Exchanging, C!RequestReachesTarget
<1>2. Position => RequestReachesTarget
  BY DEF Position, RequestReachesTarget
<1> QED
  BY <1>1, <1>2, StepPosition, AttemptConnects, PTL DEF C!Spec

-----------------------------------------------------------------------------
\* The stream shakes hands last of all that connect awaits.
Unshaken == operation \in C!Connecting \cup {"start"} => ~shaken

\* Only the handshake shakes, and nothing leads back before it.
LEMMA StepUnshaken == Unshaken /\ [C!Next]_(C!vars) => Unshaken'
<1> USE DEF C!Connecting
<1> SUFFICES ASSUME Unshaken, [C!Next]_(C!vars) PROVE Unshaken'
  OBVIOUS
<1>1. CASE C!Handshake
  BY <1>1 DEF C!Handshake, C!After, Unshaken
<1>2. CASE C!Start \/ C!Fail \/ C!Pass \/ C!Query
  BY <1>2 DEF C!Start, C!Fail, C!Pass, C!Query, C!Leave, C!Exchanging, C!progress, C!After,
     Unshaken
<1>3. ASSUME NEW version \in {4, 5}, NEW method \in {0, 255}, C!ReadAuth(version, method)
      PROVE  Unshaken'
  BY <1>3 DEF C!ReadAuth, C!Leave, C!After, Unshaken
<1>4. ASSUME NEW code \in {0, 1}, NEW size \in ReplySizes, C!ReadReply(code, size)
      PROVE  Unshaken'
  BY <1>4 DEF C!ReadReply, C!Leave, C!After, Unshaken
<1>5. ASSUME NEW ec \in C!CleanupCodes, C!Cleanup(ec) PROVE Unshaken'
  BY <1>5 DEF C!Cleanup, C!progress, Unshaken
<1>6. CASE UNCHANGED C!vars
  BY <1>6 DEF C!vars, C!progress, Unshaken
<1> QED
  BY <1>1, <1>2, <1>3, <1>4, <1>5, <1>6 DEF C!Next

\* A change of the phase is one of the coroutine's.
LEMMA PhaseBecomes ==
  ASSUME NEW from, NEW to, C!Phase = from, C!Phase' = to
  PROVE  C!A!Becomes("coroutine", from, to)
  BY DEF C!A!Becomes

\* The four ways a phase changes, and none at all.
LEMMA PhaseMoves ==
  ASSUME UNCHANGED policy,
         \/ C!Phase = "idle" /\ C!Phase' = "connect"
         \/ C!Phase = "connect" /\ C!Phase' = "exchange"
         \/ /\ C!Phase = "connect"
            /\ C!Phase' \in IF policy.tls THEN {"discard", "teardown"} ELSE {"idle"}
         \/ C!Phase = "exchange" /\ C!Phase' = IF policy.tls THEN "teardown" ELSE "idle"
         \/ C!Phase \in {"discard", "teardown"} /\ C!Phase' = "idle"
         \/ C!Phase' = C!Phase
  PROVE  [C!A!Next]_<<[o \in {"coroutine"} |-> C!Phase], policy.tls>>
  BY PhaseBecomes DEF C!A!Next, C!A!Begin, C!A!Establish, C!A!GiveUp, C!A!Finish,
     C!A!Close, C!A!Closing

\* An attempt over any policy is, to the coroutine, a connection that is
\* established or given up, used, and torn down before the coroutine goes on.
LEMMA PhaseSteps ==
  ASSUME Position, Unshaken, [C!Next]_(C!vars)
  PROVE  [C!A!Next]_<<[o \in {"coroutine"} |-> C!Phase], policy.tls>>
<1> USE DEF C!Exchanging, C!Connecting
<1>0. policy.tls \in BOOLEAN
  BY DEF Position, C!Policies
<1>1. CASE C!Start
  BY <1>1, PhaseMoves DEF C!Start, C!Phase
<1>2. CASE C!Fail
  <2>1. operation' = "cleanup" /\ UNCHANGED policy
    BY <1>2 DEF C!Fail, C!Leave
  <2>2. CASE operation \in C!Connecting
    BY <1>0, <2>1, <2>2, PhaseMoves DEF C!Phase
  <2>3. CASE operation \in C!Exchanging
    <3>1. policy.tls => shaken'
      BY <1>2, <2>3 DEF C!Fail, Position
    <3> QED
      BY <2>1, <2>3, <3>1, PhaseMoves DEF C!Phase
  <2> QED
    BY <1>2, <2>2, <2>3 DEF C!Fail
<1>3. CASE C!Pass
  <2>1. operation' = C!After(policy, operation) /\ UNCHANGED <<policy, shaken>>
    BY <1>3 DEF C!Pass
  <2>2. CASE operation = "make request"
    BY <2>1, <2>2, PhaseMoves DEF C!After, C!Phase
  <2>3. CASE operation = "connect"
    <3>1. operation' \in {"write auth", "handshake", "make request"}
      BY <2>1, <2>3 DEF C!After, C!Secured
    <3> QED
      BY <2>1, <2>3, <3>1, PhaseMoves DEF C!Phase
  <2>4. CASE operation \in {"resolve", "write auth", "proxy connection"}
    <3>1. operation' \in {"connect", "read auth", "proxy read"}
      BY <2>1, <2>4 DEF C!After
    <3> QED
      BY <2>1, <2>4, <3>1, PhaseMoves DEF C!Phase
  <2> QED
    BY <1>3, <2>2, <2>3, <2>4 DEF C!Pass
<1>4. CASE C!Handshake
  <2>1. operation = "handshake" /\ operation' = "make request" /\ UNCHANGED policy
    BY <1>4 DEF C!Handshake, C!After
  <2> QED
    BY <2>1, PhaseMoves DEF C!Phase
<1>5. CASE C!Query
  <2>1. operation = "query" /\ operation' = "cleanup" /\ UNCHANGED <<policy, shaken>>
    BY <1>5 DEF C!Query, C!Leave, C!progress
  <2> QED
    BY <2>1, PhaseMoves DEF C!Phase, Position
<1>6. ASSUME operation \in {"read auth", "proxy read"}, UNCHANGED <<policy, shaken>>,
             operation' \in {"cleanup", "proxy connection", "handshake", "make request"}
      PROVE  [C!A!Next]_<<[o \in {"coroutine"} |-> C!Phase], policy.tls>>
  BY <1>6, PhaseMoves DEF C!Phase, Unshaken
<1>7. ASSUME NEW version \in {4, 5}, NEW method \in {0, 255}, C!ReadAuth(version, method)
      PROVE  [C!A!Next]_<<[o \in {"coroutine"} |-> C!Phase], policy.tls>>
  BY <1>6, <1>7 DEF C!ReadAuth, C!Leave, C!After
<1>8. ASSUME NEW code \in {0, 1}, NEW size \in ReplySizes, C!ReadReply(code, size)
      PROVE  [C!A!Next]_<<[o \in {"coroutine"} |-> C!Phase], policy.tls>>
  BY <1>6, <1>8 DEF C!ReadReply, C!Leave, C!After, C!Secured
<1>9. ASSUME NEW ec \in C!CleanupCodes, C!Cleanup(ec)
      PROVE  [C!A!Next]_<<[o \in {"coroutine"} |-> C!Phase], policy.tls>>
  <2>1. operation = "cleanup" /\ operation' = "over" /\ UNCHANGED policy
    BY <1>9 DEF C!Cleanup
  <2> QED
    BY <2>1, PhaseMoves DEF C!Phase
<1>10. CASE UNCHANGED C!vars
  BY <1>10, PhaseMoves DEF C!vars, C!progress, C!Phase
<1> QED
  BY <1>1, <1>2, <1>3, <1>4, <1>5, <1>7, <1>8, <1>9, <1>10 DEF C!Next

\* Connection implements Attempts, which the pool relies on.
THEOREM AttemptsAreClosed == AttemptSpec => ImplementsAttempts
<1>1. C!Init => Position /\ Unshaken
  BY DEF C!Init, Position, Unshaken, C!Exchanging, C!RequestReachesTarget
<1>2. C!Init => C!A!Init
  BY DEF C!Init, C!A!Init, C!Phase, C!Policies, C!Connecting, C!Exchanging
<1> QED
  BY <1>1, <1>2, StepPosition, StepUnshaken, PhaseSteps, AttemptConnects, PTL
  DEF C!Spec, ImplementsAttempts, C!ImplementsAttempts, C!A!Spec
=============================================================================
