--------------------------- MODULE RepeatingTimer ---------------------------
(***************************************************************************)
(* mjlib/io/repeating_timer.cc over the timers of                          *)
(* mjlib/io/debug_deadline_service.h: a callback at a fixed rate, with     *)
(* cycles that are skipped told as operation_aborted.  Handlers run in the *)
(* order in which they were posted.                                        *)
(***************************************************************************)
EXTENDS SequenceFilter, FiniteSets, SequencesExt

CONSTANTS
  Period,      \* Period[t]: the period of timer t
  MaxTime,     \* bound: how far the clock runs
  MaxStarts    \* bound: start() calls of a timer

Timers == DOMAIN Period

\* A timestamp that is_special().
Special == -1

VARIABLES
  now,         \* current_time_
  queue,       \* queue_: [time, timer], by time
  expires,     \* expires[t]: timestamp_
  callback,    \* callback[t]: callback_, the number of the start(), 0 if none
  posted,      \* handlers posted to the executor
  starts,      \* start() calls of each timer
  history      \* history[t]: when it was started, what it posted since, and
               \* what of it was left to run at the cancel

vars == <<now, queue, expires, callback, posted, starts, history>>

Wait(t, ec) == [op |-> "HandleTimer", timer |-> t, start |-> 0, ec |-> ec]
Call(t, start, ec) == [op |-> "callback", timer |-> t, start |-> start, ec |-> ec]

Init ==
  /\ now = 0 /\ queue = <<>> /\ posted = <<>>
  /\ expires = [t \in Timers |-> Special]
  /\ callback = [t \in Timers |-> 0]
  /\ starts = [t \in Timers |-> 0]
  /\ history = [t \in Timers |-> [at |-> 0, ticks |-> 0, skips |-> 0, left |-> 0]]

-----------------------------------------------------------------------------
(* DebugDeadlineService; q is its queue with what is posted. *)

Waits(q, t) == \E e \in ToSet(q.queue) : e.timer = t

\* What of a queue is due at a time, and what is not yet.
Due(q, time) == Keep(q, {e \in ToSet(q) : e.time <= time})
Later(q, time) == Keep(q, {e \in ToSet(q) : e.time > time})

\* Timer::cancel
CancelWait(q, t) ==
  [queue |-> Keep(q.queue, {e \in ToSet(q.queue) : e.timer # t}),
   posted |-> IF Waits(q, t) THEN Append(q.posted, Wait(t, "aborted")) ELSE q.posted]

\* Timer::async_wait: behind those with the same time.
AsyncWait(q, t, time) ==
  [q EXCEPT !.queue = Due(@, time) \o <<[time |-> time, timer |-> t]>> \o Later(@, time)]

SetTime(time) ==
  LET due == Due(queue, time) IN
    /\ now' = time
    /\ queue' = Later(queue, time)
    /\ posted' = posted \o [i \in DOMAIN due |-> Wait(due[i].timer, "ok")]
    /\ UNCHANGED <<expires, callback, starts, history>>

-----------------------------------------------------------------------------
Skipped(t) == expires[t] # Special /\ expires[t] + Period[t] < now

\* Fault: the period is counted from the time the handler runs.
NextExpiryFromNow(t) == now + Period[t]

NextExpiry(t) ==
  IF expires[t] = Special \/ Skipped(t) THEN now + Period[t]
  ELSE expires[t] + Period[t]

\* StartInternal for callback number "start"; what is posted before and after.
StartInternal(t, start, before, after) ==
  LET skip == IF Skipped(t) THEN <<Call(t, start, "aborted")>> ELSE <<>>
      q == AsyncWait(CancelWait([queue |-> queue, posted |-> before \o skip], t),
                     t, NextExpiry(t))
  IN /\ expires' = [expires EXCEPT ![t] = NextExpiry(t)]
     /\ queue' = q.queue
     /\ posted' = q.posted \o after

Start(t) ==
  /\ starts[t] < MaxStarts
  /\ starts' = [starts EXCEPT ![t] = @ + 1]
  /\ callback' = [callback EXCEPT ![t] = starts'[t]]
  /\ history' = [history EXCEPT ![t] = [at |-> now, ticks |-> 0, skips |-> 0, left |-> 0]]
  /\ StartInternal(t, starts'[t], posted, <<>>)
  /\ UNCHANGED now

CallsPosted(t) ==
  {i \in DOMAIN posted : posted[i].op = "callback" /\ posted[i].timer = t}

\* Fault: callback_ stays.
CancelKeeps(t) ==
  LET q == CancelWait([queue |-> queue, posted |-> posted], t) IN
    /\ callback[t] # 0
    /\ queue' = q.queue /\ posted' = q.posted
    /\ UNCHANGED <<now, expires, callback, starts, history>>

Cancel(t) ==
  LET q == CancelWait([queue |-> queue, posted |-> posted], t) IN
    /\ callback[t] # 0
    /\ callback' = [callback EXCEPT ![t] = 0]
    /\ queue' = q.queue /\ posted' = q.posted
    /\ history' = [history EXCEPT ![t].left = Cardinality(CallsPosted(t))]
    /\ UNCHANGED <<now, expires, starts>>

HandleTimer ==
  /\ posted # <<>> /\ Head(posted).op = "HandleTimer"
  /\ LET t == Head(posted).timer
         ec == Head(posted).ec
         tick == <<Call(t, callback[t], ec)>>
     IN IF callback[t] = 0
        THEN posted' = Tail(posted) /\ UNCHANGED <<queue, expires, history>>
        ELSE IF ec = "ok"
        THEN /\ StartInternal(t, callback[t], Tail(posted), tick)
             /\ history' = [history EXCEPT ![t].ticks = @ + 1,
                              ![t].skips = IF Skipped(t) THEN @ + 1 ELSE @]
        ELSE posted' = Tail(posted) \o tick /\ UNCHANGED <<queue, expires, history>>
  /\ UNCHANGED <<now, callback, starts>>

RunCallback ==
  /\ posted # <<>> /\ Head(posted).op = "callback"
  /\ posted' = Tail(posted)
  /\ UNCHANGED <<now, queue, expires, callback, starts, history>>

Next ==
  \/ \E time \in (now + 1)..MaxTime : SetTime(time)
  \/ \E t \in Timers : Start(t) \/ Cancel(t)
  \/ HandleTimer
  \/ RunCallback

Spec == Init /\ [][Next]_vars

-----------------------------------------------------------------------------
\* repeating_timer.h:29-33: a timer that was started once and not canceled
\* keeps its rate, however late its handlers run: while no skip was told, the
\* next deadline is a whole number of periods from the start, one more than
\* the callbacks so far.  It always has a wait pending or its end posted,
\* also when it is started anew while an old handler is posted.
KeepsRate ==
  \A t \in Timers : callback[t] # 0 =>
    /\ Waits([queue |-> queue], t) \/ Wait(t, "ok") \in ToSet(posted)
    /\ starts[t] = 1 /\ history[t].skips = 0 =>
         expires[t] = history[t].at + (history[t].ticks + 1) * Period[t]
    /\ \A i, j \in DOMAIN queue : i < j => queue[i].time <= queue[j].time

\* repeating_timer.h:44-46: after cancel() the callback is not enqueued any
\* more; only a call that was enqueued before may still run.
QuietAfterCancel ==
  \A t \in Timers :
    callback[t] = 0 => Cardinality(CallsPosted(t)) <= history[t].left
=============================================================================
