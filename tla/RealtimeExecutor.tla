-------------------------- MODULE RealtimeExecutor --------------------------
(***************************************************************************)
(* mjlib/io/realtime_executor.h with mjlib/base/aborting_posix_timer.h: an *)
(* executor that ends the process when one event, or the time until the    *)
(* loop is idle again, takes too long.                                     *)
(***************************************************************************)
EXTENDS Naturals

CONSTANTS
  MaxWork,       \* bound: handlers that are waiting
  MaxExecutes    \* bound: handlers in all

VARIABLES
  waiting,     \* handlers given to the base executor
  inHandler,   \* a handler runs
  work,        \* outstanding_work_
  options,     \* options_: which timeouts are not zero
  eventTimer, idleTimer,   \* whether the timers are running
  nested,      \* history: the handler ran another one inline
  mixed,       \* history: options_ changed while there was work
  executes

vars == <<waiting, inHandler, work, options, eventTimer, idleTimer, nested, mixed, executes>>

Init ==
  /\ waiting = 0 /\ inHandler = FALSE /\ work = 0
  /\ options \in [event : BOOLEAN, idle : BOOLEAN]
  /\ eventTimer = FALSE /\ idleTimer = FALSE /\ nested = FALSE /\ mixed = FALSE /\ executes = 0

\* StartWork
StartWork ==
  /\ work' = work + 1
  /\ idleTimer' = (idleTimer \/ (work = 0 /\ options.idle))

\* post and defer, and the others where the base executor does not run the
\* callback inline; also from within a handler.
Execute ==
  /\ waiting < MaxWork /\ executes < MaxExecutes
  /\ waiting' = waiting + 1 /\ executes' = executes + 1
  /\ StartWork
  /\ UNCHANGED <<inHandler, options, eventTimer, nested, mixed>>

\* Wrap::operator(), up to the callback.
RunStart ==
  /\ waiting > 0 /\ ~inHandler
  /\ waiting' = waiting - 1
  /\ inHandler' = TRUE
  /\ eventTimer' = (eventTimer \/ options.event)
  /\ UNCHANGED <<work, options, idleTimer, nested, mixed, executes>>

\* Fault: the idle timer is stopped after every handler.
StopWorkAlways ==
  /\ work' = work - 1
  /\ idleTimer' = FALSE

StopWork ==
  /\ work' = work - 1
  /\ idleTimer' = (idleTimer /\ ~(work' = 0 /\ options.idle))

\* Wrap::operator(), after the callback.
RunEnd ==
  /\ inHandler
  /\ inHandler' = FALSE
  /\ eventTimer' = (eventTimer /\ ~options.event)
  /\ StopWork
  /\ nested' = FALSE
  /\ UNCHANGED <<waiting, options, mixed, executes>>

\* execute and dispatch from within a handler: the base executor runs the
\* callback inline, and its end stops the event timer.
ExecuteInline ==
  /\ inHandler /\ executes < MaxExecutes
  /\ executes' = executes + 1
  /\ eventTimer' = (eventTimer /\ ~options.event)
  /\ nested' = TRUE
  /\ UNCHANGED <<waiting, inHandler, work, options, idleTimer, mixed>>

SetOptions ==
  /\ \E o \in [event : BOOLEAN, idle : BOOLEAN] : options' = o
  /\ mixed' = (mixed \/ (work > 0 /\ options' # options))
  /\ UNCHANGED <<waiting, inHandler, work, eventTimer, idleTimer, nested, executes>>

Next == Execute \/ ExecuteInline \/ RunStart \/ RunEnd \/ SetOptions

Spec == Init /\ [][Next]_vars

-----------------------------------------------------------------------------
\* With options that do not change while there is work, the idle timer runs
\* exactly while some handler waits or runs, the event timer never outside of
\* a handler, and all the time in one that runs no callback inline.  After
\* such a callback the code times the rest of the handler no more (180-182, for
\* callbacks of 78-92), although realtime_executor.h:30-34 has it
\* that individual events are timed: of that rest nothing is asked.  (With a
\* change of options in between a timer may be left running, which ends the
\* process when the loop is idle.)
TimersMatchWork ==
  ~mixed => /\ idleTimer <=> (options.idle /\ (waiting > 0 \/ inHandler))
            /\ eventTimer => options.event /\ inHandler
            /\ options.event /\ inHandler /\ ~nested => eventTimer
=============================================================================
