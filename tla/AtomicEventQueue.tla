-------------------------- MODULE AtomicEventQueue --------------------------
(***************************************************************************)
(* mjlib/micro/atomic_event_queue.h: a fixed array of entries, each an     *)
(* atomic state word and a callable.  Queue() may be called from any       *)
(* thread context, Poll() from one.  Every access to a std::atomic is one  *)
(* step (the default memory order is sequentially consistent); the two     *)
(* threads' steps interleave freely.  The accesses to entry.function are   *)
(* plain, so a step of its own at a program counter of its own: two        *)
(* threads whose counters name the same function at once are a data race.  *)
(*                                                                         *)
(* A Queue() made from inside a running callback is a producer whose steps *)
(* all fall while the poller is at "run".                                  *)
(***************************************************************************)
EXTENDS Integers, FiniteSets

CONSTANTS
  Producers,          \* thread contexts that call Queue()
  Events,             \* the callables handed to Queue(), each once
  Size,               \* template parameter Size: number of entries
  IgnoreFullOptions,  \* the values of Options::ignore_full callers use
  None                \* an empty inplace_function

ASSUME SizeAssumption == Size \in Nat \ {0}
ASSUME EventsAssumption == None \notin Events
ASSUME OptionsAssumption == IgnoreFullOptions \subseteq BOOLEAN
ASSUME ProducersAssumption == IsFiniteSet(Producers)

Slots == 1..Size

VARIABLES
  state,      \* entries_[s].state
  function,   \* entries_[s].function
  count,      \* count_
  pc,         \* pc[p]: the step of Queue() producer p is at
  idx,        \* idx[p]: the entry the loop of Queue() is at
  event,      \* event[p]: the argument of the Queue() call
  ignore,     \* ignore[p]: options.ignore_full of the call
  ppc,        \* the step of Poll() the poller is at
  pidx,       \* the entry the loop of Poll() is at
  copy,       \* the local variable of Poll()
  outcome,    \* outcome[e]: how far the Queue() call of e got
  runs,       \* runs[e]: how often the callable e was invoked
  failed      \* the MJ_ASSERT that aborted the process, or "no"

queueVars == <<pc, idx, event, ignore, outcome>>
pollVars == <<ppc, pidx, copy, runs>>
vars == <<state, function, count, queueVars, pollVars, failed>>

-----------------------------------------------------------------------------
\* std::atomic<int>::fetch_or of a single-bit mask
FetchOr(x, bit) == IF (x \div bit) % 2 = 1 THEN x ELSE x + bit

Init ==
  /\ state = [s \in Slots |-> 0]
  /\ function = [s \in Slots |-> None]
  /\ count = 0
  /\ pc = [p \in Producers |-> "idle"]
  /\ idx = [p \in Producers |-> 1]
  /\ event = [p \in Producers |-> None]
  /\ ignore = [p \in Producers |-> FALSE]
  /\ ppc = "idle"
  /\ pidx = 1
  /\ copy = None
  /\ outcome = [e \in Events |-> "new"]
  /\ runs = [e \in Events |-> 0]
  /\ failed = "no"

-----------------------------------------------------------------------------
(* Queue(), lines 37-63 *)

QueueCall(p) ==
  /\ pc[p] = "idle"
  /\ \E e \in Events, ign \in IgnoreFullOptions :
        /\ outcome[e] = "new"
        /\ outcome' = [outcome EXCEPT ![e] = "calling"]
        /\ event' = [event EXCEPT ![p] = e]
        /\ ignore' = [ignore EXCEPT ![p] = ign]
  /\ pc' = [pc EXCEPT ![p] = "load"]
  /\ idx' = [idx EXCEPT ![p] = 1]
  /\ UNCHANGED <<state, function, count, pollVars, failed>>

\* The loop goes to the next entry, or ends after the last one.
QueueAdvance(p) ==
  IF idx[p] = Size
  THEN /\ pc' = [pc EXCEPT ![p] = "full"]
       /\ UNCHANGED idx
  ELSE /\ pc' = [pc EXCEPT ![p] = "load"]
       /\ idx' = [idx EXCEPT ![p] = idx[p] + 1]

QueueLoad(p) ==
  /\ pc[p] = "load"
  /\ IF state[idx[p]] = 0
     THEN pc' = [pc EXCEPT ![p] = "claim"] /\ UNCHANGED idx
     ELSE QueueAdvance(p)
  /\ UNCHANGED <<state, function, count, event, ignore, outcome, pollVars,
                 failed>>

\* Fault: the result of the claiming fetch_or is not looked at.
QueueClaimUnchecked(p) ==
  /\ pc[p] = "claim"
  /\ state' = [state EXCEPT ![idx[p]] = FetchOr(state[idx[p]], 1)]
  /\ pc' = [pc EXCEPT ![p] = "write"]
  /\ UNCHANGED <<function, count, idx, event, ignore, outcome, pollVars,
                 failed>>

QueueClaim(p) ==
  /\ pc[p] = "claim"
  /\ state' = [state EXCEPT ![idx[p]] = FetchOr(state[idx[p]], 1)]
  /\ IF state[idx[p]] = 0
     THEN pc' = [pc EXCEPT ![p] = "write"] /\ UNCHANGED idx
     ELSE QueueAdvance(p)
  /\ UNCHANGED <<function, count, event, ignore, outcome, pollVars, failed>>

QueueWrite(p) ==
  /\ pc[p] = "write"
  /\ function' = [function EXCEPT ![idx[p]] = event[p]]
  /\ pc' = [pc EXCEPT ![p] = "set"]
  /\ UNCHANGED <<state, count, idx, event, ignore, outcome, pollVars, failed>>

QueueSet(p) ==
  /\ pc[p] = "set"
  /\ state' = [state EXCEPT ![idx[p]] = FetchOr(state[idx[p]], 2)]
  /\ failed' = IF state[idx[p]] = 1 THEN failed ELSE "should_be_1"
  /\ pc' = [pc EXCEPT ![p] = "inc"]
  /\ UNCHANGED <<function, count, idx, event, ignore, outcome, pollVars>>

QueueInc(p) ==
  /\ pc[p] = "inc"
  /\ count' = count + 1
  /\ outcome' = [outcome EXCEPT ![event[p]] = "queued"]
  /\ pc' = [pc EXCEPT ![p] = "idle"]
  /\ UNCHANGED <<state, function, idx, event, ignore, pollVars, failed>>

\* Every entry was passed over: discard the event, or abort.
QueueFull(p) ==
  /\ pc[p] = "full"
  /\ IF ignore[p]
     THEN /\ outcome' = [outcome EXCEPT ![event[p]] = "dropped"]
          /\ pc' = [pc EXCEPT ![p] = "idle"]
          /\ UNCHANGED failed
     ELSE /\ failed' = "full"
          /\ UNCHANGED <<pc, outcome>>
  /\ UNCHANGED <<state, function, count, idx, event, ignore, pollVars>>

QueueStep(p) ==
  \/ QueueLoad(p)
  \/ QueueClaim(p)
  \/ QueueWrite(p)
  \/ QueueSet(p)
  \/ QueueInc(p)
  \/ QueueFull(p)

-----------------------------------------------------------------------------
(* Poll(), lines 67-94 *)

PollCall ==
  /\ ppc = "idle"
  /\ ppc' = "count"
  /\ pidx' = 1
  /\ UNCHANGED <<state, function, count, queueVars, copy, runs, failed>>

PollAdvance ==
  IF pidx = Size
  THEN ppc' = "idle" /\ UNCHANGED pidx
  ELSE ppc' = "count" /\ pidx' = pidx + 1

\* Fault: an off-by-one in the early return.
PollCountOffByOne ==
  /\ ppc = "count"
  /\ ppc' = IF count <= 1 THEN "idle" ELSE "load"
  /\ UNCHANGED <<state, function, count, queueVars, pidx, copy, runs, failed>>

PollCount ==
  /\ ppc = "count"
  /\ ppc' = IF count = 0 THEN "idle" ELSE "load"
  /\ UNCHANGED <<state, function, count, queueVars, pidx, copy, runs, failed>>

PollLoad ==
  /\ ppc = "load"
  /\ IF state[pidx] = 3
     THEN ppc' = "claim" /\ UNCHANGED pidx
     ELSE PollAdvance
  /\ failed' = IF state[pidx] = 7 THEN "second_poller" ELSE failed
  /\ UNCHANGED <<state, function, count, queueVars, copy, runs>>

\* Fault: the entry is freed before its function is copied.
PollClaimFrees ==
  /\ ppc = "claim"
  /\ state' = [state EXCEPT ![pidx] = 0]
  /\ ppc' = "copy"
  /\ UNCHANGED <<function, count, queueVars, pidx, copy, runs, failed>>

\* Fault: the entry is not marked as being emptied.
PollClaimUnmarked ==
  /\ ppc = "claim"
  /\ ppc' = "copy"
  /\ UNCHANGED <<state, function, count, queueVars, pidx, copy, runs, failed>>

PollClaim ==
  /\ ppc = "claim"
  /\ state' = [state EXCEPT ![pidx] = FetchOr(state[pidx], 4)]
  /\ failed' = IF state[pidx] = 3 THEN failed ELSE "should_be_three"
  /\ ppc' = "copy"
  /\ UNCHANGED <<function, count, queueVars, pidx, copy, runs>>

PollCopy ==
  /\ ppc = "copy"
  /\ copy' = function[pidx]
  /\ ppc' = "clear"
  /\ UNCHANGED <<state, function, count, queueVars, pidx, runs, failed>>

PollClear ==
  /\ ppc = "clear"
  /\ function' = [function EXCEPT ![pidx] = None]
  /\ ppc' = "free"
  /\ UNCHANGED <<state, count, queueVars, pidx, copy, runs, failed>>

PollFree ==
  /\ ppc = "free"
  /\ state' = [state EXCEPT ![pidx] = 0]
  /\ failed' = IF state[pidx] = 7 THEN failed ELSE "should_be_7"
  /\ ppc' = "run"
  /\ UNCHANGED <<function, count, queueVars, pidx, copy, runs>>

\* Fault: a second call of the copy.
PollRunTwice ==
  /\ ppc = "run"
  /\ runs' = [runs EXCEPT ![copy] = runs[copy] + 1]
  /\ ppc' = IF runs[copy] = 0 THEN "run" ELSE "dec"
  /\ UNCHANGED <<state, function, count, queueVars, pidx, copy, failed>>

\* Invoking an empty inplace_function is an error of its own.
PollRun ==
  /\ ppc = "run"
  /\ IF copy = None
     THEN failed' = "empty_call" /\ UNCHANGED runs
     ELSE runs' = [runs EXCEPT ![copy] = runs[copy] + 1] /\ UNCHANGED failed
  /\ ppc' = "dec"
  /\ UNCHANGED <<state, function, count, queueVars, pidx, copy>>

\* Fault: count_ is not decremented.
PollDecForgotten ==
  /\ ppc = "dec"
  /\ PollAdvance
  /\ UNCHANGED <<state, function, count, queueVars, copy, runs, failed>>

PollDec ==
  /\ ppc = "dec"
  /\ count' = count - 1
  /\ PollAdvance
  /\ UNCHANGED <<state, function, queueVars, copy, runs, failed>>

PollStep ==
  \/ PollCount
  \/ PollLoad
  \/ PollClaim
  \/ PollCopy
  \/ PollClear
  \/ PollFree
  \/ PollRun
  \/ PollDec

-----------------------------------------------------------------------------
\* An MJ_ASSERT that fails ends the process.
Next ==
  /\ failed = "no"
  /\ \/ \E p \in Producers : QueueCall(p) \/ QueueStep(p)
     \/ PollCall
     \/ PollStep

Spec == Init /\ [][Next]_vars

\* A Queue() call in progress is a thread that keeps running; the owner of
\* the queue polls over and over.
Fairness ==
  /\ \A p \in Producers : WF_vars(failed = "no" /\ QueueStep(p))
  /\ WF_vars(failed = "no" /\ (PollCall \/ PollStep))

FairSpec == Spec /\ Fairness

-----------------------------------------------------------------------------
States == {0, 1, 3, 7}
QueuePCs == {"idle", "load", "claim", "write", "set", "inc", "full"}
PollPCs == {"idle", "count", "load", "claim", "copy", "clear", "free", "run",
            "dec"}
Failures == {"no", "full", "should_be_1", "second_poller", "should_be_three",
             "should_be_7", "empty_call"}

\* The state word of an entry only ever holds the four values the code
\* names (free, claimed, set, being emptied), and every other variable has
\* its type.
TypeOK ==
  /\ state \in [Slots -> States]
  /\ function \in [Slots -> Events \cup {None}]
  /\ count \in Int
  /\ pc \in [Producers -> QueuePCs]
  /\ idx \in [Producers -> Slots]
  /\ event \in [Producers -> Events \cup {None}]
  /\ ignore \in [Producers -> BOOLEAN]
  /\ ppc \in PollPCs
  /\ pidx \in Slots
  /\ copy \in Events \cup {None}
  /\ outcome \in [Events -> {"new", "calling", "queued", "dropped"}]
  /\ runs \in [Events -> Nat]
  /\ failed \in Failures

\* The thread that may touch entries_[s].function now: a producer between
\* its claim and its fetch_or(2), the poller between fetch_or(4) and
\* fetch_and(0).
Writing(p, s) == pc[p] \in {"write", "set"} /\ idx[p] = s
Emptying(s) == ppc \in {"copy", "clear", "free"} /\ pidx = s

\* No data race on entries_[s].function: never two producers, and never a
\* producer and the poller, hold the same entry.
NoDataRace ==
  /\ \A p, q \in Producers, s \in Slots :
        Writing(p, s) /\ Writing(q, s) => p = q
  /\ \A p \in Producers, s \in Slots : ~(Writing(p, s) /\ Emptying(s))

\* None of the assertions about the state word at lines 52, 77, 83 and 91
\* can fail, and Poll never invokes an empty function; only the "all full"
\* assertion of line 61 can.
OnlyFullAborts == failed \in {"no", "full"}

\* The event is in an entry whose state is set, or in the poller's hands
\* and not invoked yet.
InSlot(e) ==
  \E s \in Slots : state[s] \in {3, 7} /\ function[s] = e
InPoller(e) == ppc \in {"clear", "free", "run"} /\ copy = e

\* Each callable is invoked at most once, never when Queue discarded it,
\* and once Queue has returned it is either still held by the queue or has
\* been invoked: no event is lost between the producer and the poller.
ExactlyOnce ==
  \A e \in Events :
    /\ runs[e] <= 1
    /\ outcome[e] \in {"new", "dropped"} => runs[e] = 0 /\ ~InSlot(e)
    /\ outcome[e] = "queued" => (runs[e] = 1) # (InSlot(e) \/ InPoller(e))

SetSlots == {s \in Slots : state[s] \in {3, 7}}
Uncounted == {p \in Producers : pc[p] = "inc"}
Unsubtracted == IF ppc \in {"run", "dec"} THEN 1 ELSE 0

\* count_ is the number of set entries (line 103), but for the entries whose
\* producer has not incremented it yet and the event the poller has freed
\* and not subtracted yet; so it is exact whenever no call is in progress.
CountAccurate ==
  count = Cardinality(SetSlots) + Unsubtracted - Cardinality(Uncounted)

\* Every event whose Queue call returned is invoked in the end, even when
\* the poller skips entries because count_ lags behind the state words
\* (unless a Queue call that finds no entry aborts the process).
QueuedEventsRun ==
  \A e \in Events : outcome[e] = "queued" ~> runs[e] = 1 \/ failed = "full"

-----------------------------------------------------------------------------
(* The queue implements EventPool.  An event is accepted by the fetch_or(2)*)
(* of its producer, discarded by the return of Queue and run by the call   *)
(* of the poller's copy.                                                   *)

Pending == {e \in Events : InSlot(e) \/ InPoller(e)}
Ran == {e \in Events : runs[e] > 0}
Dropped == {e \in Events : outcome[e] = "dropped"}

Pool == INSTANCE EventPool
          WITH pending <- Pending, ran <- Ran, dropped <- Dropped

\* Every step of Queue and Poll is a step of the abstract pool of events or
\* leaves it alone: the races between producers and the poller never show.
ImplementsPool == Pool!PoolSpec
=============================================================================
