---------------------------- MODULE AsyncSequence ----------------------------
(***************************************************************************)
(* mjlib/io/async_sequence.cc: operations one after the other, up to the   *)
(* first that fails.  A sequence is started once; an operation finishes in *)
(* its own time (external).                                                *)
(***************************************************************************)
EXTENDS Naturals, Sequences, FiniteSets

CONSTANT MaxItems   \* bound: operations added

VARIABLES
  sequence,   \* sequence_: numbers of the operations
  added,      \* operations added so far
  completion, \* completion_callback_: "none", "set", or "moved" once posted
  posted,     \* handlers posted to the executor
  running,    \* operations that were called and have not called back
  called,     \* history: operations that were called
  results     \* history: what the completion was called with

vars == <<sequence, added, completion, posted, running, called, results>>

Init ==
  /\ sequence = <<>> /\ added = 0 /\ completion = "none"
  /\ posted = <<>> /\ running = {} /\ called = <<>> /\ results = <<>>

\* BOOST_ASSERT(!completion_callback_)
Add ==
  /\ completion = "none" /\ added < MaxItems
  /\ added' = added + 1
  /\ sequence' = Append(sequence, added')
  /\ UNCHANGED <<completion, posted, running, called, results>>

\* Fault: the item stays at the front.
RunNextOperationAgain(rest) ==
  IF sequence = <<>>
  THEN posted' = Append(rest, [op |-> "done", ec |-> "ok"])
       /\ completion' = "moved" /\ UNCHANGED sequence
  ELSE posted' = Append(rest, [op |-> "run", item |-> Head(sequence)])
       /\ completion' = "set" /\ UNCHANGED sequence

RunNextOperation(rest) ==
  IF sequence = <<>>
  THEN posted' = Append(rest, [op |-> "done", ec |-> "ok"])
       /\ completion' = "moved" /\ UNCHANGED sequence
  ELSE posted' = Append(rest, [op |-> "run", item |-> Head(sequence)])
       /\ completion' = "set" /\ sequence' = Tail(sequence)

Start ==
  /\ completion = "none"
  /\ RunNextOperation(posted)
  /\ UNCHANGED <<added, running, called, results>>

RunItem ==
  /\ posted # <<>> /\ Head(posted).op = "run"
  /\ posted' = Tail(posted)
  /\ running' = running \cup {Head(posted).item}
  /\ called' = Append(called, Head(posted).item)
  /\ UNCHANGED <<sequence, added, completion, results>>

HandleCallback(item, ec) ==
  /\ item \in running
  /\ running' = running \ {item}
  /\ IF ec = "ok" THEN RunNextOperation(posted)
     ELSE /\ posted' = Append(posted, [op |-> "done", ec |-> ec])
          /\ completion' = "moved" /\ UNCHANGED sequence
  /\ UNCHANGED <<added, called, results>>

RunCompletion ==
  /\ posted # <<>> /\ Head(posted).op = "done"
  /\ posted' = Tail(posted)
  /\ results' = Append(results, Head(posted).ec)
  /\ UNCHANGED <<sequence, added, completion, running, called>>

Next ==
  \/ Add
  \/ Start
  \/ RunItem
  \/ \E item \in 1..MaxItems, ec \in {"ok", "error"} : HandleCallback(item, ec)
  \/ RunCompletion

Spec == Init /\ [][Next]_vars

-----------------------------------------------------------------------------
\* async_sequence.h:27-29: the operations run one after another in the order
\* in which they were added, and the completion is called once, after all of
\* them or after the first that failed, and nothing after it.
OneAfterAnother ==
  /\ Len(posted) + Cardinality(running) <= 1
  /\ \A i \in DOMAIN called : called[i] = i
  /\ Len(results) <= 1
  /\ results # <<>> => posted = <<>> /\ running = {}
  /\ results = <<"ok">> => Len(called) = added
=============================================================================
