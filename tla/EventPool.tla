----------------------------- MODULE EventPool -----------------------------
(***************************************************************************)
(* What an event queue promises its callers (micro/atomic_event_queue.h    *)
(* and micro/event_queue.h): an event that is accepted becomes pending, a  *)
(* pending event is run once, an event that is not accepted never runs.    *)
(* No order is promised.                                                   *)
(***************************************************************************)
CONSTANT Events

VARIABLES pending, ran, dropped

poolVars == <<pending, ran, dropped>>

Known == pending \cup ran \cup dropped

PoolInit == pending = {} /\ ran = {} /\ dropped = {}

Accept(e) ==
  /\ e \notin Known
  /\ pending' = pending \cup {e}
  /\ UNCHANGED <<ran, dropped>>

Run(e) ==
  /\ e \in pending
  /\ pending' = pending \ {e}
  /\ ran' = ran \cup {e}
  /\ UNCHANGED dropped

Drop(e) ==
  /\ e \notin Known
  /\ dropped' = dropped \cup {e}
  /\ UNCHANGED <<pending, ran>>

PoolNext == \E e \in Events : Accept(e) \/ Run(e) \/ Drop(e)

PoolSpec == PoolInit /\ [][PoolNext]_poolVars
=============================================================================
