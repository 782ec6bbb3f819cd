----------------------- MODULE AtomicEventQueueProofs -----------------------
(***************************************************************************)
(* Proofs about AtomicEventQueue, for any number of producers, entries and *)
(* events.  The inductive invariant IInv says, for each entry, which       *)
(* thread its state word belongs to (SlotInv), what its function holds     *)
(* (FunctionInv) and, for each event, in how many places it is (EventInv). *)
(***************************************************************************)
EXTENDS AtomicEventQueue, FiniteSetTheorems, TLAPS

Active(p) == pc[p] # "idle"
Submitting(p) == pc[p] \in {"load", "claim", "write", "set", "full"}

\* The state word says who owns the entry: 1 while a producer fills it, 7
\* while the poller empties it, 3 when the poller is about to claim it.
SlotInv ==
  /\ \A p \in Producers : pc[p] \in {"write", "set"} => state[idx[p]] = 1
  /\ \A p, q \in Producers :
       /\ pc[p] \in {"write", "set"}
       /\ pc[q] \in {"write", "set"}
       /\ idx[p] = idx[q]
       => p = q
  /\ ppc = "claim" => state[pidx] = 3
  /\ \A s \in Slots : state[s] = 7 <=> Emptying(s)
  /\ failed \in {"no", "full"}

\* What the functions of set entries and the poller's copy hold.
FunctionInv ==
  /\ \A p \in Producers : Active(p) => event[p] \in Events
  /\ \A p \in Producers : pc[p] = "set" => function[idx[p]] = event[p]
  /\ \A s \in Slots : state[s] = 3 => function[s] \in Events
  /\ ppc \in {"copy", "clear"} => function[pidx] \in Events
  /\ ppc = "clear" => copy = function[pidx]
  /\ ppc = "free" => function[pidx] = None
  /\ ppc \in {"clear", "free", "run"} => copy \in Events

\* An event is in at most one place of the queue.
PlaceInv ==
  /\ \A s, t \in Slots :
       /\ state[s] \in {3, 7}
       /\ state[t] \in {3, 7}
       /\ function[s] = function[t]
       /\ function[s] \in Events
       => s = t
  /\ ppc \in {"free", "run"} =>
       \A s \in Slots : state[s] \in {3, 7} => function[s] # copy

\* An event is pending iff it was accepted and has not run.
EventInv ==
  /\ \A p \in Producers : Active(p) => outcome[event[p]] = "calling"
  /\ \A p, q \in Producers :
       Active(p) /\ Active(q) /\ event[p] = event[q] => p = q
  /\ \A p \in Producers :
       Submitting(p) => runs[event[p]] = 0 /\ event[p] \notin Pending
  /\ \A p \in Producers :
       pc[p] = "inc" => runs[event[p]] = 1 \/ event[p] \in Pending
  /\ \A e \in Events : runs[e] <= 1
  /\ \A e \in Events : e \in Pending => runs[e] = 0
  /\ \A e \in Events :
       outcome[e] \in {"new", "dropped"} => runs[e] = 0 /\ e \notin Pending
  /\ \A e \in Events : outcome[e] = "queued" => runs[e] = 1 \/ e \in Pending

IInv == TypeOK /\ SlotInv /\ FunctionInv /\ PlaceInv /\ EventInv

-----------------------------------------------------------------------------
\* The fetch_or calls of the code on the values a state word can have.
LEMMA FetchOrValues ==
  /\ FetchOr(0, 1) = 1
  /\ FetchOr(1, 1) = 1
  /\ FetchOr(3, 1) = 3
  /\ FetchOr(7, 1) = 7
  /\ FetchOr(1, 2) = 3
  /\ FetchOr(3, 4) = 7
BY DEF FetchOr

\* A step of the scan of Queue moves one producer and touches no entry.
LEMMA ScanEffect ==
  ASSUME TypeOK, NEW p \in Producers,
         \/ QueueLoad(p)
         \/ QueueClaim(p) /\ state[idx[p]] # 0
  PROVE  /\ pc[p] \in {"load", "claim"}
         /\ \E c \in {"claim", "load", "full"}, i \in Slots :
              /\ pc' = [pc EXCEPT ![p] = c]
              /\ idx' = [idx EXCEPT ![p] = i]
         /\ UNCHANGED <<state, function, count, event, ignore, outcome,
                        pollVars, failed>>
<1> USE SizeAssumption DEF TypeOK, Slots, States
<1>1. idx[p] = Size \/ idx[p] + 1 \in Slots
  OBVIOUS
<1>2. idx = [idx EXCEPT ![p] = idx[p]]
  OBVIOUS
<1>3. ASSUME QueueAdvance(p)
      PROVE  \E c \in {"claim", "load", "full"}, i \in Slots :
               /\ pc' = [pc EXCEPT ![p] = c]
               /\ idx' = [idx EXCEPT ![p] = i]
  BY <1>1, <1>2, <1>3 DEF QueueAdvance
<1>4. CASE QueueLoad(p)
  <2>1. CASE state[idx[p]] = 0
    BY <1>2, <1>4, <2>1 DEF QueueLoad
  <2>2. CASE state[idx[p]] # 0
    BY <1>3, <1>4, <2>2 DEF QueueLoad
  <2> QED BY <2>1, <2>2
<1>5. CASE QueueClaim(p) /\ state[idx[p]] # 0
  <2>1. FetchOr(state[idx[p]], 1) = state[idx[p]]
    BY <1>5, FetchOrValues
  <2>2. state' = [state EXCEPT ![idx[p]] = state[idx[p]]]
    BY <1>5, <2>1 DEF QueueClaim
  <2>3. state' = state
    BY <2>2
  <2> QED BY <1>3, <1>5, <2>3 DEF QueueClaim
<1> QED BY <1>4, <1>5

\* A producer that finds the entry free claims it.
LEMMA ClaimEffect ==
  ASSUME TypeOK, NEW p \in Producers, QueueClaim(p), state[idx[p]] = 0
  PROVE  /\ pc[p] = "claim"
         /\ pc' = [pc EXCEPT ![p] = "write"]
         /\ state' = [state EXCEPT ![idx[p]] = 1]
         /\ UNCHANGED <<function, count, idx, event, ignore, outcome,
                        pollVars, failed>>
BY FetchOrValues DEF QueueClaim

\* Each step keeps the types.  The state word stays among the four values
\* because each fetch_or finds the value its owner left there.
LEMMA TypeStep ==
  ASSUME IInv, Next
  PROVE  TypeOK'
<1> USE SizeAssumption DEF IInv, TypeOK, Slots, States, QueuePCs, PollPCs,
                           Failures, queueVars, pollVars
<1>1. ASSUME NEW p \in Producers, QueueCall(p) PROVE TypeOK'
  BY <1>1, OptionsAssumption DEF QueueCall
<1>2. ASSUME NEW p \in Producers,
             QueueLoad(p) \/ (QueueClaim(p) /\ state[idx[p]] # 0)
      PROVE  TypeOK'
  BY ZenonT(30), <1>2, ScanEffect
<1>3. ASSUME NEW p \in Producers, QueueClaim(p), state[idx[p]] = 0
      PROVE  TypeOK'
  BY ZenonT(30), <1>3, ClaimEffect
<1>4. ASSUME NEW p \in Producers, QueueWrite(p) PROVE TypeOK'
  BY <1>4 DEF QueueWrite
<1>5. ASSUME NEW p \in Producers, QueueSet(p) PROVE TypeOK'
  <2>1. FetchOr(state[idx[p]], 2) \in States
    BY <1>5, FetchOrValues DEF QueueSet, SlotInv
  <2> QED BY <1>5, <2>1 DEF QueueSet
<1>6. ASSUME NEW p \in Producers, QueueInc(p) PROVE TypeOK'
  BY <1>6 DEF QueueInc, FunctionInv, Active
<1>7. ASSUME NEW p \in Producers, QueueFull(p) PROVE TypeOK'
  BY <1>7 DEF QueueFull
<1>8. CASE PollCall
  BY <1>8 DEF PollCall
<1>9. CASE PollCount
  BY <1>9 DEF PollCount
<1>10. CASE PollLoad
  BY <1>10 DEF PollLoad, PollAdvance
<1>11. CASE PollClaim
  <2>1. FetchOr(state[pidx], 4) \in States
    BY <1>11, FetchOrValues DEF PollClaim, SlotInv
  <2> QED BY <1>11, <2>1 DEF PollClaim
<1>12. CASE PollCopy
  BY <1>12 DEF PollCopy
<1>13. CASE PollClear
  BY <1>13 DEF PollClear
<1>14. CASE PollFree
  BY <1>14 DEF PollFree
<1>15. CASE PollRun
  BY <1>15 DEF PollRun
<1>16. CASE PollDec
  BY <1>16 DEF PollDec, PollAdvance
<1> QED BY <1>1, <1>2, <1>3, <1>4, <1>5, <1>6, <1>7, <1>8, <1>9, <1>10, <1>11,
           <1>12, <1>13, <1>14, <1>15, <1>16 DEF Next, QueueStep, PollStep

\* Each step keeps the ownership of the entries.
LEMMA SlotStep ==
  ASSUME IInv, Next
  PROVE  SlotInv'
<1> USE SizeAssumption DEF IInv, TypeOK, SlotInv, Emptying, Slots, States,
                           QueuePCs, PollPCs, queueVars, pollVars
<1>0. failed = "no"
  BY DEF Next
<1>1. ASSUME NEW p \in Producers, QueueCall(p) PROVE SlotInv'
  BY <1>1 DEF QueueCall
<1>2. ASSUME NEW p \in Producers,
             QueueLoad(p) \/ (QueueClaim(p) /\ state[idx[p]] # 0)
      PROVE  SlotInv'
  <2>1. PICK c \in {"claim", "load", "full"}, i \in Slots :
          pc' = [pc EXCEPT ![p] = c] /\ idx' = [idx EXCEPT ![p] = i]
    BY <1>2, ScanEffect
  <2>2. pc[p] \notin {"write", "set"}
    BY <1>2, ScanEffect
  <2>3. \A q \in Producers : pc'[q] \in {"write", "set"} =>
          q # p /\ pc'[q] = pc[q] /\ idx'[q] = idx[q]
    BY <2>1
  <2> QED BY <1>2, <2>3, ScanEffect
<1>3. ASSUME NEW p \in Producers, QueueClaim(p), state[idx[p]] = 0
      PROVE  SlotInv'
  <2>1. \A q \in Producers : pc[q] \in {"write", "set"} => idx[q] # idx[p]
    BY <1>3
  <2>2. ~Emptying(idx[p]) /\ ~(ppc = "claim" /\ pidx = idx[p])
    BY <1>3
  <2>3. \A q \in Producers : pc'[q] \in {"write", "set"} =>
          q = p \/ (pc'[q] = pc[q] /\ idx[q] # idx[p])
    BY <1>3, <2>1, ClaimEffect
  <2>4. /\ state'[idx[p]] = 1
        /\ \A s \in Slots : s # idx[p] => state'[s] = state[s]
    BY <1>3, ClaimEffect
  <2>5. UNCHANGED <<idx, ppc, pidx, failed>>
    BY <1>3, ClaimEffect
  <2>6. \A q \in Producers : pc'[q] \in {"write", "set"} => state'[idx'[q]] = 1
    BY <2>3, <2>4, <2>5
  <2>7. \A q, r \in Producers :
          pc'[q] \in {"write", "set"} /\ pc'[r] \in {"write", "set"}
            /\ idx'[q] = idx'[r] => q = r
    BY <2>3, <2>5
  <2>8. \A s \in Slots : state'[s] = 7 <=> Emptying(s)'
    BY <2>2, <2>4, <2>5
  <2>9. ppc' = "claim" => state'[pidx'] = 3
    BY <2>2, <2>4, <2>5
  <2> QED BY <2>5, <2>6, <2>7, <2>8, <2>9
<1>4. ASSUME NEW p \in Producers, QueueWrite(p) PROVE SlotInv'
  BY <1>4 DEF QueueWrite
<1>5. ASSUME NEW p \in Producers, QueueSet(p) PROVE SlotInv'
  <2>1. state' = [state EXCEPT ![idx[p]] = 3] /\ state[idx[p]] = 1
    BY <1>5, FetchOrValues DEF QueueSet
  <2> QED BY <1>5, <2>1 DEF QueueSet
<1>6. ASSUME NEW p \in Producers, QueueInc(p) PROVE SlotInv'
  BY <1>6 DEF QueueInc
<1>7. ASSUME NEW p \in Producers, QueueFull(p) PROVE SlotInv'
  BY ZenonT(30), <1>7, <1>0 DEF QueueFull
<1>8. CASE PollCall
  BY <1>8 DEF PollCall
<1>9. CASE PollCount
  BY <1>9 DEF PollCount
<1>10. CASE PollLoad
  BY <1>10 DEF PollLoad, PollAdvance
<1>11. CASE PollClaim
  <2>1. state' = [state EXCEPT ![pidx] = 7] /\ state[pidx] = 3
    BY <1>11, FetchOrValues DEF PollClaim
  <2> QED BY <1>11, <2>1 DEF PollClaim
<1>12. CASE PollCopy
  BY <1>12 DEF PollCopy
<1>13. CASE PollClear
  BY <1>13 DEF PollClear
<1>14. CASE PollFree
  BY <1>14 DEF PollFree
<1>15. CASE PollRun
  BY <1>15, EventsAssumption DEF PollRun, FunctionInv
<1>16. CASE PollDec
  BY <1>16 DEF PollDec, PollAdvance
<1> QED BY <1>1, <1>2, <1>3, <1>4, <1>5, <1>6, <1>7, <1>8, <1>9, <1>10, <1>11,
           <1>12, <1>13, <1>14, <1>15, <1>16 DEF Next, QueueStep, PollStep

\* Each step keeps what the functions of the entries hold.
LEMMA FunctionStep ==
  ASSUME IInv, Next
  PROVE  FunctionInv'
<1> USE SizeAssumption DEF IInv, TypeOK, SlotInv, FunctionInv, Active,
                           Emptying, Slots, States, QueuePCs, PollPCs,
                           queueVars, pollVars
<1>1. ASSUME NEW p \in Producers, QueueCall(p) PROVE FunctionInv'
  BY <1>1 DEF QueueCall
<1>2. ASSUME NEW p \in Producers,
             QueueLoad(p) \/ (QueueClaim(p) /\ state[idx[p]] # 0)
      PROVE  FunctionInv'
  <2>1. PICK c \in {"claim", "load", "full"}, i \in Slots :
          pc' = [pc EXCEPT ![p] = c] /\ idx' = [idx EXCEPT ![p] = i]
    BY <1>2, ScanEffect
  <2>2. pc[p] \in {"load", "claim"}
    BY <1>2, ScanEffect
  <2>3. \A q \in Producers :
          /\ Active(q)' => Active(q)
          /\ pc'[q] = "set" => pc[q] = "set" /\ idx'[q] = idx[q]
    BY <2>1, <2>2
  <2> QED BY <1>2, <2>3, ScanEffect
<1>3. ASSUME NEW p \in Producers, QueueClaim(p), state[idx[p]] = 0
      PROVE  FunctionInv'
  BY <1>3, ClaimEffect
<1>4. ASSUME NEW p \in Producers, QueueWrite(p) PROVE FunctionInv'
  BY <1>4 DEF QueueWrite
<1>5. ASSUME NEW p \in Producers, QueueSet(p) PROVE FunctionInv'
  <2>1. state' = [state EXCEPT ![idx[p]] = 3] /\ state[idx[p]] = 1
    BY <1>5, FetchOrValues DEF QueueSet
  <2> QED BY <1>5, <2>1 DEF QueueSet
<1>6. ASSUME NEW p \in Producers, QueueInc(p) PROVE FunctionInv'
  BY <1>6 DEF QueueInc
<1>7. ASSUME NEW p \in Producers, QueueFull(p) PROVE FunctionInv'
  BY <1>7 DEF QueueFull
<1>8. CASE PollCall
  BY <1>8 DEF PollCall
<1>9. CASE PollCount
  BY <1>9 DEF PollCount
<1>10. CASE PollLoad
  BY <1>10 DEF PollLoad, PollAdvance
<1>11. CASE PollClaim
  <2>1. state' = [state EXCEPT ![pidx] = 7] /\ state[pidx] = 3
    BY <1>11, FetchOrValues DEF PollClaim
  <2> QED BY <1>11, <2>1 DEF PollClaim
<1>12. CASE PollCopy
  BY <1>12 DEF PollCopy
<1>13. CASE PollClear
  BY <1>13 DEF PollClear
<1>14. CASE PollFree
  BY <1>14 DEF PollFree
<1>15. CASE PollRun
  BY <1>15 DEF PollRun
<1>16. CASE PollDec
  BY <1>16 DEF PollDec, PollAdvance
<1> QED BY <1>1, <1>2, <1>3, <1>4, <1>5, <1>6, <1>7, <1>8, <1>9, <1>10, <1>11,
           <1>12, <1>13, <1>14, <1>15, <1>16 DEF Next, QueueStep, PollStep

-----------------------------------------------------------------------------
(* How each step changes the set of pending events. *)

\* A step that keeps the functions of the set entries keeps their events.
LEMMA PendingFrame ==
  ASSUME TypeOK,
         \A s \in Slots : state'[s] \in {3, 7} <=> state[s] \in {3, 7},
         \A s \in Slots : state[s] \in {3, 7} => function'[s] = function[s],
         \A e \in Events : InPoller(e)' <=> InPoller(e)
  PROVE  Pending' = Pending
BY DEF Pending, InSlot

\* The events a producer's step accepts: the fetch_or(2) alone makes one
\* pending.
LEMMA QueuePending ==
  ASSUME IInv, NEW p \in Producers, QueueCall(p) \/ QueueStep(p)
  PROVE  Pending' = IF pc[p] = "set" THEN Pending \cup {event[p]} ELSE Pending
<1> USE SizeAssumption DEF IInv, TypeOK, SlotInv, FunctionInv, Slots, States,
                           queueVars, pollVars
<1>1. UNCHANGED <<ppc, copy>>
  BY DEF QueueCall, QueueStep, QueueLoad, QueueClaim, QueueWrite, QueueSet,
         QueueInc, QueueFull
<1>2. \A e \in Events : InPoller(e)' <=> InPoller(e)
  BY <1>1 DEF InPoller
<1>3. CASE QueueCall(p) \/ QueueInc(p) \/ QueueFull(p)
  BY <1>2, <1>3, PendingFrame DEF QueueCall, QueueInc, QueueFull
<1>4. CASE QueueLoad(p) \/ (QueueClaim(p) /\ state[idx[p]] # 0)
  <2>1. UNCHANGED <<state, function>> /\ pc[p] # "set"
    BY <1>4, ScanEffect
  <2> QED BY <1>2, <2>1, PendingFrame
<1>5. CASE QueueClaim(p) /\ state[idx[p]] = 0
  <2>1. state' = [state EXCEPT ![idx[p]] = 1] /\ function' = function
        /\ pc[p] # "set"
    BY <1>5, ClaimEffect
  <2> QED BY <1>2, <1>5, <2>1, PendingFrame
<1>6. CASE QueueWrite(p)
  <2>1. state' = state /\ pc[p] # "set" /\ state[idx[p]] = 1
        /\ function' = [function EXCEPT ![idx[p]] = event[p]]
    BY <1>6 DEF QueueWrite
  <2> QED BY <1>2, <2>1, PendingFrame
<1>7. CASE QueueSet(p)
  <2>1. /\ state' = [state EXCEPT ![idx[p]] = 3]
        /\ state[idx[p]] = 1
        /\ function' = function
        /\ pc[p] = "set"
        /\ function[idx[p]] = event[p]
        /\ event[p] \in Events
    BY <1>7, FetchOrValues DEF QueueSet, Active
  <2>2. \A e \in Events : InSlot(e)' <=> InSlot(e) \/ e = event[p]
    BY <2>1 DEF InSlot
  <2> QED BY <1>2, <2>1, <2>2 DEF Pending
<1> QED BY <1>3, <1>4, <1>5, <1>6, <1>7 DEF QueueStep

\* The poller's call of its copy alone takes an event out.
LEMMA PollPending ==
  ASSUME IInv, PollCall \/ PollStep
  PROVE  Pending' = IF ppc = "run" THEN Pending \ {copy} ELSE Pending
<1> USE SizeAssumption DEF IInv, TypeOK, SlotInv, FunctionInv, Slots, States,
                           Emptying, InPoller, queueVars, pollVars
<1>1. CASE PollCall \/ PollCount
  BY <1>1, PendingFrame DEF PollCall, PollCount
<1>2. CASE PollLoad \/ PollDec
  BY <1>2, PendingFrame DEF PollLoad, PollDec, PollAdvance
<1>3. CASE PollClaim
  <2>1. state' = [state EXCEPT ![pidx] = 7] /\ state[pidx] = 3
    BY <1>3, FetchOrValues DEF PollClaim
  <2> QED BY <1>3, <2>1, PendingFrame DEF PollClaim
<1>4. CASE PollCopy
  <2>1. UNCHANGED <<state, function>> /\ state[pidx] = 7
        /\ ppc' = "clear" /\ copy' = function[pidx] /\ ppc = "copy"
    BY <1>4 DEF PollCopy
  <2>2. \A e \in Events : InPoller(e)' => InSlot(e)
    BY <2>1 DEF InSlot
  <2>3. \A e \in Events : InSlot(e)' <=> InSlot(e)
    BY <2>1 DEF InSlot
  <2>4. \A e \in Events : ~InPoller(e)
    BY <2>1
  <2> QED BY <2>1, <2>2, <2>3, <2>4 DEF Pending
<1>5. CASE PollClear
  <2>1. /\ state' = state
        /\ function' = [function EXCEPT ![pidx] = None]
        /\ copy' = copy
        /\ ppc = "clear"
        /\ ppc' = "free"
        /\ copy = function[pidx]
    BY <1>5 DEF PollClear
  <2>2. \A e \in Events : InSlot(e)' => InSlot(e)
    BY <2>1, EventsAssumption DEF InSlot
  <2>3. \A e \in Events : InSlot(e) => InSlot(e)' \/ e = copy
    BY <2>1 DEF InSlot
  <2>4. \A e \in Events : InPoller(e)' <=> e = copy
    BY <2>1
  <2>5. \A e \in Events : InPoller(e) <=> e = copy
    BY <2>1
  <2> QED BY <2>1, <2>2, <2>3, <2>4, <2>5 DEF Pending
<1>6. CASE PollFree
  <2>1. /\ state' = [state EXCEPT ![pidx] = 0]
        /\ function' = function
        /\ copy' = copy
        /\ ppc = "free"
        /\ ppc' = "run"
        /\ function[pidx] = None
    BY <1>6 DEF PollFree
  <2>2. \A e \in Events : InSlot(e)' <=> InSlot(e)
    BY <2>1, EventsAssumption DEF InSlot
  <2>3. \A e \in Events : InPoller(e)' <=> InPoller(e)
    BY <2>1
  <2> QED BY <2>1, <2>2, <2>3 DEF Pending
<1>7. CASE PollRun
  <2>1. UNCHANGED <<state, function, copy>> /\ ppc = "run" /\ ppc' = "dec"
    BY <1>7 DEF PollRun
  <2>2. \A e \in Events : InSlot(e)' <=> InSlot(e)
    BY <2>1 DEF InSlot
  <2>3. ~InSlot(copy)
    BY <2>1 DEF InSlot, PlaceInv
  <2>4. \A e \in Events : ~InPoller(e)' /\ (InPoller(e) <=> e = copy)
    BY <2>1
  <2> QED BY <2>1, <2>2, <2>3, <2>4 DEF Pending
<1> QED BY <1>1, <1>2, <1>3, <1>4, <1>5, <1>6, <1>7 DEF PollStep

-----------------------------------------------------------------------------
\* Each step keeps every event in at most one place.
LEMMA PlaceStep ==
  ASSUME IInv, Next
  PROVE  PlaceInv'
<1> USE SizeAssumption, EventsAssumption
    DEF IInv, TypeOK, SlotInv, FunctionInv, PlaceInv, Emptying, Slots, States,
        queueVars, pollVars
<1>1. ASSUME NEW p \in Producers, QueueCall(p) \/ QueueInc(p) \/ QueueFull(p)
      PROVE  PlaceInv'
  BY SMTT(30), <1>1 DEF QueueCall, QueueInc, QueueFull
<1>2. ASSUME NEW p \in Producers,
             QueueLoad(p) \/ (QueueClaim(p) /\ state[idx[p]] # 0)
      PROVE  PlaceInv'
  BY <1>2, ScanEffect
<1>3. ASSUME NEW p \in Producers, QueueClaim(p), state[idx[p]] = 0
      PROVE  PlaceInv'
  BY SMTT(30), <1>3, ClaimEffect
<1>4. ASSUME NEW p \in Producers, QueueWrite(p) PROVE PlaceInv'
  BY <1>4 DEF QueueWrite
<1>5. ASSUME NEW p \in Producers, QueueSet(p) PROVE PlaceInv'
  <2>1. /\ state' = [state EXCEPT ![idx[p]] = 3]
        /\ state[idx[p]] = 1
        /\ UNCHANGED <<function, ppc, pidx, copy>>
        /\ function[idx[p]] = event[p]
        /\ event[p] \in Events
    BY <1>5, FetchOrValues DEF QueueSet, Active
  <2>2. event[p] \notin Pending
    BY <1>5 DEF QueueSet, EventInv, Submitting
  <2>3. \A s \in Slots : state[s] \in {3, 7} => function[s] # event[p]
    BY <2>1, <2>2 DEF Pending, InSlot
  <2>4. ppc \in {"free", "run"} => copy # event[p]
    BY <2>1, <2>2 DEF Pending, InPoller
  <2> QED BY <2>1, <2>3, <2>4
<1>6. CASE PollCall \/ PollCount
  BY <1>6 DEF PollCall, PollCount
<1>7. CASE PollLoad \/ PollDec
  BY <1>7 DEF PollLoad, PollDec, PollAdvance
<1>8. CASE PollClaim
  <2>1. state' = [state EXCEPT ![pidx] = 7] /\ state[pidx] = 3
    BY <1>8, FetchOrValues DEF PollClaim
  <2> QED BY <1>8, <2>1 DEF PollClaim
<1>9. CASE PollCopy
  BY <1>9 DEF PollCopy
<1>10. CASE PollClear
  BY <1>10 DEF PollClear
<1>11. CASE PollFree
  BY <1>11 DEF PollFree
<1>12. CASE PollRun
  BY <1>12 DEF PollRun
<1> QED BY <1>1, <1>2, <1>3, <1>4, <1>5, <1>6, <1>7, <1>8, <1>9, <1>10, <1>11,
           <1>12 DEF Next, QueueStep, PollStep

\* Each step keeps the account of where every event is.
LEMMA EventStep ==
  ASSUME IInv, Next
  PROVE  EventInv'
<1> USE DEF IInv, TypeOK, FunctionInv, EventInv, Active, Submitting, QueuePCs,
            queueVars, pollVars
<1>1. ASSUME NEW p \in Producers, QueueCall(p) PROVE EventInv'
  <2>1. Pending' = Pending
    BY <1>1, QueuePending DEF QueueCall
  <2> QED BY <1>1, <2>1 DEF QueueCall
<1>2. ASSUME NEW p \in Producers,
             QueueLoad(p) \/ (QueueClaim(p) /\ state[idx[p]] # 0)
      PROVE  EventInv'
  <2>1. Pending' = Pending
    BY <1>2, QueuePending, ScanEffect DEF QueueStep
  <2>2. PICK c \in {"claim", "load", "full"} : pc' = [pc EXCEPT ![p] = c]
    BY <1>2, ScanEffect
  <2>3. pc[p] \in {"load", "claim"} /\ UNCHANGED <<event, outcome, runs>>
    BY <1>2, ScanEffect
  <2> QED BY <2>1, <2>2, <2>3
<1>3. ASSUME NEW p \in Producers, QueueClaim(p), state[idx[p]] = 0
      PROVE  EventInv'
  <2>1. Pending' = Pending
    BY <1>3, QueuePending, ClaimEffect DEF QueueStep
  <2> QED BY <1>3, <2>1, ClaimEffect
<1>4. ASSUME NEW p \in Producers, QueueWrite(p) PROVE EventInv'
  <2>1. Pending' = Pending
    BY <1>4, QueuePending DEF QueueStep, QueueWrite
  <2> QED BY <1>4, <2>1 DEF QueueWrite
<1>5. ASSUME NEW p \in Producers, QueueSet(p) PROVE EventInv'
  <2>1. Pending' = Pending \cup {event[p]}
    BY <1>5, QueuePending DEF QueueStep, QueueSet
  <2> QED BY <1>5, <2>1 DEF QueueSet
<1>6. ASSUME NEW p \in Producers, QueueInc(p) PROVE EventInv'
  <2>1. Pending' = Pending
    BY <1>6, QueuePending DEF QueueStep, QueueInc
  <2> QED BY <1>6, <2>1 DEF QueueInc
<1>7. ASSUME NEW p \in Producers, QueueFull(p) PROVE EventInv'
  <2>1. Pending' = Pending
    BY <1>7, QueuePending DEF QueueStep, QueueFull
  <2> QED BY <1>7, <2>1 DEF QueueFull
<1>8. CASE PollCall \/ (PollStep /\ ~PollRun)
  <2>1. UNCHANGED <<queueVars, runs>> /\ ppc # "run"
    BY <1>8 DEF PollCall, PollStep, PollCount, PollLoad, PollClaim, PollCopy,
                PollClear, PollFree, PollDec
  <2>2. Pending' = Pending
    BY <1>8, <2>1, PollPending
  <2> QED BY <2>1, <2>2
<1>9. CASE PollRun
  <2>1. Pending' = Pending \ {copy} /\ ppc = "run"
    BY <1>9, PollPending DEF PollStep, PollRun
  <2>2. copy \in Events /\ copy \in Pending
    BY <2>1 DEF Pending, InPoller
  <2>3. runs' = [runs EXCEPT ![copy] = 1] /\ UNCHANGED queueVars
    BY <1>9, <2>1, <2>2, EventsAssumption DEF PollRun
  <2> QED BY <2>1, <2>2, <2>3
<1> QED BY <1>1, <1>2, <1>3, <1>4, <1>5, <1>6, <1>7, <1>8, <1>9
        DEF Next, QueueStep

\* IInv is an invariant of the specification.
THEOREM Inductive == Spec => []IInv
<1>1. Init => IInv
  BY SizeAssumption, EventsAssumption
  DEF Init, IInv, TypeOK, SlotInv, FunctionInv, PlaceInv, EventInv, Slots,
      States, QueuePCs, PollPCs, Failures, Active, Submitting, Emptying,
      Pending, InSlot, InPoller
<1>2. IInv /\ [Next]_vars => IInv'
  <2>1. CASE Next
    BY <2>1, TypeStep, SlotStep, FunctionStep, PlaceStep, EventStep DEF IInv
  <2>2. CASE UNCHANGED vars
    BY <2>2 DEF IInv, TypeOK, SlotInv, FunctionInv, PlaceInv, EventInv,
      Active, Submitting, Emptying, Pending, InSlot, InPoller, vars,
      queueVars, pollVars
  <2> QED BY <2>1, <2>2
<1> QED BY <1>1, <1>2, PTL DEF Spec

-----------------------------------------------------------------------------
(* The properties. *)

\* Every variable keeps its type, and every state word is one of the four
\* values free, claimed, set and being emptied.
THEOREM TypeCorrect == Spec => []TypeOK
<1>1. IInv => TypeOK
  BY DEF IInv
<1> QED BY <1>1, Inductive, PTL

\* The plain accesses to entry.function at lines 49, 79 and 80 never race.
THEOREM RaceFreedom == Spec => []NoDataRace
<1>1. IInv => NoDataRace
  BY DEF IInv, TypeOK, SlotInv, NoDataRace, Writing, Emptying
<1> QED BY <1>1, Inductive, PTL

\* The assertions on the state word hold, and no empty function is called.
THEOREM AssertionsHold == Spec => []OnlyFullAborts
<1>1. IInv => OnlyFullAborts
  BY DEF IInv, SlotInv, OnlyFullAborts
<1> QED BY <1>1, Inductive, PTL

\* An accepted event is never lost and never run twice; a discarded one
\* never runs.
THEOREM RunsExactlyOnce == Spec => []ExactlyOnce
<1>1. IInv => ExactlyOnce
  BY DEF IInv, TypeOK, EventInv, ExactlyOnce, Pending
<1> QED BY <1>1, Inductive, PTL

\* The queue refines the abstract pool of events: each step of Queue and
\* Poll accepts, runs or drops one event, or changes nothing.
THEOREM Refinement == Spec => ImplementsPool
<1>1. Init => Pool!PoolInit
  BY SizeAssumption
  DEF Init, Pool!PoolInit, Pending, Ran, Dropped, InSlot, InPoller, Slots
<1>2. IInv /\ [Next]_vars => [Pool!PoolNext]_(Pool!poolVars)
  <2> SUFFICES ASSUME IInv, [Next]_vars
               PROVE  Pool!PoolNext \/ UNCHANGED <<Pending, Ran, Dropped>>
    BY DEF Pool!poolVars
  <2> USE DEF IInv, TypeOK, FunctionInv, EventInv, Active, Submitting,
              queueVars, pollVars
  <2>1. ASSUME NEW p \in Producers, QueueSet(p) PROVE Pool!Accept(event[p])
    <3>1. Pending' = Pending \cup {event[p]}
      BY <2>1, QueuePending DEF QueueStep, QueueSet
    <3>2. UNCHANGED <<Ran, Dropped>>
      BY <2>1 DEF QueueSet, Ran, Dropped
    <3>3. event[p] \notin Pending \cup Ran \cup Dropped
      BY <2>1 DEF QueueSet, Ran, Dropped
    <3> QED BY <3>1, <3>2, <3>3 DEF Pool!Accept, Pool!Known
  <2>2. ASSUME NEW p \in Producers, QueueFull(p)
        PROVE  Pool!Drop(event[p]) \/ UNCHANGED <<Pending, Ran, Dropped>>
    <3>1. Pending' = Pending /\ Ran' = Ran
      BY <2>2, QueuePending DEF QueueStep, QueueFull, Ran
    <3>2. CASE ignore[p]
      <4>1. Dropped' = Dropped \cup {event[p]}
        BY <2>2, <3>2 DEF QueueFull, Dropped
      <4>2. event[p] \notin Pending \cup Ran \cup Dropped
        BY <2>2 DEF QueueFull, Ran, Dropped
      <4> QED BY <3>1, <4>1, <4>2 DEF Pool!Drop, Pool!Known
    <3>3. CASE ~ignore[p]
      BY <2>2, <3>1, <3>3 DEF QueueFull, Dropped
    <3> QED BY <3>2, <3>3
  <2>3. ASSUME NEW p \in Producers,
               \/ QueueCall(p) \/ QueueLoad(p) \/ QueueClaim(p)
               \/ QueueWrite(p) \/ QueueInc(p)
        PROVE  UNCHANGED <<Pending, Ran, Dropped>>
    <3>1. pc[p] # "set" /\ runs' = runs
      BY <2>3 DEF QueueCall, QueueLoad, QueueClaim, QueueWrite, QueueInc
    <3>2. Pending' = Pending /\ Ran' = Ran
      BY <2>3, <3>1, QueuePending DEF QueueStep, Ran
    <3>3. Dropped' = Dropped
      BY <2>3 DEF QueueCall, QueueLoad, QueueClaim, QueueWrite, QueueInc,
                  Dropped
    <3> QED BY <3>2, <3>3
  <2>4. CASE PollRun
    <3>1. Pending' = Pending \ {copy} /\ ppc = "run"
      BY <2>4, PollPending DEF PollStep, PollRun
    <3>2. copy \in Events /\ copy \in Pending
      BY <3>1 DEF Pending, InPoller
    <3>3. runs' = [runs EXCEPT ![copy] = 1] /\ outcome' = outcome
      BY <2>4, <3>2, EventsAssumption DEF PollRun
    <3>4. Ran' = Ran \cup {copy} /\ Dropped' = Dropped
      BY <3>2, <3>3 DEF Ran, Dropped
    <3>5. Pool!Run(copy)
      BY <3>1, <3>2, <3>4 DEF Pool!Run
    <3> QED BY <3>2, <3>5 DEF Pool!PoolNext
  <2>5. CASE PollCall \/ (PollStep /\ ~PollRun)
    <3>1. UNCHANGED <<outcome, runs>> /\ ppc # "run"
      BY <2>5 DEF PollCall, PollStep, PollCount, PollLoad, PollClaim,
                  PollCopy, PollClear, PollFree, PollDec
    <3>2. Pending' = Pending
      BY <2>5, <3>1, PollPending
    <3> QED BY <3>1, <3>2 DEF Ran, Dropped
  <2>6. CASE UNCHANGED vars
    BY <2>6 DEF vars, Pending, Ran, Dropped, InSlot, InPoller
  <2>7. \A p \in Producers : pc[p] \in {"set", "full"} => event[p] \in Events
    OBVIOUS
  <2>8. ASSUME NEW p \in Producers, QueueSet(p) PROVE Pool!PoolNext
    BY <2>1, <2>7, <2>8 DEF QueueSet, Pool!PoolNext
  <2>9. ASSUME NEW p \in Producers, QueueFull(p)
        PROVE  Pool!PoolNext \/ UNCHANGED <<Pending, Ran, Dropped>>
    BY <2>2, <2>7, <2>9 DEF QueueFull, Pool!PoolNext
  <2> QED BY <2>3, <2>4, <2>5, <2>6, <2>8, <2>9 DEF Next, QueueStep
<1> QED BY <1>1, <1>2, Inductive, PTL DEF Spec, ImplementsPool, Pool!PoolSpec

-----------------------------------------------------------------------------
(* The counter. *)

\* The sets that CountAccurate counts are finite.
LEMMA CountFinite ==
  ASSUME TypeOK
  PROVE  /\ IsFiniteSet(SetSlots) /\ Cardinality(SetSlots) \in Nat
         /\ IsFiniteSet(Uncounted) /\ Cardinality(Uncounted) \in Nat
<1>1. IsFiniteSet(Slots)
  BY SizeAssumption, FS_Interval DEF Slots
<1>2. SetSlots \subseteq Slots /\ Uncounted \subseteq Producers
  BY DEF SetSlots, Uncounted
<1> QED BY <1>1, <1>2, ProducersAssumption, FS_Subset, FS_CardinalityType

\* Each step keeps count_ accurate.
LEMMA CountStep ==
  ASSUME IInv, Next, CountAccurate
  PROVE  CountAccurate'
<1> USE SizeAssumption DEF IInv, TypeOK, SlotInv, Emptying, Slots, States,
                           QueuePCs, queueVars, pollVars
<1>0. /\ IsFiniteSet(SetSlots) /\ Cardinality(SetSlots) \in Nat
      /\ IsFiniteSet(Uncounted) /\ Cardinality(Uncounted) \in Nat
  BY CountFinite
<1>1. ASSUME SetSlots' = SetSlots, Uncounted' = Uncounted,
             Unsubtracted' = Unsubtracted, count' = count
      PROVE  CountAccurate'
  BY <1>1 DEF CountAccurate
<1>2. ASSUME NEW p \in Producers,
             QueueCall(p) \/ QueueWrite(p) \/ QueueFull(p)
      PROVE  CountAccurate'
  BY <1>1, <1>2 DEF QueueCall, QueueWrite, QueueFull, SetSlots, Uncounted,
                    Unsubtracted
<1>3. ASSUME NEW p \in Producers,
             QueueLoad(p) \/ (QueueClaim(p) /\ state[idx[p]] # 0)
      PROVE  CountAccurate'
  <2>1. PICK c \in {"claim", "load", "full"} : pc' = [pc EXCEPT ![p] = c]
    BY <1>3, ScanEffect
  <2>2. pc[p] \in {"load", "claim"} /\ UNCHANGED <<state, ppc, count>>
    BY <1>3, ScanEffect
  <2> QED BY <1>1, <2>1, <2>2 DEF SetSlots, Uncounted, Unsubtracted
<1>4. ASSUME NEW p \in Producers, QueueClaim(p), state[idx[p]] = 0
      PROVE  CountAccurate'
  <2>1. UNCHANGED <<SetSlots, Uncounted, Unsubtracted, count>>
    BY <1>4, ClaimEffect DEF SetSlots, Uncounted, Unsubtracted
  <2> QED BY <1>1, <2>1
<1>5. ASSUME NEW p \in Producers, QueueSet(p) PROVE CountAccurate'
  <2>1. state' = [state EXCEPT ![idx[p]] = 3] /\ state[idx[p]] = 1
    BY <1>5, FetchOrValues DEF QueueSet
  <2>2. SetSlots' = SetSlots \cup {idx[p]} /\ idx[p] \notin SetSlots
    BY <2>1 DEF SetSlots
  <2>3. Uncounted' = Uncounted \cup {p} /\ p \notin Uncounted
    BY <1>5 DEF QueueSet, Uncounted
  <2>4. Cardinality(SetSlots') = Cardinality(SetSlots) + 1
    BY <1>0, <2>2, FS_AddElement
  <2>5. Cardinality(Uncounted') = Cardinality(Uncounted) + 1
    BY <1>0, <2>3, FS_AddElement
  <2>6. Unsubtracted' = Unsubtracted /\ count' = count /\ Unsubtracted \in Nat
    BY <1>5 DEF QueueSet, Unsubtracted
  <2> QED BY <1>0, <2>4, <2>5, <2>6 DEF CountAccurate
<1>6. ASSUME NEW p \in Producers, QueueInc(p) PROVE CountAccurate'
  <2>1. SetSlots' = SetSlots /\ Unsubtracted' = Unsubtracted
        /\ count' = count + 1 /\ Unsubtracted \in Nat
    BY <1>6 DEF QueueInc, SetSlots, Unsubtracted
  <2>2. Uncounted' = Uncounted \ {p} /\ p \in Uncounted
    BY <1>6 DEF QueueInc, Uncounted
  <2>3. Cardinality(Uncounted') = Cardinality(Uncounted) - 1
    BY <1>0, <2>2, FS_RemoveElement
  <2> QED BY <1>0, <2>1, <2>3 DEF CountAccurate
<1>7. CASE PollCall \/ PollCount \/ PollCopy \/ PollClear \/ PollRun
  BY <1>1, <1>7 DEF PollCall, PollCount, PollCopy, PollClear, PollRun,
                    SetSlots, Uncounted, Unsubtracted
<1>8. CASE PollLoad
  BY <1>1, <1>8 DEF PollLoad, PollAdvance, SetSlots, Uncounted, Unsubtracted
<1>9. CASE PollClaim
  <2>1. state' = [state EXCEPT ![pidx] = 7] /\ state[pidx] = 3
    BY <1>9, FetchOrValues DEF PollClaim
  <2>2. SetSlots' = SetSlots
    BY <2>1 DEF SetSlots
  <2> QED BY <1>1, <1>9, <2>2 DEF PollClaim, Uncounted, Unsubtracted
<1>10. CASE PollFree
  <2>1. SetSlots' = SetSlots \ {pidx} /\ pidx \in SetSlots
    BY <1>10 DEF PollFree, SetSlots
  <2>2. Cardinality(SetSlots') = Cardinality(SetSlots) - 1
    BY <1>0, <2>1, FS_RemoveElement
  <2>3. Unsubtracted = 0 /\ Unsubtracted' = 1 /\ Uncounted' = Uncounted
        /\ count' = count
    BY <1>10 DEF PollFree, Unsubtracted, Uncounted
  <2> QED BY <1>0, <2>2, <2>3 DEF CountAccurate
<1>11. CASE PollDec
  <2>1. Unsubtracted = 1 /\ Unsubtracted' = 0 /\ Uncounted' = Uncounted
        /\ SetSlots' = SetSlots /\ count' = count - 1
    BY <1>11 DEF PollDec, PollAdvance, Unsubtracted, Uncounted, SetSlots
  <2> QED BY <1>0, <2>1 DEF CountAccurate
<1> QED BY <1>2, <1>3, <1>4, <1>5, <1>6, <1>7, <1>8, <1>9, <1>10, <1>11
        DEF Next, QueueStep, PollStep

\* count_ is the number of set entries up to the calls in progress, so the
\* early return of Poll at line 69 never hides an event for good.
THEOREM CounterCorrect == Spec => []CountAccurate
<1>1. Init => CountAccurate
  <2>1. ASSUME Init PROVE SetSlots = {} /\ Uncounted = {} /\ Unsubtracted = 0
    BY <2>1 DEF Init, SetSlots, Uncounted, Unsubtracted
  <2> QED BY <2>1, FS_EmptySet DEF Init, CountAccurate
<1>2. IInv /\ CountAccurate /\ [Next]_vars => CountAccurate'
  <2>1. CASE UNCHANGED vars
    BY <2>1 DEF vars, queueVars, pollVars, CountAccurate, SetSlots, Uncounted,
                Unsubtracted
  <2> QED BY <2>1, CountStep
<1> QED BY <1>1, <1>2, Inductive, PTL DEF Spec
=============================================================================
