--------------------------- MODULE CallbackTable ---------------------------
(***************************************************************************)
(* mjlib/micro/callback_table.cc: callbacks for interrupt handlers, which  *)
(* are plain functions, one per slot.  A Callback object owns its slot.    *)
(***************************************************************************)
EXTENDS Naturals, FiniteSets, FiniteSetsExt

CONSTANTS
  Slots,      \* the indexes of g_callbacks, numbers from 1
  Objects,    \* Callback objects of the program
  MaxMakes    \* bound: calls of MakeFunction

VARIABLES
  callbacks,  \* g_callbacks: number of the callback, 0 if empty
  holds,      \* raw_function of each object: its slot, 0 for null
  wanted,     \* history: the callback each object was made for
  made,       \* calls of MakeFunction
  leaked      \* history: slots whose object was assigned another

vars == <<callbacks, holds, wanted, made, leaked>>

Init ==
  /\ callbacks = [i \in Slots |-> 0]
  /\ holds = [o \in Objects |-> 0] /\ wanted = [o \in Objects |-> 0]
  /\ made = 0 /\ leaked = {}

\* MakeFunction for an object that holds nothing; with no entry it asserts.
MakeFunction(o) ==
  LET free == {i \in Slots : callbacks[i] = 0} IN
    /\ holds[o] = 0 /\ free # {} /\ made < MaxMakes
    /\ made' = made + 1
    /\ callbacks' = [callbacks EXCEPT ![Min(free)] = made']
    /\ holds' = [holds EXCEPT ![o] = Min(free)]
    /\ wanted' = [wanted EXCEPT ![o] = made']
    /\ UNCHANGED leaked

\* Fault: the object moved from keeps its function.
MoveKeeps(o, p) ==
  /\ o # p
  /\ holds' = [holds EXCEPT ![o] = holds[p]]
  /\ wanted' = [wanted EXCEPT ![o] = wanted[p], ![p] = 0]
  /\ leaked' = IF holds[o] = 0 THEN leaked ELSE leaked \cup {holds[o]}
  /\ UNCHANGED <<callbacks, made>>

\* The move constructor, and the assignment, which leaves the slot of the
\* object it overwrites.
Move(o, p) ==
  /\ o # p
  /\ holds' = [holds EXCEPT ![o] = holds[p], ![p] = 0]
  /\ wanted' = [wanted EXCEPT ![o] = wanted[p], ![p] = 0]
  /\ leaked' = IF holds[o] = 0 THEN leaked ELSE leaked \cup {holds[o]}
  /\ UNCHANGED <<callbacks, made>>

\* ~Callback; a new object takes its place.
Destroy(o) ==
  /\ holds[o] # 0
  /\ callbacks' = [callbacks EXCEPT ![holds[o]] = 0]
  /\ holds' = [holds EXCEPT ![o] = 0]
  /\ wanted' = [wanted EXCEPT ![o] = 0]
  /\ UNCHANGED <<made, leaked>>

Next ==
  \E o \in Objects : MakeFunction(o) \/ Destroy(o) \/ (\E p \in Objects : Move(o, p))

Spec == Init /\ [][Next]_vars

-----------------------------------------------------------------------------
\* However the objects are moved and destroyed, an interrupt through the
\* function of an object calls what that object was made for, and a slot is
\* in use for an object or was leaked by an assignment.
HandlersRight ==
  /\ \A o \in Objects : holds[o] # 0 => callbacks[holds[o]] = wanted[o]
  /\ \A o \in Objects : holds[o] = 0 => wanted[o] = 0
  /\ \A o, p \in Objects : holds[o] = holds[p] /\ holds[o] # 0 => o = p
  /\ {i \in Slots : callbacks[i] # 0} = ({holds[o] : o \in Objects} \ {0}) \cup leaked
=============================================================================
