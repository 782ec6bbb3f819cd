------------------------------ MODULE Filters ------------------------------
(***************************************************************************)
(* mjlib/base/windowed_average.h and mjlib/base/pid.h: arithmetic with     *)
(* state that runs for a long time.  The numbers of PID are whole, its     *)
(* scales and rate_hz are 1, NaN is only what "desired" starts with, and   *)
(* what its state has only for the log is left out.                        *)
(***************************************************************************)
EXTENDS Integers, Sequences, FiniteSets, FiniteSetsExt, SequencesExt

CONSTANTS
  Capacities,    \* [given, max]: capacity and MaxCapacity
  Configs,       \* PID::Config
  Inputs,        \* numbers that are added, measured and desired
  MaxAdds        \* bound: calls of Add

\* A number no input comes near.
NaN == 1000000

VARIABLES
  window,        \* WindowedAverage
  added,         \* history: what was added
  config,        \* PID's config_
  state,         \* PID's state_
  before         \* history: state_ before the last Apply

vars == <<window, added, config, state, before>>

Clear == [integral |-> 0, desired |-> NaN, command |-> 0]

Init ==
  /\ \E c \in Capacities :
       window = [data |-> [i \in 0..(c.max - 1) |-> 0], total |-> 0,
                 capacity |-> IF c.given < c.max THEN c.given ELSE c.max,
                 size |-> 0, pos |-> 0]
  /\ added = <<>>
  /\ config \in Configs /\ state = Clear /\ before = Clear

-----------------------------------------------------------------------------
\* Fault: the oldest value is subtracted before the window is full.
AddWrapped(w, value) ==
  [w EXCEPT !.total = @ + value - w.data[w.pos],
            !.data[w.pos] = value,
            !.pos = (@ + 1) % Cardinality(DOMAIN w.data),
            !.size = IF @ + 1 < w.capacity THEN @ + 1 ELSE w.capacity]

AddTo(w, value) ==
  LET size == IF w.size + 1 < w.capacity THEN w.size + 1 ELSE w.capacity IN
    [w EXCEPT !.total = @ + value - (IF size = w.size THEN w.data[w.pos] ELSE 0),
              !.data[w.pos] = value,
              !.pos = (@ + 1) % w.capacity,
              !.size = size]

\* Division rounds towards zero.
Average(w) ==
  IF w.size = 0 THEN 0
  ELSE IF w.total >= 0 THEN w.total \div w.size ELSE -((-w.total) \div w.size)

Add(value) ==
  /\ Len(added) < MaxAdds
  /\ window' = AddTo(window, value)
  /\ added' = Append(added, value)
  /\ UNCHANGED <<config, state, before>>

-----------------------------------------------------------------------------
Limit(a, low, high) == IF a < low THEN low ELSE IF a > high THEN high ELSE a

\* The first desired value is taken as it is.
Desired(input) ==
  IF config.maxDesiredRate = 0 \/ state.desired = NaN THEN input
  ELSE state.desired
         + Limit(input - state.desired, -config.maxDesiredRate, config.maxDesiredRate)

DesiredRate(input) ==
  IF config.maxDesiredRate = 0 \/ state.desired = NaN THEN input
  ELSE Limit(input, -config.maxDesiredRate, config.maxDesiredRate)

\* Fault: the update is not limited.
IntegralFree(error) == Limit(state.integral + error * config.ki, -config.ilimit, config.ilimit)

Integral(error) ==
  LET update == IF config.iratelimit > 0
                THEN Limit(error * config.ki, -config.iratelimit, config.iratelimit)
                ELSE error * config.ki
  IN Limit(state.integral + update, -config.ilimit, config.ilimit)

Apply(measured, desired, rate, desiredRate) ==
  LET error == measured - Desired(desired)
      sum == config.kp * error + config.kd * (rate - DesiredRate(desiredRate))
      pd == IF config.kpkdLimit >= 0 THEN Limit(sum, -config.kpkdLimit, config.kpkdLimit) ELSE sum
  IN /\ before' = state
     /\ state' = [integral |-> Integral(error), desired |-> Desired(desired),
                  command |-> config.sign * (pd + Integral(error))]
     /\ UNCHANGED <<window, added, config>>

\* A behaviour uses one of the two.
Next ==
  \/ state = Clear /\ \E value \in Inputs : Add(value)
  \/ added = <<>> /\ \E m, d, r, dr \in Inputs : Apply(m, d, r, dr)

Spec == Init /\ [][Next]_vars

-----------------------------------------------------------------------------
Magnitude(x) == IF x < 0 THEN -x ELSE x

\* After any number of additions the total is that of the last ones, as many
\* as the window holds, also where it wraps around; and however the inputs
\* jump, the command moves within the limits of the config: the integral by
\* iratelimit a call and within ilimit, the setpoint by max_desired_rate, the
\* proportional part within kpkd_limit.
FiltersBounded ==
  LET n == IF Len(added) < window.capacity THEN Len(added) ELSE window.capacity
      last == SubSeq(added, Len(added) - n + 1, Len(added))
  IN /\ window.size = n
     /\ window.total = FoldLeft(LAMBDA a, b : a + b, 0, last)
     /\ n > 0 => Magnitude(Average(window) * n - window.total) < n
     /\ Magnitude(state.integral) <= config.ilimit
     /\ config.iratelimit > 0 =>
          Magnitude(state.integral - before.integral) <= config.iratelimit
     /\ config.maxDesiredRate # 0 /\ before.desired # NaN =>
          Magnitude(state.desired - before.desired) <= config.maxDesiredRate
     /\ config.kpkdLimit >= 0 =>
          Magnitude(state.command) <= config.kpkdLimit + config.ilimit
=============================================================================
