-------------------------------- MODULE Governor --------------------------------
(***************************************************************************)
(* AdaptivePollingGovernor (gateway/src/governor.rs): how long a reader    *)
(* sleeps between two rounds, from the fill of the buffer, the backlog of  *)
(* its sensor, the waits in the buffer and the scheduler's override.       *)
(*                                                                         *)
(* Ratios (fill, thresholds, error, integral) are whole multiples of       *)
(* 1/Unit, rounded down where the code has an f64.  Of the wait totals only *)
(* whether they grew since the last update matters: past the emergency     *)
(* test the push delta is zero, so `pop_delta > push_delta' says that      *)
(* someone waited in pop.  A governor is a record; an update is a function. *)
(***************************************************************************)
EXTENDS Integers

CONSTANTS
  Unit,        \* the ratio 1.0
  Given,       \* the configuration new() gets
  Default,     \* AdaptivePollingConfig::default()
  MaxSwitches  \* the counters stop here: bounds the run

\* AdaptivePollingConfig.  new() does not check integral_limit; a negative one
\* would make f64::clamp panic.
Config == [min_sleep : Nat, nominal_sleep : Nat, max_sleep : Nat,
           low : Nat, target : Nat, high : Nat, alpha : Nat,
           soft : Nat, hard : Nat, step_up : Nat, step_down : Nat,
           kp : Int, ki : Int, integral_limit : Nat]

\* What new() demands of a configuration before it uses it.
Valid(c) ==
  /\ c.min_sleep # 0
  /\ c.min_sleep <= c.nominal_sleep /\ c.nominal_sleep <= c.max_sleep
  /\ c.alpha <= Unit /\ c.high <= Unit
  /\ c.low <= c.target /\ c.target <= c.high
  /\ c.soft <= c.hard

ASSUME GovernorAssumption ==
  /\ Unit \in Nat \ {0} /\ MaxSwitches \in Nat
  /\ Given \in Config
  /\ Default \in Config /\ Valid(Default)

cfg == IF Valid(Given) THEN Given ELSE Default

Modes == {"FastRecovery", "Tracking", "Economy", "FailSafe"}

\* ClampMaxSleep carries ClampLimit in the one place that builds it.
Overrides == {"None", "ClampMaxSleep", "ForceFastRecovery"}

\* What update_with_override reads.  `capacity' is of the buffer.
Inputs == [available : Nat, capacity : Nat, fill : 0 .. Unit,
           push_waited : BOOLEAN, pop_waited : BOOLEAN, override : Overrides]

New == [mode |-> "Tracking", sleep |-> cfg.nominal_sleep, integral |-> 0, smoothed |-> 0,
        switches |-> 0,
        entries |-> [m \in Modes |-> IF m = "Tracking" THEN 1 ELSE 0]]

Least(x, y) == IF x <= y THEN x ELSE y
Most(x, y) == IF x >= y THEN x ELSE y
Clamp(x, low, high) == Most(low, Least(x, high))

-----------------------------------------------------------------------------
\* Mutant: the entries are counted also when the mode stays.
SetModeCountsAlways(g, next) ==
  IF g.switches = MaxSwitches THEN [g EXCEPT !.mode = next]
  ELSE [g EXCEPT !.mode = next, !.entries[next] = @ + 1,
                 !.switches = IF g.mode = next THEN @ ELSE @ + 1]

SetMode(g, next) ==
  IF g.mode = next THEN g
  ELSE IF g.switches = MaxSwitches THEN [g EXCEPT !.mode = next]
  ELSE [g EXCEPT !.mode = next, !.switches = @ + 1, !.entries[next] = @ + 1]

\* The exponential average of the fill.
Smoothed(g, in) == ((Unit - cfg.alpha) * g.smoothed + cfg.alpha * in.fill) \div Unit

\* `s' is the average after this update.
Emergency(s, in) ==
  \/ in.override = "ForceFastRecovery"
  \/ in.available >= cfg.hard
  \/ s >= cfg.high
  \/ in.push_waited

Recover(g) == [SetMode(g, "FastRecovery") EXCEPT !.integral = 0, !.sleep = cfg.min_sleep]

Error(s) == cfg.target - s

Integral(g, s) == Clamp(g.integral + Error(s), -cfg.integral_limit, cfg.integral_limit)

Proposed(g, s) ==
  Clamp(cfg.nominal_sleep + ((cfg.kp * Error(s) + cfg.ki * Integral(g, s)) \div Unit),
        cfg.min_sleep, cfg.max_sleep)

MayEconomize(g, s, in) ==
  /\ in.override = "None"
  /\ \/ s <= cfg.low /\ in.available <= cfg.soft \div 2 /\ in.pop_waited
     \/ g.mode = "Economy" /\ s <= cfg.target /\ in.available <= cfg.soft

\* Outside an emergency: the mode, and the sleep it makes of the proposal.
Adjusted(g, s, in) ==
  LET p == Proposed(g, s)
  IN  IF MayEconomize(g, s, in) THEN Least(p + cfg.step_up, cfg.max_sleep)
      ELSE IF s > cfg.target \/ in.available >= cfg.soft
           THEN Most(p - cfg.step_down, cfg.min_sleep)
           ELSE Least(p, cfg.nominal_sleep + cfg.step_up)

\* The reader takes the limit from the configuration it was given, also when new()
\* has put the default in its place.
ClampLimit == Most(Given.nominal_sleep, Given.min_sleep)

\* The governor never goes below the minimum of the configuration it uses.
ClampBound == Most(ClampLimit, cfg.min_sleep)

Limited(sleep, in) ==
  IF in.override = "ClampMaxSleep" THEN Least(sleep, ClampBound) ELSE sleep

Steer(g, s, in) ==
  LET sleep == Limited(Adjusted(g, s, in), in)
      next == [SetMode(g, IF MayEconomize(g, s, in) THEN "Economy" ELSE "Tracking")
                 EXCEPT !.integral = Integral(g, s)]
  IN  IF sleep = 0 THEN [SetMode(next, "FailSafe") EXCEPT !.sleep = 1000]
                   ELSE [next EXCEPT !.sleep = sleep]

\* update_with_override
Update(g, in) ==
  IF in.capacity = 0
  THEN [SetMode(g, "FailSafe") EXCEPT !.sleep = 1000, !.smoothed = 0]
  ELSE LET s == Smoothed(g, in)
           h == [g EXCEPT !.smoothed = s]
       IN  IF Emergency(s, in) THEN Recover(h) ELSE Steer(h, s, in)

-----------------------------------------------------------------------------
GovernorType == [mode : Modes, sleep : Nat, integral : Int, smoothed : 0 .. Unit,
                 switches : Nat, entries : [Modes -> Nat]]

EntriesOf(g) == g.entries["FastRecovery"] + g.entries["Tracking"]
                  + g.entries["Economy"] + g.entries["FailSafe"]

\* With a buffer that has room at all, FailSafe is never entered.
Sound(g) ==
  /\ g.mode # "FailSafe"
  /\ EntriesOf(g) = g.switches + 1
  /\ cfg.min_sleep <= g.sleep /\ g.sleep <= cfg.max_sleep
=============================================================================
