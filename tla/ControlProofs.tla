----------------------------- MODULE ControlProofs -----------------------------
(***************************************************************************)
(* What holds of the control plane and its governors for any readers,      *)
(* configuration, load and number of mode switches.                        *)
(***************************************************************************)
EXTENDS Control, TLAPS

-----------------------------------------------------------------------------
\* The configuration in use.
LEMMA ConfigInUse ==
  /\ cfg \in Config
  /\ Valid(cfg)
BY GovernorAssumption DEF cfg

LEMMA ConfigFacts ==
  /\ cfg.min_sleep \in Nat \ {0} /\ cfg.nominal_sleep \in Nat /\ cfg.max_sleep \in Nat
  /\ cfg.min_sleep <= cfg.nominal_sleep /\ cfg.nominal_sleep <= cfg.max_sleep
  /\ cfg.alpha \in 0 .. Unit /\ cfg.target \in Nat /\ cfg.integral_limit \in Nat
  /\ cfg.kp \in Int /\ cfg.ki \in Int /\ cfg.step_up \in Nat /\ cfg.step_down \in Nat
<1>1. cfg \in Config /\ Valid(cfg) BY ConfigInUse
<1> HIDE DEF cfg
<1> QED BY <1>1, GovernorAssumption DEF Config, Valid

\* The limit of a clamp is a sleep, and at least the minimum.
LEMMA ClampBoundIs == ClampBound \in Nat /\ cfg.min_sleep <= ClampBound
<1>1. Given.nominal_sleep \in Nat /\ Given.min_sleep \in Nat
  BY GovernorAssumption DEF Config
<1> QED BY <1>1, ConfigFacts DEF ClampBound, ClampLimit, Most

LEMMA ClampIs ==
  ASSUME NEW x \in Int, NEW low \in Int, NEW high \in Int, low <= high
  PROVE  /\ Clamp(x, low, high) \in Int
         /\ low <= Clamp(x, low, high) /\ Clamp(x, low, high) <= high
BY DEF Clamp, Most, Least

\* The average of two fills is a fill.
LEMMA SmoothedIs ==
  ASSUME NEW g \in GovernorType, NEW in \in Inputs
  PROVE  Smoothed(g, in) \in 0 .. Unit
<1> DEFINE a == cfg.alpha
           s == g.smoothed
           f == in.fill
           x == (Unit - a) * s + a * f
<1>1. Unit \in Nat \ {0} /\ a \in 0 .. Unit /\ s \in 0 .. Unit /\ f \in 0 .. Unit
  BY GovernorAssumption, ConfigFacts DEF GovernorType, Inputs
<1> HIDE DEF a, s, f
<1>2. (Unit - a) * s \in Nat /\ (Unit - a) * s <= (Unit - a) * Unit
  BY <1>1
<1>3. a * f \in Nat /\ a * f <= a * Unit
  BY <1>1
<1>4. (Unit - a) * Unit + a * Unit = Unit * Unit
  BY <1>1
<1>5. x \in Nat /\ x <= Unit * Unit
  BY <1>1, <1>2, <1>3, <1>4
<1> HIDE DEF x
<1>6. x \div Unit \in 0 .. Unit
  <2> DEFINE q == x \div Unit
  <2>1. q \in Int /\ Unit * q <= x /\ x < Unit * (q + 1) BY <1>1, <1>5
  <2> HIDE DEF q
  <2>2. q >= 0
    <3> SUFFICES ASSUME q + 1 <= 0 PROVE FALSE BY <2>1
    <3>1. Unit * (q + 1) <= 0 BY <1>1, <2>1
    <3> QED BY <1>1, <1>5, <2>1, <3>1
  <2>3. q <= Unit
    <3> SUFFICES ASSUME q >= Unit + 1 PROVE FALSE BY <1>1, <2>1
    <3>1. Unit * q >= Unit * (Unit + 1) BY <1>1, <2>1
    <3>2. Unit * (Unit + 1) > Unit * Unit BY <1>1
    <3> QED BY <1>1, <1>5, <2>1, <3>1, <3>2
  <2> QED BY <1>1, <2>1, <2>2, <2>3 DEF q
<1> QED BY <1>6 DEF Smoothed, x, a, s, f

\* A governor with some fields replaced.
LEMMA GovernorWithSleep ==
  ASSUME NEW g \in GovernorType, NEW i \in Int, NEW x \in Nat
  PROVE  [g EXCEPT !.integral = i, !.sleep = x] \in GovernorType
BY DEF GovernorType

LEMMA GovernorWithMode ==
  ASSUME NEW g \in GovernorType, NEW m \in Modes, NEW n \in Nat, NEW e \in [Modes -> Nat]
  PROVE  [g EXCEPT !.mode = m, !.switches = n, !.entries = e] \in GovernorType
BY DEF GovernorType

\* A switch of modes keeps the books and touches nothing else.
LEMMA SetModeIs ==
  ASSUME NEW g \in GovernorType, NEW m \in Modes, EntriesOf(g) = g.switches + 1
  PROVE  /\ SetMode(g, m) \in GovernorType
         /\ SetMode(g, m).mode = m /\ SetMode(g, m).sleep = g.sleep
         /\ EntriesOf(SetMode(g, m)) = SetMode(g, m).switches + 1
<1>1. CASE g.mode = m \/ g.switches = MaxSwitches
  BY <1>1 DEF SetMode, GovernorType, EntriesOf
<1>2. CASE ~(g.mode = m \/ g.switches = MaxSwitches)
  <2> DEFINE h == SetMode(g, m)
  <2>1. h = [g EXCEPT !.mode = m, !.switches = @ + 1, !.entries[m] = @ + 1]
    BY <1>2 DEF SetMode
  <2>2. /\ h.mode = m /\ h.sleep = g.sleep /\ h.switches = g.switches + 1
        /\ h.entries = [g.entries EXCEPT ![m] = g.entries[m] + 1]
    BY <2>1 DEF GovernorType
  <2>3. h \in GovernorType
    <3> DEFINE e == [g.entries EXCEPT ![m] = g.entries[m] + 1]
    <3>1. e \in [Modes -> Nat] /\ g.switches + 1 \in Nat BY DEF GovernorType
    <3>2. h = [g EXCEPT !.mode = m, !.switches = g.switches + 1, !.entries = e]
      BY <2>1
    <3> HIDE DEF e, h
    <3> QED BY <3>1, <3>2, GovernorWithMode
  <2>4. EntriesOf(h) = h.switches + 1
    BY <2>2 DEF GovernorType, EntriesOf, Modes
  <2> QED BY <2>2, <2>3, <2>4
<1> QED BY <1>1, <1>2

\* An emergency: the minimum sleep.
LEMMA RecoverIs ==
  ASSUME NEW g \in GovernorType, EntriesOf(g) = g.switches + 1
  PROVE  /\ Recover(g) \in GovernorType /\ Sound(Recover(g))
         /\ Recover(g).mode = "FastRecovery" /\ Recover(g).sleep = cfg.min_sleep
<1> DEFINE h == SetMode(g, "FastRecovery")
<1>1. h \in GovernorType /\ h.mode = "FastRecovery" /\ EntriesOf(h) = h.switches + 1
  BY SetModeIs DEF Modes
<1>2. Recover(g) = [h EXCEPT !.integral = 0, !.sleep = cfg.min_sleep]
  BY DEF Recover
<1> HIDE DEF h
<1>3. Recover(g) \in GovernorType
  <2>1. cfg.min_sleep \in Nat /\ 0 \in Int BY ConfigFacts
  <2>2. [h EXCEPT !.integral = 0, !.sleep = cfg.min_sleep] \in GovernorType
    BY <1>1, <2>1, GovernorWithSleep
  <2> QED BY <1>2, <2>2
<1>4. Recover(g).mode = "FastRecovery" /\ Recover(g).sleep = cfg.min_sleep
        /\ EntriesOf(Recover(g)) = Recover(g).switches + 1
  BY <1>1, <1>2 DEF GovernorType, EntriesOf
<1> QED BY <1>3, <1>4, ConfigFacts DEF Sound

\* The sleep of an adjustment is between the limits, and obeys the clamp.
LEMMA LimitedIs ==
  ASSUME NEW g \in GovernorType, NEW s \in 0 .. Unit, NEW in \in Inputs
  PROVE  /\ Limited(Adjusted(g, s, in), in) \in Nat
         /\ cfg.min_sleep <= Limited(Adjusted(g, s, in), in)
         /\ Limited(Adjusted(g, s, in), in) <= cfg.max_sleep
         /\ in.override = "ClampMaxSleep"
              => Limited(Adjusted(g, s, in), in) <= ClampBound
         /\ Integral(g, s) \in Int
<1>1. Error(s) \in Int BY ConfigFacts, GovernorAssumption DEF Error
<1>2. Integral(g, s) \in Int
  <2>1. g.integral + Error(s) \in Int BY <1>1 DEF GovernorType
  <2>2. /\ cfg.integral_limit \in Int /\ -cfg.integral_limit \in Int
        /\ -cfg.integral_limit <= cfg.integral_limit
    BY ConfigFacts
  <2> QED BY <2>1, <2>2, ClampIs DEF Integral
<1>3. Proposed(g, s) \in Int /\ cfg.min_sleep <= Proposed(g, s)
        /\ Proposed(g, s) <= cfg.max_sleep
  <2> DEFINE x == cfg.nominal_sleep + ((cfg.kp * Error(s) + cfg.ki * Integral(g, s)) \div Unit)
  <2>1. x \in Int
    <3>1. cfg.kp * Error(s) + cfg.ki * Integral(g, s) \in Int BY <1>1, <1>2, ConfigFacts
    <3> QED BY <3>1, ConfigFacts, GovernorAssumption
  <2> HIDE DEF x
  <2>2. Clamp(x, cfg.min_sleep, cfg.max_sleep) \in Int
          /\ cfg.min_sleep <= Clamp(x, cfg.min_sleep, cfg.max_sleep)
          /\ Clamp(x, cfg.min_sleep, cfg.max_sleep) <= cfg.max_sleep
    <3>1. cfg.min_sleep \in Int /\ cfg.max_sleep \in Int /\ cfg.min_sleep <= cfg.max_sleep
      BY ConfigFacts
    <3> QED BY <2>1, <3>1, ClampIs
  <2> QED BY <2>2 DEF Proposed, x
<1>4. Adjusted(g, s, in) \in Int /\ cfg.min_sleep <= Adjusted(g, s, in)
        /\ Adjusted(g, s, in) <= cfg.max_sleep
  <2> DEFINE p == Proposed(g, s)
  <2>1. p \in Int /\ cfg.min_sleep <= p /\ p <= cfg.max_sleep BY <1>3
  <2>2. Adjusted(g, s, in) \in {Least(p + cfg.step_up, cfg.max_sleep),
                                Most(p - cfg.step_down, cfg.min_sleep),
                                Least(p, cfg.nominal_sleep + cfg.step_up)}
    BY DEF Adjusted
  <2> HIDE DEF p
  <2> QED BY <2>1, <2>2, ConfigFacts DEF Least, Most
<1> QED BY <1>2, <1>4, ConfigFacts, ClampBoundIs DEF Limited, Least

\* Outside an emergency the governor tracks or economizes.
LEMMA SteerIs ==
  ASSUME NEW g \in GovernorType, EntriesOf(g) = g.switches + 1,
         NEW s \in 0 .. Unit, NEW in \in Inputs
  PROVE  /\ Steer(g, s, in) \in GovernorType /\ Sound(Steer(g, s, in))
         /\ in.override = "ClampMaxSleep"
              => /\ Steer(g, s, in).sleep <= ClampBound
                 /\ Steer(g, s, in).mode = "Tracking"
<1> DEFINE m == IF MayEconomize(g, s, in) THEN "Economy" ELSE "Tracking"
           x == Limited(Adjusted(g, s, in), in)
           h == SetMode(g, m)
           i == Integral(g, s)
<1>1. m \in Modes \ {"FailSafe"} /\ (in.override = "ClampMaxSleep" => m = "Tracking")
  BY DEF Modes, MayEconomize
<1>2. x \in Nat \ {0} /\ cfg.min_sleep <= x /\ x <= cfg.max_sleep /\ i \in Int
        /\ (in.override = "ClampMaxSleep" => x <= ClampBound)
  BY LimitedIs, ConfigFacts
<1>3. h \in GovernorType /\ h.mode = m /\ EntriesOf(h) = h.switches + 1
  BY <1>1, SetModeIs
<1>4. Steer(g, s, in) = [h EXCEPT !.integral = i, !.sleep = x]
  <2>1. x # 0 BY <1>2
  <2> HIDE DEF x, i
  <2>2. Steer(g, s, in) = IF x = 0 THEN [SetMode([h EXCEPT !.integral = i], "FailSafe")
                                           EXCEPT !.sleep = 1000]
                          ELSE [[h EXCEPT !.integral = i] EXCEPT !.sleep = x]
    BY DEF Steer, x, i
  <2> QED BY <2>1, <2>2
<1> HIDE DEF m, x, h, i
<1>5. Steer(g, s, in) \in GovernorType
  <2>1. h \in GovernorType /\ i \in Int /\ x \in Nat BY <1>2, <1>3
  <2>2. [h EXCEPT !.integral = i, !.sleep = x] \in GovernorType
    BY <2>1, GovernorWithSleep, Zenon
  <2> QED BY <2>2, <1>4, Zenon
<1>6. /\ Steer(g, s, in).mode = h.mode /\ Steer(g, s, in).sleep = x
      /\ Steer(g, s, in).entries = h.entries /\ Steer(g, s, in).switches = h.switches
  BY <1>3, <1>4 DEF GovernorType
<1>7. EntriesOf(Steer(g, s, in)) = Steer(g, s, in).switches + 1
  BY <1>3, <1>6 DEF EntriesOf
<1> QED BY <1>1, <1>2, <1>3, <1>5, <1>6, <1>7 DEF Sound

\* An update of a governor with a buffer that has room keeps it sound, and obeys
\* the override.
LEMMA UpdateIs ==
  ASSUME NEW g \in GovernorType, Sound(g), NEW in \in Inputs, in.capacity # 0
  PROVE  /\ Update(g, in) \in GovernorType /\ Sound(Update(g, in))
         /\ in.override = "ClampMaxSleep"
              => /\ Update(g, in).sleep <= ClampBound
                 /\ Update(g, in).mode # "Economy"
         /\ in.override = "ForceFastRecovery"
              => /\ Update(g, in).sleep = cfg.min_sleep
                 /\ Update(g, in).mode = "FastRecovery"
<1> DEFINE s == Smoothed(g, in)
           h == [g EXCEPT !.smoothed = s]
<1>1. s \in 0 .. Unit BY SmoothedIs
<1>2. Update(g, in) = IF Emergency(s, in) THEN Recover(h) ELSE Steer(h, s, in)
  BY DEF Update
<1> HIDE DEF s
<1>3. h \in GovernorType /\ EntriesOf(h) = h.switches + 1
  BY <1>1 DEF GovernorType, EntriesOf, Sound
<1> HIDE DEF h
<1>4. CASE Emergency(s, in)
  BY <1>2, <1>3, <1>4, RecoverIs, ClampBoundIs
<1>5. CASE ~Emergency(s, in)
  <2>1. in.override # "ForceFastRecovery" BY <1>5 DEF Emergency
  <2> QED BY <1>1, <1>2, <1>3, <1>5, <2>1, SteerIs
<1> QED BY <1>4, <1>5

-----------------------------------------------------------------------------
\* What a reader gives its governor.
InputOf(r, s, push, pop) ==
  [available |-> s.available, capacity |-> Capacity, fill |-> s.fill,
   push_waited |-> push, pop_waited |-> pop, override |-> OverrideOf(control_mode[r])]

LEMMA InputIs ==
  ASSUME TypeOK, NEW r \in Readers, NEW s \in Status, NEW push \in BOOLEAN,
         NEW pop \in BOOLEAN
  PROVE  InputOf(r, s, push, pop) \in Inputs
<1>1. s.available \in Nat /\ s.fill \in 0 .. Unit /\ Capacity \in Nat
  BY ControlAssumption DEF Status
<1>2. OverrideOf(control_mode[r]) \in Overrides
  <2>1. control_mode[r] \in ControlModes BY DEF TypeOK
  <2> QED BY <2>1 DEF ControlModes, OverrideOf, Overrides
<1> QED BY <1>1, <1>2 DEF InputOf, Inputs

-----------------------------------------------------------------------------
LEMMA InitTyped == Init => TypeOK
<1> SUFFICES ASSUME Init PROVE TypeOK
  OBVIOUS
<1> USE DEF Init, All
<1>1. stop \in BOOLEAN /\ calm \in BOOLEAN BY Zenon
<1>2. draining \in [Readers -> BOOLEAN] /\ late \in [Readers -> BOOLEAN] OBVIOUS
<1>3. control_mode \in [Readers -> ControlModes] BY DEF ControlModes
<1>4. gov \in [Readers -> GovernorType]
  <2>1. New \in GovernorType
    BY ConfigFacts, GovernorAssumption DEF New, GovernorType, Modes
  <2> QED BY <2>1
<1>5. commands \in [Readers -> Seq(ControlModes)] OBVIOUS
<1>6. warning_hits \in [Readers -> 0 .. WarningLimit] BY ControlAssumption
<1>7. /\ pending \in [Readers -> Status \cup {NoStatus}]
      /\ latest \in [Readers -> Status \cup {NoStatus}]
      /\ last_command \in [Readers -> ControlModes \cup {NoCommand}]
  OBVIOUS
<1> QED BY <1>1, <1>2, <1>3, <1>4, <1>5, <1>6, <1>7 DEF TypeOK

LEMMA HitsIs ==
  ASSUME TypeOK, NEW r \in Readers
  PROVE  Hits(r) \in 0 .. WarningLimit
<1>1. warning_hits[r] \in 0 .. WarningLimit BY DEF TypeOK
<1> QED BY <1>1, ControlAssumption DEF Hits

\* Draining changes two variables of one reader.
LEMMA DrainTyped ==
  ASSUME TypeOK, NEW r \in Readers, Drain(r)
  PROVE  draining' \in [Readers -> BOOLEAN] /\ control_mode' \in [Readers -> ControlModes]
BY DEF TypeOK, Drain, ControlModes

LEMMA NextTyped ==
  ASSUME TypeOK, GovernorsSound, [Next]_vars
  PROVE  TypeOK'
<1> USE DEF readerVars, schedulerVars
<1>1. ASSUME NEW r \in Readers, TakeCommand(r) PROVE TypeOK'
  <2>1. commands[r] \in Seq(ControlModes) /\ commands[r] # <<>> BY <1>1 DEF TakeCommand, TypeOK
  <2>2. Head(commands[r]) \in ControlModes /\ Tail(commands[r]) \in Seq(ControlModes)
    BY <2>1
  <2>3. commands' \in [Readers -> Seq(ControlModes)] BY <1>1, <2>2 DEF TakeCommand, TypeOK
  <2>4. CASE Head(commands[r]) = "ShutdownDrain"
    <3>1. Drain(r) /\ stop' \in BOOLEAN BY <1>1, <2>4 DEF TakeCommand
    <3> QED BY <1>1, <2>3, <3>1, DrainTyped DEF TakeCommand, TypeOK
  <2>5. CASE Head(commands[r]) # "ShutdownDrain"
    BY <1>1, <2>2, <2>3, <2>5 DEF TakeCommand, TypeOK
  <2> QED BY <2>4, <2>5
<1>2. ASSUME NEW r \in Readers, TestStop(r) PROVE TypeOK'
  <2>1. draining' \in [Readers -> BOOLEAN] /\ control_mode' \in [Readers -> ControlModes]
    BY <1>2, DrainTyped DEF TestStop, TypeOK
  <2> QED BY <1>2, <2>1 DEF TestStop, TypeOK
<1>3. ASSUME NEW r \in Readers, ReadAll(r) PROVE TypeOK'
  <2>1. /\ draining' \in [Readers -> BOOLEAN] /\ control_mode' \in [Readers -> ControlModes]
        /\ stop' \in BOOLEAN
    BY <1>3, DrainTyped DEF ReadAll, TypeOK
  <2> QED BY <1>3, <2>1 DEF ReadAll, TypeOK
<1>4. ASSUME NEW r \in Readers, UpdateAndReport(r) PROVE TypeOK'
  <2>1. PICK s \in Status, push \in BOOLEAN, pop \in BOOLEAN :
          /\ gov' = [gov EXCEPT ![r] = Update(gov[r], InputOf(r, s, push, pop))]
          /\ pending' = [pending EXCEPT ![r] = s]
          /\ rpc' = [rpc EXCEPT ![r] =
                       IF draining[r] /\ s.available = 0 THEN "leave" ELSE "decide"]
    BY <1>4 DEF UpdateAndReport, InputOf
  <2>2. gov' \in [Readers -> GovernorType]
    <3>1. InputOf(r, s, push, pop) \in Inputs /\ InputOf(r, s, push, pop).capacity # 0
      BY InputIs, ControlAssumption DEF InputOf
    <3>2. gov[r] \in GovernorType /\ Sound(gov[r]) BY DEF TypeOK, GovernorsSound
    <3>3. Update(gov[r], InputOf(r, s, push, pop)) \in GovernorType BY <3>1, <3>2, UpdateIs
    <3> QED BY <2>1, <3>3 DEF TypeOK
  <2>3. pending' \in [Readers -> Status \cup {NoStatus}] BY <2>1 DEF TypeOK
  <2> QED BY <1>4, <2>1, <2>2, <2>3 DEF UpdateAndReport, TypeOK
<1>5. ASSUME NEW r \in Readers, Leave(r) PROVE TypeOK'
  BY <1>5 DEF Leave, TypeOK
<1>6. ASSUME NEW r \in Readers, Sleep(r) PROVE TypeOK'
  BY <1>6 DEF Sleep, TypeOK
<1>7. CASE Receive
  <2>1. late' \in [Readers -> BOOLEAN] BY <1>7 DEF Receive
  <2>2. latest' \in [Readers -> Status \cup {NoStatus}]
        /\ pending' \in [Readers -> Status \cup {NoStatus}]
    BY <1>7 DEF Receive, TypeOK, All
  <2> QED BY <1>7, <2>1, <2>2 DEF Receive, TypeOK
<1>8. CASE Poll
  <2>1. PICK stale \in SUBSET {r \in Readers : latest[r] # NoStatus} :
          LET hits == [r \in Readers |-> Hits(r)]
              want == [r \in Readers |-> IF latest[r] = NoStatus THEN last_command[r]
                                         ELSE Desired(r, hits[r], r \in stale)]
          IN  /\ late' = [r \in Readers |-> r \in stale]
              /\ warning_hits' = hits
              /\ last_command' = want
              /\ commands' = [r \in Readers |-> Told(r, want[r])]
    BY <1>8 DEF Poll
  <2> DEFINE want == [r \in Readers |-> IF latest[r] = NoStatus THEN last_command[r]
                                        ELSE Desired(r, Hits(r), r \in stale)]
  <2>2. \A r \in Readers : want[r] = last_command[r] \/ want[r] \in ControlModes
    BY DEF Desired, ControlModes
  <2>3. last_command' = want /\ commands' = [r \in Readers |-> Told(r, want[r])]
    BY <2>1
  <2> HIDE DEF want
  <2>4. commands' \in [Readers -> Seq(ControlModes)]
    <3>1. \A r \in Readers : Told(r, want[r]) \in Seq(ControlModes)
      BY <2>2 DEF Told, Sent, TypeOK
    <3> QED BY <2>3, <3>1
  <2>5. last_command' \in [Readers -> ControlModes \cup {NoCommand}]
    <3>1. \A r \in Readers : want[r] \in ControlModes \cup {NoCommand}
      BY <2>2 DEF TypeOK
    <3>2. want \in [Readers -> ControlModes \cup {NoCommand}]
      BY <3>1 DEF want
    <3> QED BY <2>3, <3>2
  <2>6. late' \in [Readers -> BOOLEAN] BY <2>1
  <2>7. warning_hits' \in [Readers -> 0 .. WarningLimit] BY <2>1, HitsIs
  <2> QED BY <1>8, <2>4, <2>5, <2>6, <2>7 DEF Poll, TypeOK
<1>9. CASE Final
  <2>1. latest' \in [Readers -> Status \cup {NoStatus}]
        /\ pending' \in [Readers -> Status \cup {NoStatus}]
    BY <1>9 DEF Final, TypeOK, All
  <2>2. commands' \in [Readers -> Seq(ControlModes)]
        /\ last_command' \in [Readers -> ControlModes \cup {NoCommand}]
    BY <1>9 DEF Final, TypeOK, All, Sent, ControlModes
  <2> QED BY <1>9, <2>1, <2>2 DEF Final, TypeOK
<1>10. CASE Signal \/ LoadEnds
  BY <1>10 DEF Signal, LoadEnds, TypeOK
<1>11. CASE UNCHANGED vars BY <1>11 DEF vars, TypeOK
<1> QED
  BY <1>1, <1>2, <1>3, <1>4, <1>5, <1>6, <1>7, <1>8, <1>9, <1>10, <1>11
     DEF Next, Reader, Scheduler, Terminated

-----------------------------------------------------------------------------
\* Each reader's governor is sound, and has obeyed the mode in force when
\* the reader last chose its sleep.
Governed(r) ==
  /\ Sound(gov[r])
  /\ rpc[r] \in {"decide", "leave"} /\ control_mode[r] = "ClampToNominal"
       => gov[r].sleep <= ClampBound /\ gov[r].mode # "Economy"
  /\ rpc[r] \in {"decide", "leave"}
       /\ control_mode[r] \in {"ForceFastRecovery", "ShutdownDrain"}
       => gov[r].sleep = cfg.min_sleep /\ gov[r].mode = "FastRecovery"

LEMMA NextGoverned ==
  ASSUME TypeOK, GovernorsSound, [Next]_vars, NEW q \in Readers, Governed(q)
  PROVE  Governed(q)'
<1> USE DEF Governed, readerVars, schedulerVars
<1>0. cfg' = cfg /\ ClampBound' = ClampBound /\ (Sound(gov[q])' <=> Sound(gov'[q]))
  BY DEF cfg, Sound, Valid, EntriesOf, ClampBound, ClampLimit, Most
<1>1. ASSUME NEW r \in Readers, Reader(r) PROVE Governed(q)'
  <2>1. CASE TakeCommand(r)
    <3>1. rpc'[r] \notin {"decide", "leave"} BY <2>1 DEF TakeCommand, TypeOK
    <3>2. gov' = gov /\ (q # r => rpc'[q] = rpc[q] /\ control_mode'[q] = control_mode[q])
      BY <2>1 DEF TakeCommand, Drain, TypeOK
    <3> QED BY <1>0, <3>1, <3>2
  <2>2. CASE TestStop(r)
    <3>1. rpc'[r] \notin {"decide", "leave"} BY <2>2 DEF TestStop, TypeOK
    <3>2. gov' = gov /\ (q # r => rpc'[q] = rpc[q] /\ control_mode'[q] = control_mode[q])
      BY <2>2 DEF TestStop, Drain, TypeOK
    <3> QED BY <1>0, <3>1, <3>2
  <2>3. CASE ReadAll(r)
    <3>1. rpc'[r] \notin {"decide", "leave"} BY <2>3 DEF ReadAll, TypeOK
    <3>2. gov' = gov /\ (q # r => rpc'[q] = rpc[q] /\ control_mode'[q] = control_mode[q])
      BY <2>3 DEF ReadAll, Drain, TypeOK
    <3> QED BY <1>0, <3>1, <3>2
  <2>4. CASE UpdateAndReport(r)
    <3>1. PICK s \in Status, push \in BOOLEAN, pop \in BOOLEAN :
            /\ gov' = [gov EXCEPT ![r] = Update(gov[r], InputOf(r, s, push, pop))]
            /\ rpc' = [rpc EXCEPT ![r] =
                         IF draining[r] /\ s.available = 0 THEN "leave" ELSE "decide"]
      BY <2>4 DEF UpdateAndReport, InputOf
    <3>2. UNCHANGED control_mode BY <2>4 DEF UpdateAndReport
    <3>3. CASE q = r
      <4> DEFINE in == InputOf(r, s, push, pop)
      <4>1. in \in Inputs /\ in.capacity # 0 BY InputIs, ControlAssumption DEF InputOf
      <4>2. in.override = OverrideOf(control_mode[r]) BY DEF InputOf
      <4>3. gov[r] \in GovernorType /\ Sound(gov[r]) BY DEF TypeOK, GovernorsSound
      <4>4. gov'[r] = Update(gov[r], in) BY <3>1 DEF TypeOK
      <4> HIDE DEF in
      <4>5. /\ Sound(gov'[r])
            /\ in.override = "ClampMaxSleep"
                 => gov'[r].sleep <= ClampBound /\ gov'[r].mode # "Economy"
            /\ in.override = "ForceFastRecovery"
                 => gov'[r].sleep = cfg.min_sleep /\ gov'[r].mode = "FastRecovery"
        BY <4>1, <4>3, <4>4, UpdateIs
      <4> QED BY <1>0, <3>2, <3>3, <4>2, <4>5 DEF OverrideOf
    <3>4. CASE q # r
      BY <1>0, <3>1, <3>2, <3>4 DEF TypeOK
    <3> QED BY <3>3, <3>4
  <2>5. CASE Leave(r)
    BY <1>0, <2>5 DEF Leave, TypeOK
  <2>6. CASE Sleep(r)
    BY <1>0, <2>6 DEF Sleep, TypeOK
  <2> QED BY <1>1, <2>1, <2>2, <2>3, <2>4, <2>5, <2>6 DEF Reader
<1>2. CASE Scheduler
  BY <1>0, <1>2 DEF Scheduler, Receive, Poll, Final
<1>3. CASE Signal \/ LoadEnds \/ UNCHANGED vars
  BY <1>0, <1>3 DEF Signal, LoadEnds, vars
<1> QED BY <1>1, <1>2, <1>3 DEF Next, Terminated

LEMMA GovernedHolds == Spec => [](TypeOK /\ \A r \in Readers : Governed(r))
<1>1. Init => \A r \in Readers : Governed(r)
  <2>1. New.sleep = cfg.nominal_sleep /\ New.mode = "Tracking" /\ New.switches = 0
          /\ EntriesOf(New) = 1
    BY DEF New, EntriesOf, Modes
  <2>2. Sound(New) BY <2>1, ConfigFacts DEF Sound
  <2> QED BY <2>2 DEF Init, All, Governed
<1>2. (\A r \in Readers : Governed(r)) => GovernorsSound
  BY DEF Governed, GovernorsSound
<1>3. TypeOK /\ (\A r \in Readers : Governed(r)) /\ [Next]_vars
        => TypeOK' /\ (\A r \in Readers : Governed(r))'
  BY <1>2, NextTyped, NextGoverned
<1> QED BY <1>1, <1>3, InitTyped, PTL DEF Spec

\* The type invariant, for any readers and any configuration new() accepts or
\* replaces.
THEOREM ControlTyping == Spec => []TypeOK
BY GovernedHolds, PTL

\* Whatever the load, the waits of other threads and the overrides, a governor's
\* sleep stays within its configuration, its counters tell the same story
\* (governor.rs 139-150), and it never falls into FailSafe.
THEOREM GovernorsSoundHolds == Spec => []GovernorsSound
<1>1. (\A r \in Readers : Governed(r)) => GovernorsSound
  BY DEF Governed, GovernorsSound
<1> QED BY <1>1, GovernedHolds, PTL

\* The mode in force when a reader chose its sleep bounds that sleep, also in a
\* gateway whose configuration new() has rejected.
THEOREM CommandObeyedHolds == Spec => []CommandObeyed
<1>1. TypeOK /\ (\A r \in Readers : Governed(r)) => CommandObeyed
  BY DEF TypeOK, ControlModes, Governed, CommandObeyed
<1> QED BY <1>1, GovernedHolds, PTL

-----------------------------------------------------------------------------
\* The last element of a channel stays last until it is taken, and what is sent
\* becomes the last.
LEMMA LastIs ==
  ASSUME NEW S, NEW s \in Seq(S)
  PROVE  /\ s # <<>> /\ Tail(s) = <<>> => s[Len(s)] = Head(s)
         /\ s # <<>> /\ Tail(s) # <<>> => Tail(s)[Len(Tail(s))] = s[Len(s)]
         /\ \A x \in S : Append(s, x) # <<>> /\ Append(s, x)[Len(Append(s, x))] = x
OBVIOUS

\* The scheduler knows what a reader does, and only a draining reader leaves.
Known(r) ==
  /\ \/ draining[r]
     \/ last_command[r] = NoCommand /\ Eventual(r) = "Automatic"
     \/ last_command[r] = Eventual(r)
  /\ rpc[r] \in {"leave", "exited"} => draining[r]

LEMMA NextKnown ==
  ASSUME TypeOK, TypeOK', [Next]_vars, NEW q \in Readers, Known(q)
  PROVE  Known(q)'
<1> USE DEF Known, readerVars, schedulerVars
<1>0. ASSUME UNCHANGED <<control_mode, commands>> PROVE Eventual(q)' = Eventual(q)
  BY <1>0 DEF Eventual
<1>1. ASSUME NEW r \in Readers, Reader(r) PROVE Known(q)'
  <2>1. UNCHANGED last_command
    BY <1>1 DEF Reader, TakeCommand, TestStop, ReadAll, UpdateAndReport, Leave, Sleep
  <2>2. CASE TakeCommand(r)
    <3>1. CASE q # r
      BY <2>1, <2>2, <3>1 DEF TakeCommand, Drain, TypeOK, Eventual
    <3>2. CASE q = r
      <4>1. commands[r] \in Seq(ControlModes) /\ commands[r] # <<>>
              /\ commands'[r] = Tail(commands[r])
        BY <2>2 DEF TakeCommand, TypeOK
      <4>2. CASE Head(commands[r]) = "ShutdownDrain"
        BY <2>2, <3>2, <4>2 DEF TakeCommand, Drain, TypeOK
      <4>3. CASE Head(commands[r]) # "ShutdownDrain"
        <5>1. control_mode'[r] = Head(commands[r]) /\ UNCHANGED <<draining, rpc>>
          BY <2>2, <4>3 DEF TakeCommand, TypeOK
        <5>2. Eventual(r)' = Eventual(r)
          BY <4>1, <5>1, LastIs DEF Eventual
        <5> QED BY <2>1, <3>2, <5>1, <5>2
      <4> QED BY <4>2, <4>3
    <3> QED BY <3>1, <3>2
  <2>3. CASE TestStop(r) \/ ReadAll(r)
    <3>1. commands' = commands /\ (rpc'[q] \in {"leave", "exited"} => rpc'[q] = rpc[q])
      BY <2>3 DEF TestStop, ReadAll, TypeOK
    <3>2. CASE UNCHANGED <<draining, control_mode>>
      BY <1>0, <2>1, <3>1, <3>2
    <3>3. CASE Drain(r) /\ q = r
      BY <3>3 DEF Drain, TypeOK
    <3>4. CASE Drain(r) /\ q # r
      BY <2>1, <3>1, <3>4 DEF Drain, TypeOK, Eventual
    <3> QED BY <2>3, <3>2, <3>3, <3>4 DEF TestStop, ReadAll
  <2>4. CASE UpdateAndReport(r)
    <3>1. UNCHANGED <<draining, control_mode, commands>> BY <2>4 DEF UpdateAndReport
    <3>2. rpc'[q] \in {"leave", "exited"} => draining[q]
      BY <2>4 DEF UpdateAndReport, TypeOK
    <3> QED BY <1>0, <2>1, <3>1, <3>2
  <2>5. CASE Leave(r) \/ Sleep(r)
    BY <1>0, <2>1, <2>5 DEF Leave, Sleep, TypeOK
  <2> QED BY <1>1, <2>2, <2>3, <2>4, <2>5 DEF Reader
<1>2. CASE Receive
  BY <1>0, <1>2 DEF Receive
<1>3. CASE Poll
  <2>1. UNCHANGED <<rpc, draining, control_mode>> BY <1>3 DEF Poll
  <2>2. commands'[q] = Told(q, last_command'[q])
    BY <1>3 DEF Poll
  <2>3. CASE last_command'[q] = last_command[q]
    <3>1. commands'[q] = commands[q] BY <2>2, <2>3 DEF Told
    <3> QED BY <2>1, <2>3, <3>1 DEF Eventual
  <2>4. CASE last_command'[q] # last_command[q] /\ rpc[q] # "exited"
    <3>1. commands'[q] = Append(commands[q], last_command'[q])
      BY <2>2, <2>4 DEF Told, Sent
    <3>2. last_command'[q] \in ControlModes
      BY <1>3, <2>4 DEF Poll, Desired, ControlModes
    <3>3. commands[q] \in Seq(ControlModes) BY DEF TypeOK
    <3>4. Eventual(q)' = last_command'[q]
      BY <3>1, <3>2, <3>3, LastIs DEF Eventual
    <3> QED BY <2>1, <3>4
  <2>5. CASE rpc[q] = "exited"
    BY <2>1, <2>5
  <2> QED BY <2>3, <2>4, <2>5
<1>4. CASE Final
  <2>1. UNCHANGED <<rpc, draining, control_mode>> BY <1>4 DEF Final
  <2>2. last_command'[q] = "ShutdownDrain" /\ commands'[q] = Sent(q, "ShutdownDrain")
    BY <1>4 DEF Final, All
  <2>3. CASE rpc[q] # "exited"
    <3>1. commands'[q] = Append(commands[q], "ShutdownDrain") BY <2>2, <2>3 DEF Sent
    <3>2. commands[q] \in Seq(ControlModes) /\ "ShutdownDrain" \in ControlModes
      BY DEF TypeOK, ControlModes
    <3>3. Eventual(q)' = "ShutdownDrain" BY <3>1, <3>2, LastIs DEF Eventual
    <3> QED BY <2>1, <2>2, <3>3
  <2>4. CASE rpc[q] = "exited"
    BY <2>1, <2>4
  <2> QED BY <2>3, <2>4
<1>5. CASE Signal \/ LoadEnds \/ UNCHANGED vars
  BY <1>0, <1>5 DEF Signal, LoadEnds, vars
<1> QED BY <1>1, <1>2, <1>3, <1>4, <1>5 DEF Next, Scheduler, Terminated

\* The scheduler sends a mode only when it changes (main.rs 269), and yet a reader
\* that has read its channel is in the mode the scheduler last noted, unless it
\* drains: however commands, rounds and polls interleave.
THEOREM CommandsAgreeHolds == Spec => []CommandsAgree
<1>1. Init => \A r \in Readers : Known(r)
  BY DEF Init, All, Known, Eventual
<1>2. TypeOK /\ TypeOK' /\ (\A r \in Readers : Known(r)) /\ [Next]_vars
        => (\A r \in Readers : Known(r))'
  BY NextKnown
<1>3. (\A r \in Readers : Known(r)) => CommandsAgree
  BY DEF Known, CommandsAgree
<1> QED BY <1>1, <1>2, <1>3, ControlTyping, PTL DEF Spec
=============================================================================
