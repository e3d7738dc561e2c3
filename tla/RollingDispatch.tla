-------------------------- MODULE RollingDispatch --------------------------
(***************************************************************************)
(* A battery backtest (pipelines/backtest_dispatch.py): the MILP schedule   *)
(* is solved at every forecast origin and its first row applied, then the   *)
(* two baselines are rolled over the same origins.  Each strategy starts    *)
(* from the battery's initial state of charge.                              *)
(*                                                                         *)
(* Energies are whole numbers of a unit.  A schedule row carries the charge *)
(* and the discharge of one step and the state of charge at its end, as the *)
(* variables of the MILP do; forecasts and prices only choose among the     *)
(* feasible schedules, so the solver may return any of them.  Row n of the  *)
(* horizon at origin o is at step start + o + n of the timeline.            *)
(***************************************************************************)
EXTENDS Integers, Sequences, FiniteSets, FiniteSetsExt

CONSTANTS
  Batteries,    \* the specifications a backtest may be given
  StepsPerDay,  \* dispatch steps in a UTC day
  Horizon,      \* DISPATCH_HORIZON_HOURS in steps
  Origins       \* bound: forecast origins in the range of the backtest

(* BatterySpecification.__post_init__.  In one step, a unit of charge stores *)
(* gain units and a unit of discharge takes draw (the efficiencies are at    *)
(* most 1, so gain <= draw); keep is the percentage self-discharge leaves,   *)
(* and budget the throughput 2 * capacity * maximum_daily_cycles.            *)
ValidBattery(b) ==
  /\ {b.maxCharge, b.maxDischarge, b.budget, b.gain, b.draw} \subseteq Nat \ {0}
  /\ {b.minSoc, b.maxSoc, b.capacity} \subseteq Nat
  /\ b.minSoc < b.maxSoc /\ b.maxSoc <= b.capacity
  /\ {b.initial, b.terminal, b.reserve} \subseteq b.minSoc .. b.maxSoc
  /\ b.gain <= b.draw
  /\ b.keep \in 1 .. 100

ASSUME BatteryAssumption == \A b \in Batteries : ValidBattery(b)
ASSUME HorizonAssumption == /\ StepsPerDay \in Nat \ {0}
                            /\ Horizon \in Nat \ {0}
                            /\ Origins \in Nat \ {0}

VARIABLES
  battery, start,  \* the backtest's battery, and the step before its range
  strategy,        \* whose turn it is, or how the backtest ended
  origin,          \* origins this strategy has done
  soc,             \* the state of charge it has reached
  used,            \* daily_throughput: what its applied rows moved each day
  applied          \* the applied rows of each strategy

vars == <<battery, start, strategy, origin, soc, used, applied>>

Strategies == {"optimized", "no_battery", "rule_based"}
Days       == 0 .. (StepsPerDay + Origins + Horizon) \div StepsPerDay
Day(step)  == step \div StepsPerDay

Rows(b) == [charge: 0 .. b.maxCharge, discharge: 0 .. b.maxDischarge,
            soc: b.minSoc .. b.maxSoc]

(* The state of charge handed to the next origin satisfies the specification *)
(* (with_initial_soc), and only valid rows are applied.                      *)
TypeOK ==
  /\ battery \in Batteries
  /\ start \in 0 .. StepsPerDay - 1
  /\ strategy \in Strategies \cup {"done", "failed"}
  /\ origin \in 0 .. Origins
  /\ soc \in battery.minSoc .. battery.maxSoc
  /\ used \in [Days -> Nat]
  /\ applied \in [Strategies -> Seq(Rows(battery))]

Init == /\ battery \in Batteries
        /\ start \in 0 .. StepsPerDay - 1
        /\ strategy = "optimized"
        /\ origin = 0
        /\ soc = battery.initial
        /\ used = [d \in Days |-> 0]
        /\ applied = [s \in Strategies |-> <<>>]

-----------------------------------------------------------------------------
EffectiveMin(b) == IF b.reserve > b.minSoc THEN b.reserve ELSE b.minSoc

Kept(b, level) == (level * b.keep) \div 100

(* soc_transition.                                                           *)
After(b, level, charge, discharge) ==
  Kept(b, level) + charge * b.gain - discharge * b.draw

Row(b, level, charge, discharge) ==
  [charge |-> charge, discharge |-> discharge, soc |-> After(b, level, charge, discharge)]

(* The state of charge before row n of a schedule that starts at a level.    *)
Before(rows, level, n) == IF n = 1 THEN level ELSE rows[n - 1].soc

(* Energy moved on a day by rows that start after the step first.            *)
Moved(rows, first, day, n) ==
  IF Day(first + n) = day THEN rows[n].charge + rows[n].discharge ELSE 0

Throughput(rows, first, day) ==
  LET upto[n \in 0 .. Len(rows)] ==
        IF n = 0 THEN 0 ELSE upto[n - 1] + Moved(rows, first, day, n)
  IN  upto[Len(rows)]

(* validate_dispatch_physics, without the terminal condition.                *)
IsPhysical(b, rows, level, first) ==
  /\ \A n \in DOMAIN rows :
       /\ rows[n].charge \in 0 .. b.maxCharge
       /\ rows[n].discharge \in 0 .. b.maxDischarge
       /\ rows[n].charge = 0 \/ rows[n].discharge = 0
       /\ rows[n].soc \in EffectiveMin(b) .. b.maxSoc
       /\ rows[n] = Row(b, Before(rows, level, n), rows[n].charge, rows[n].discharge)
  /\ \A d \in Days : Throughput(rows, first, d) <= b.budget

Moves(b) == {<<c, 0>> : c \in 0 .. b.maxCharge} \cup {<<0, d>> : d \in 0 .. b.maxDischarge}

(* Row sequences within the bounds on power and on the state of charge.      *)
Extended(b, level, rows) ==
  {next \in {Row(b, Before(rows, level, Len(rows) + 1), m[1], m[2]) : m \in Moves(b)} :
     next.soc \in EffectiveMin(b) .. b.maxSoc}

Schedules(b, level) ==
  LET upto[n \in 0 .. Horizon] ==
        IF n = 0 THEN {<<>>}
        ELSE UNION {{Append(rows, next) : next \in Extended(b, level, rows)}
                      : rows \in upto[n - 1]}
  IN  upto[Horizon]

(* What the rows of one day may still move (physical_constraints).           *)
SlipBudgetNeverResets(b, moved, day) == b.budget - MapThenSumSet(LAMBDA d : moved[d], Days)

Remaining(b, moved, day) == b.budget - moved[day]

(* The schedules the MILP allows: the horizon ends at the terminal target,   *)
(* and each of its days stays within what earlier origins left of the day.   *)
Feasible(b, level, moved, first) ==
  {rows \in Schedules(b, level) :
     /\ rows[Horizon].soc = b.terminal
     /\ \A n \in 1 .. Horizon :
          Throughput(rows, first, Day(first + n)) <= Remaining(b, moved, Day(first + n))}

-----------------------------------------------------------------------------
(* Only the first row of a schedule is applied.                              *)
Apply(row) ==
  /\ applied' = [applied EXCEPT ![strategy] = Append(@, row)]
  /\ soc' = row.soc
  /\ origin' = origin + 1

(* Faulty forms, named Slip..., stand before the definitions they would      *)
(* replace; each is a plausible slip in the code and breaks some property.   *)
SlipThroughputPerHorizon ==
  /\ strategy = "optimized" /\ origin < Origins
  /\ \E rows \in Feasible(battery, soc, used, start + origin) : Apply(rows[1])
  /\ UNCHANGED <<battery, start, strategy, used>>

SlipCarryWithoutLosses ==
  /\ strategy = "optimized" /\ origin < Origins
  /\ \E rows \in Feasible(battery, soc, used, start + origin) :
       /\ applied' = [applied EXCEPT ![strategy] = Append(@, rows[1])]
       /\ soc' = soc + rows[1].charge * battery.draw - rows[1].discharge * battery.gain
       /\ used' = [used EXCEPT ![Day(start + origin + 1)] =
                     @ + rows[1].charge + rows[1].discharge]
  /\ origin' = origin + 1
  /\ UNCHANGED <<battery, start, strategy>>

(* rolling_horizon_simulation at one origin.                                 *)
Optimize ==
  /\ strategy = "optimized" /\ origin < Origins
  /\ \E rows \in Feasible(battery, soc, used, start + origin) :
       /\ Apply(rows[1])
       /\ used' = [used EXCEPT ![Day(start + origin + 1)] =
                     @ + rows[1].charge + rows[1].discharge]
  /\ UNCHANGED <<battery, start, strategy>>

Fail == /\ strategy' = "failed"
        /\ UNCHANGED <<battery, start, origin, soc, used, applied>>

(* The solver's "infeasible" is raised and ends the backtest.                *)
Infeasible == /\ strategy = "optimized" /\ origin < Origins
              /\ Feasible(battery, soc, used, start + origin) = {}
              /\ Fail

(* The solver times out, or a forecast or an observation is missing.         *)
StepFails == /\ strategy \in Strategies /\ origin < Origins
             /\ Fail

-----------------------------------------------------------------------------
(* The rule asks for full charge on renewable surplus or up to the lower     *)
(* quartile of the horizon's net load, for full discharge above the upper.   *)
(* The lowest row is never above the lower quartile, and no more rows than   *)
(* this lie above the upper one; forecasts decide which rows they are.       *)
RuleRequests ==
  {r \in [1 .. Horizon -> {"charge", "discharge", "idle"}] :
     /\ \E n \in 1 .. Horizon : r[n] = "charge"
     /\ Cardinality({n \in 1 .. Horizon : r[n] = "discharge"})
          <= (Horizon - 1) - (3 * (Horizon - 1)) \div 4}

Requests == IF strategy = "rule_based" THEN RuleRequests
            ELSE {[n \in 1 .. Horizon |-> "idle"]}

Least(a, b) == IF a < b THEN a ELSE b
NonNegative(a) == IF a < 0 THEN 0 ELSE a

(* _sequential_schedule: each request is cut to what the battery can take.   *)
Granted(b, level, request) ==
  CASE request = "charge" ->
         Row(b, level, Least(b.maxCharge,
                             NonNegative(b.maxSoc - Kept(b, level)) \div b.gain), 0)
    [] request = "discharge" ->
         Row(b, level, 0, Least(b.maxDischarge,
                                NonNegative(Kept(b, level) - EffectiveMin(b)) \div b.draw))
    [] request = "idle" -> Row(b, level, 0, 0)

SequentialSchedule(b, level, requests) ==
  LET upto[n \in 0 .. Horizon] ==
        IF n = 0 THEN <<>>
        ELSE Append(upto[n - 1],
                    Granted(b, Before(upto[n - 1], level, n), requests[n]))
  IN  upto[Horizon]

(* _rolling_baseline at one origin: a schedule that fails the validation of  *)
(* its own horizon is raised.                                                *)
Baseline ==
  /\ strategy \in {"no_battery", "rule_based"} /\ origin < Origins
  /\ \E r \in Requests :
       LET rows == SequentialSchedule(battery, soc, r)
       IN  IF IsPhysical(battery, rows, soc, start + origin)
           THEN Apply(rows[1]) /\ UNCHANGED <<battery, start, strategy, used>>
           ELSE Fail

Following == [optimized |-> "no_battery", no_battery |-> "rule_based", rule_based |-> "done"]

FinishStrategy ==
  /\ strategy \in Strategies /\ origin = Origins
  /\ strategy' = Following[strategy]
  /\ origin' = 0
  /\ soc' = battery.initial
  /\ used' = [d \in Days |-> 0]
  /\ UNCHANGED <<battery, start, applied>>

Next == Optimize \/ Infeasible \/ StepFails \/ Baseline \/ FinishStrategy

Spec == Init /\ [][Next]_vars

-----------------------------------------------------------------------------
(* The first rows of many schedules, put together, are one schedule that     *)
(* passes the validation each solve got for its own horizon: it continues    *)
(* from row to row, stays between reserve and maximum, and no day exceeds    *)
(* the cycle limit although the solves of a day saw different horizons       *)
(* (rolling_horizon_simulation, simulation.py:172-210).                      *)
AppliedIsPhysical ==
  IsPhysical(battery, applied["optimized"], battery.initial, start)

(* Without self-discharge, one feasible solve makes every later one feasible *)
(* whatever schedules are chosen: a simulation never applies itself into a   *)
(* corner at the terminal target or the day's limit.                         *)
StaysFeasible ==
  (battery.keep = 100 /\ strategy = "optimized" /\ origin \in 1 .. Origins - 1)
    => Feasible(battery, soc, used, start + origin) # {}

(* What a baseline puts together is a schedule too: "battery-dispatch        *)
(* simulations with SOC, power, reserve, cycle, and continuity validation".  *)
RuleBasedIsPhysical ==
  IsPhysical(battery, applied["rule_based"], battery.initial, start)
=============================================================================
