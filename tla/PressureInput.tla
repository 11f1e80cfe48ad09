--------------------------- MODULE PressureInput ---------------------------
(***************************************************************************)
(* The pressure input chain of src/device/pump_task.c, pump_task_cycle:    *)
(* simulation override, jump filter with re-synchronisation, debounce.     *)
(* Each control cycle turns one hardware reading into the pair             *)
(* (use_bar, sensor_ok) that pm_update is given.                           *)
(*                                                                         *)
(* The environment is the true pressure `real', which moves by at most     *)
(* Drift per cycle, and a hardware read that may fail (I2C error or a      *)
(* voltage below PUMP_SENSOR_MIN_MV).  Pressure is in whole bar.           *)
(***************************************************************************)
EXTENDS Integers

CONSTANTS
  MaxBar,      \* pressures are 0 .. MaxBar
  MaxJump,     \* PUMP_MAX_JUMP_BAR
  Consist,     \* PUMP_JUMP_CONSIST_BAR
  ResyncN,     \* PUMP_JUMP_RESYNC_N
  FailLimit,   \* PUMP_SENSOR_FAIL_LIMIT
  FailCap,     \* 255, where the failure counter stops
  Drift,       \* largest real pressure change per cycle
  SimValues    \* values of Fon_Pressure_Value ({}: no simulation)

ASSUME InputAssumption ==
  /\ MaxBar \in Nat /\ MaxJump \in Nat /\ Consist \in Nat /\ Drift \in Nat
  /\ ResyncN \in Nat \ {0}
  /\ FailLimit \in Nat \ {0} /\ FailCap \in Nat /\ FailCap >= FailLimit
  /\ SimValues \subseteq 0 .. MaxBar

VARIABLES
  have_good, last_good,          \* s_bHaveGood, s_flLastGoodBar
  jump_pending, jump_anchor,     \* s_ucJumpPending, s_flJumpPendingBar
  fails,                         \* s_ucSensorFails
  sensor_ok, use_bar,            \* what pm_update gets
  real,                          \* the true pressure at the last cycle
  misses,                        \* history: consecutive failed reads; an
                                 \* outage (FailLimit of them, or a
                                 \* simulation) lasts until a sample is
                                 \* accepted again
  steady                         \* history: consecutive good reads of the
                                 \* same true pressure, without simulation
vars == <<have_good, last_good, jump_pending, jump_anchor, fails, sensor_ok,
          use_bar, real, misses, steady>>

Bars == 0 .. MaxBar

Far(a, b, d) == a - b > d \/ b - a > d

\* mutant: a rejected sample never becomes the anchor of a new sequence
next_pending_stuck(bar) ==
  IF ~Far(bar, jump_anchor, Consist) THEN jump_pending + 1 ELSE jump_pending

\* consistent rejected samples including this one
next_pending(bar) ==
  IF jump_pending > 0 /\ ~Far(bar, jump_anchor, Consist)
  THEN jump_pending + 1 ELSE 1

\* mutant: the first accepted sample does not end a series of failures
debounce_no_reset(meas_ok, bar) ==
  /\ fails' = IF meas_ok \/ fails = FailCap THEN fails ELSE fails + 1
  /\ last_good' = IF meas_ok THEN bar ELSE last_good
  /\ have_good' = (have_good \/ meas_ok)
  /\ sensor_ok' = (fails' < FailLimit)
  /\ use_bar' = IF meas_ok THEN bar ELSE IF have_good THEN last_good ELSE 0

debounce(meas_ok, bar) ==
  /\ fails' = IF meas_ok THEN 0 ELSE IF fails < FailCap THEN fails + 1
                                                         ELSE fails
  /\ last_good' = IF meas_ok THEN bar ELSE last_good
  /\ have_good' = (have_good \/ meas_ok)
  /\ sensor_ok' = (meas_ok \/ fails' < FailLimit)
  /\ use_bar' = IF meas_ok THEN bar ELSE IF have_good THEN last_good ELSE 0

(* One cycle with the true pressure bar.                                   *)

Failed(bar) ==                          \* hardware read failed
  /\ jump_pending' = 0
  /\ UNCHANGED jump_anchor
  /\ debounce(FALSE, bar)

Plausible(bar) ==
  /\ ~(have_good /\ Far(bar, last_good, MaxJump))
  /\ jump_pending' = 0
  /\ UNCHANGED jump_anchor
  /\ debounce(TRUE, bar)

Rejected(bar) ==
  /\ have_good /\ Far(bar, last_good, MaxJump)
  /\ next_pending(bar) < ResyncN
  /\ jump_pending' = next_pending(bar)
  /\ jump_anchor' = IF next_pending(bar) = 1 THEN bar ELSE jump_anchor
  /\ debounce(FALSE, bar)

Resync(bar) ==
  /\ have_good /\ Far(bar, last_good, MaxJump)
  /\ next_pending(bar) >= ResyncN
  /\ jump_pending' = 0
  /\ jump_anchor' = IF next_pending(bar) = 1 THEN bar ELSE jump_anchor
  /\ debounce(TRUE, bar)

Simulated(value) ==                     \* Fon_Pressure_Manual bypasses all
  /\ jump_pending' = 0
  /\ UNCHANGED jump_anchor
  /\ debounce(TRUE, value)

----------------------------------------------------------------------------
Init ==
  /\ have_good = FALSE /\ last_good = 0
  /\ jump_pending = 0 /\ jump_anchor = 0
  /\ fails = 0 /\ sensor_ok = TRUE /\ use_bar = 0
  /\ real \in Bars
  /\ misses = 0 /\ steady = 0

\* saturating history counters
Up(n, cap) == IF n < cap THEN n + 1 ELSE n

ReadOk ==
  /\ real' \in Bars /\ ~Far(real', real, Drift)
  /\ Plausible(real') \/ Rejected(real') \/ Resync(real')
  /\ misses' = IF misses = FailLimit /\ fails' # 0 THEN misses ELSE 0
  /\ steady' = IF real' = real THEN Up(steady, ResyncN) ELSE 1

ReadFail ==
  /\ real' \in Bars /\ ~Far(real', real, Drift)
  /\ Failed(real')
  /\ misses' = Up(misses, FailLimit)
  /\ steady' = 0

Simulate ==
  /\ real' \in Bars /\ ~Far(real', real, Drift)
  /\ \E v \in SimValues : Simulated(v)
  /\ misses' = FailLimit
  /\ steady' = 0

Next == ReadOk \/ ReadFail \/ Simulate

Spec == Init /\ [][Next]_vars

----------------------------------------------------------------------------
TypeOK ==
  /\ have_good \in BOOLEAN /\ sensor_ok \in BOOLEAN
  /\ last_good \in Bars /\ jump_anchor \in Bars /\ use_bar \in Bars
  /\ real \in Bars
  /\ jump_pending \in 0 .. ResyncN - 1
  /\ fails \in 0 .. FailCap
  /\ misses \in 0 .. FailLimit
  /\ steady \in 0 .. ResyncN

(* "a SINGLE I2C glitch must not latch a sensor fault ... only N           *)
(* consecutive bad readings count as a broken sensor": while fewer than    *)
(* PUMP_SENSOR_FAIL_LIMIT reads failed in a row, the pump manager is told  *)
(* that the sensor is healthy.  The jump filter feeds the same counter and *)
(* compares with a value that is held during misses, so this also says     *)
(* that the filter never rejects a signal that drifts meanwhile.  After a  *)
(* simulation the chain has to meet a plausible sample first: the last     *)
(* simulated value stays the reference of the jump filter.                 *)
GlitchesTolerated == misses < FailLimit => sensor_ok

(* The jump filter cannot get stuck: after PUMP_JUMP_RESYNC_N good reads   *)
(* of one level, whatever anchor was pending before, that level is what    *)
(* the pump manager works with and the sensor counts as healthy.           *)
LevelAdopted == steady = ResyncN => sensor_ok /\ use_bar = real

(* The strengthening behind GlitchesTolerated: outside an outage the       *)
(* filter has no rejection pending, the failures are exactly the missed    *)
(* reads, and the true pressure is at most one drift per missed read away  *)
(* from the held value.                                                    *)
IInv ==
  /\ TypeOK
  /\ misses < FailLimit =>
       /\ fails = misses
       /\ sensor_ok
       /\ have_good => /\ jump_pending = 0
                       /\ ~Far(real, last_good, Drift * misses)
=============================================================================
