---------------------------- MODULE PumpManager ----------------------------
(***************************************************************************)
(* The pure pump state machine of src/device/pump_manager.c: pressure,     *)
(* sensor health and time come in through pm_update, remote requests       *)
(* through the pm_request_* family, and the relay decision comes out.      *)
(*                                                                         *)
(* Pressure is a level (a natural number) compared with the configured     *)
(* thresholds; the exponential filter is abstracted to its outcome, the    *)
(* new filtered level and whether the slope counts as stable.  Time is a   *)
(* natural number of time units; 0 is the "never" value of a time stamp,   *)
(* as in the C structure.  The reporting metrics (demand class, plateau,   *)
(* flow, score) take no part in a decision and are left out.               *)
(***************************************************************************)
EXTENDS Integers, FiniteSets

CONSTANTS
  Levels,       \* filtered pressure levels
  Configs,      \* the configurations the datapoints may hold
  Durations,    \* durations a timed switch-on may ask for (0 = unlimited)
  History,      \* PM_START_HISTORY, length of the start ring
  Hour,         \* window of the starts-per-hour guard
  ManualMaxOn,  \* PM_MANUAL_MAX_ON_S, ceiling of a timed switch-on
  MaxGap,       \* longest distance between two control cycles
  MaxTime       \* bound on the clock

Config == [on : Nat, off : Nat, critical : Nat, min_on : Nat, min_off : Nat,
           max_on : Nat, dry_detect : Nat, dry_rise : Nat,
           drop_confirm : Nat, recovery_timeout : Nat,
           max_starts : 1 .. History]

ASSUME PumpAssumption ==
  /\ Levels \subseteq Nat
  /\ Durations \subseteq Nat
  /\ History \in Nat \ {0}
  /\ Hour \in Nat
  /\ ManualMaxOn \in Nat \ {0}
  /\ MaxGap \in Nat \ {0}
  /\ MaxTime \in Nat
  /\ Configs \subseteq Config

VARIABLES
  cfg, state, mode, fault, relay_on,
  state_enter, last_update, pump_start, pump_stop,
  event_start, manual_until,    \* time stamps, 0 = never / none
  pressure,                     \* m.pressure_filtered_bar
  start_bar,                    \* level at pump start (dry-run reference)
  event_start_bar,              \* level at the start of the demand event
  starts, starts_idx,           \* ring of the last start times
  cycles_total,                 \* m.cycles_total, pump starts since boot
  now,                          \* the clock the callers pass in
  lastOff, startLog             \* history: last falling edge, all starts

runVars   == <<pump_start, start_bar, starts, starts_idx, cycles_total>>
eventVars == <<event_start, event_start_bar>>
pmVars    == <<cfg, state, mode, fault, relay_on, state_enter, last_update,
               pump_stop, manual_until, pressure, runVars, eventVars>>
vars      == <<pmVars, now, lastOff, startLog>>

States == {"INIT", "IDLE", "PRESSURE_DROP", "STARTING", "RUNNING",
           "RECOVERING", "LOCKOUT", "FAULT"}
Modes  == {"MANUAL", "AUTO"}
Faults == {"NONE", "SENSOR", "CRITICAL_LOW", "MAX_RUNTIME", "DRY_RUN",
           "TOO_MANY_STARTS"}

----------------------------------------------------------------------------
(* Helpers of the state machine.                                           *)

Later(a, b) == IF a > b THEN a ELSE b

enter_state(s, t) ==
  /\ state' = s
  /\ state_enter' = IF state = s THEN state_enter ELSE t

latch_fault_no_stop_stamp(f, t) ==      \* mutant: a fault leaves no stop time
  /\ fault' = f
  /\ relay_on' = FALSE
  /\ enter_state("FAULT", t)
  /\ UNCHANGED <<pump_stop, manual_until, runVars, eventVars>>

latch_fault(f, t) ==
  /\ fault' = f
  /\ relay_on' = FALSE
  /\ pump_stop' = IF relay_on \/ pump_start > pump_stop THEN t ELSE pump_stop
  /\ enter_state("FAULT", t)
  /\ UNCHANGED <<manual_until, runVars, eventVars>>

pump_on(t, p) ==
  /\ relay_on' = TRUE
  /\ pump_start' = t
  /\ start_bar' = p
  /\ starts' = [starts EXCEPT ![starts_idx] = t]
  /\ starts_idx' = (starts_idx + 1) % History
  /\ cycles_total' = cycles_total + 1

pump_off(t) ==
  /\ relay_on' = FALSE
  /\ pump_stop' = t
  /\ manual_until' = 0

run_ms(t) == Later(t - pump_start, 0)

starts_in_open_hour(t) ==        \* mutant: the window is one time unit short
  Cardinality({i \in 0 .. History - 1 : starts[i] # 0 /\ t - starts[i] < Hour})

starts_in_last_hour(t) ==
  Cardinality({i \in 0 .. History - 1 : starts[i] # 0 /\ t - starts[i] <= Hour})

min_off_elapsed(t) == pump_stop = 0 \/ t - pump_stop >= cfg.min_off

event_begin(t, p) == event_start' = t /\ event_start_bar' = p

event_end == event_start' = 0 /\ UNCHANGED event_start_bar

----------------------------------------------------------------------------
(* pm_update: one control cycle at time t with the new filtered level p,   *)
(* sensor health ok and slope verdict stable.  First the protections that  *)
(* hold in every state, then the step of the current state.                *)

max_run_of_deadline ==          \* mutant: an extended deadline moves the limit
  IF mode = "MANUAL" /\ manual_until # 0 THEN manual_until - pump_start + 1
                                         ELSE cfg.max_on

max_run == IF mode = "MANUAL" /\ manual_until # 0 THEN ManualMaxOn
                                                  ELSE cfg.max_on

pipe_break(p) == p < cfg.critical /\ event_start_bar >= cfg.critical

protection(p, ok, t) ==
  IF ~ok THEN "SENSOR"
  ELSE IF ~relay_on THEN "NONE"
  ELSE IF pipe_break(p) THEN "CRITICAL_LOW"
  ELSE IF run_ms(t) >= max_run THEN "MAX_RUNTIME"
  ELSE IF run_ms(t) >= cfg.dry_detect /\ p - start_bar < cfg.dry_rise
       THEN "DRY_RUN"
  ELSE "NONE"

step_init(t) ==
  /\ state = "INIT"
  /\ relay_on' = FALSE
  /\ enter_state("IDLE", t)
  /\ UNCHANGED <<fault, pump_stop, manual_until, runVars, eventVars>>

step_idle(p, t) ==
  /\ state = "IDLE"
  /\ relay_on' = FALSE
  /\ IF mode = "AUTO" /\ p < cfg.on
     THEN event_begin(t, p) /\ enter_state("PRESSURE_DROP", t)
     ELSE UNCHANGED <<state, state_enter, eventVars>>
  /\ UNCHANGED <<fault, pump_stop, manual_until, runVars>>

step_drop_cancel(p, t) ==            \* mode changed mid-drop, or a brief dip
  /\ state = "PRESSURE_DROP"
  /\ mode # "AUTO" \/ p >= cfg.on
  /\ relay_on' = FALSE
  /\ event_end
  /\ enter_state("IDLE", t)
  /\ UNCHANGED <<fault, pump_stop, manual_until, runVars>>

step_drop_wait(p, t) ==
  /\ state = "PRESSURE_DROP"
  /\ mode = "AUTO" /\ p < cfg.on
  /\ t - state_enter < cfg.drop_confirm
  /\ relay_on' = FALSE
  /\ UNCHANGED <<state, state_enter, fault, pump_stop, manual_until,
                 runVars, eventVars>>

step_drop_confirm(p, t) ==           \* PIPE_BREAK is p < critical
  /\ state = "PRESSURE_DROP"
  /\ mode = "AUTO" /\ p < cfg.on
  /\ t - state_enter >= cfg.drop_confirm
  /\ IF pipe_break(p)
     THEN latch_fault("CRITICAL_LOW", t)
     ELSE /\ relay_on' = FALSE
          /\ enter_state("STARTING", t)
          /\ UNCHANGED <<fault, pump_stop, manual_until, runVars, eventVars>>

step_starting(p, t) ==
  /\ state = "STARTING"
  /\ \/ /\ starts_in_last_hour(t) >= cfg.max_starts
        /\ latch_fault("TOO_MANY_STARTS", t)
     \/ /\ starts_in_last_hour(t) < cfg.max_starts
        /\ min_off_elapsed(t)
        /\ pump_on(t, p)
        /\ enter_state("RUNNING", t)
        /\ UNCHANGED <<fault, pump_stop, manual_until, eventVars>>
     \/ /\ starts_in_last_hour(t) < cfg.max_starts
        /\ ~min_off_elapsed(t)
        /\ enter_state("LOCKOUT", t)
        /\ UNCHANGED <<relay_on, fault, pump_stop, manual_until, runVars,
                       eventVars>>

stop_due_at_once(p, t) ==             \* mutant: the minimum on-time is skipped
  IF mode = "AUTO" THEN p >= cfg.off ELSE manual_until # 0 /\ t >= manual_until

stop_due(p, t) ==
  /\ run_ms(t) >= cfg.min_on
  /\ IF mode = "AUTO" THEN p >= cfg.off
                      ELSE manual_until # 0 /\ t >= manual_until

step_running(p, t) ==
  /\ state = "RUNNING"
  /\ \/ /\ stop_due(p, t)
        /\ pump_off(t)
        /\ enter_state("RECOVERING", t)
     \/ /\ ~stop_due(p, t)
        /\ relay_on' = TRUE
        /\ UNCHANGED <<state, state_enter, pump_stop, manual_until>>
  /\ UNCHANGED <<fault, runVars, eventVars>>

recovered_no_timeout(p, stable, t) ==      \* mutant: no recovery timeout
  p >= cfg.on /\ stable

recovered(p, stable, t) ==
  (p >= cfg.on /\ stable) \/ t - state_enter >= cfg.recovery_timeout

step_recovering(p, stable, t) ==
  /\ state = "RECOVERING"
  /\ relay_on' = FALSE
  /\ \/ /\ recovered(p, stable, t)
        /\ event_end
        /\ enter_state("LOCKOUT", t)
     \/ /\ ~recovered(p, stable, t)
        /\ UNCHANGED <<state, state_enter, eventVars>>
  /\ UNCHANGED <<fault, pump_stop, manual_until, runVars>>

step_lockout(t) ==
  /\ state = "LOCKOUT"
  /\ relay_on' = FALSE
  /\ IF min_off_elapsed(t) THEN enter_state("IDLE", t)
                           ELSE UNCHANGED <<state, state_enter>>
  /\ UNCHANGED <<fault, pump_stop, manual_until, runVars, eventVars>>

step_fault ==
  /\ state = "FAULT"
  /\ relay_on' = FALSE
  /\ UNCHANGED <<state, state_enter, fault, pump_stop, manual_until,
                 runVars, eventVars>>

pm_update(p, ok, stable, t) ==
  /\ pressure' = p
  /\ last_update' = t
  /\ UNCHANGED <<cfg, mode>>
  /\ \/ step_fault
     \/ /\ state # "FAULT"
        /\ protection(p, ok, t) # "NONE"
        /\ latch_fault(protection(p, ok, t), t)
     \/ /\ protection(p, ok, t) = "NONE"
        /\ \/ step_init(t)
           \/ step_idle(p, t)
           \/ step_drop_cancel(p, t)
           \/ step_drop_wait(p, t)
           \/ step_drop_confirm(p, t)
           \/ step_starting(p, t)
           \/ step_running(p, t)
           \/ step_recovering(p, stable, t)
           \/ step_lockout(t)

----------------------------------------------------------------------------
(* Remote requests.  A refused request leaves the structure alone.         *)

request_on_accepted(t) ==
  /\ state \notin {"FAULT", "INIT"}
  /\ pressure < cfg.off
  /\ min_off_elapsed(t)
  /\ starts_in_last_hour(t) < cfg.max_starts

clamped(d) == IF d > ManualMaxOn THEN ManualMaxOn ELSE d

pm_request_on_keeps_mode(d, t) ==          \* mutant: the mode stays AUTO
  /\ request_on_accepted(t)
  /\ manual_until' = IF d = 0 THEN 0 ELSE t + clamped(d)
  /\ IF event_start = 0 THEN event_begin(t, pressure) ELSE UNCHANGED eventVars
  /\ IF relay_on THEN UNCHANGED <<relay_on, runVars>> ELSE pump_on(t, pressure)
  /\ enter_state("RUNNING", t)
  /\ UNCHANGED <<cfg, mode, fault, last_update, pump_stop, pressure>>

pm_request_on(d, t) ==
  /\ request_on_accepted(t)
  /\ mode' = "MANUAL"
  /\ manual_until' = IF d = 0 THEN 0 ELSE t + clamped(d)
  /\ IF event_start = 0 THEN event_begin(t, pressure) ELSE UNCHANGED eventVars
  /\ IF relay_on THEN UNCHANGED <<relay_on, runVars>> ELSE pump_on(t, pressure)
  /\ enter_state("RUNNING", t)
  /\ UNCHANGED <<cfg, fault, last_update, pump_stop, pressure>>

pm_request_off(t) ==
  /\ mode' = "MANUAL"
  /\ manual_until' = IF state # "FAULT" /\ relay_on
                     THEN Later(t, pump_start + cfg.min_on)
                     ELSE manual_until
  /\ IF state # "FAULT" /\ ~relay_on
     THEN enter_state("IDLE", t)
     ELSE UNCHANGED <<state, state_enter>>
  /\ UNCHANGED <<cfg, fault, relay_on, last_update, pump_stop, pressure,
                 runVars, eventVars>>

pm_request_restart(t) ==
  /\ state # "FAULT"
  /\ relay_on
  /\ pump_off(t)
  /\ enter_state("RECOVERING", t)
  /\ UNCHANGED <<cfg, mode, fault, last_update, pressure, runVars, eventVars>>

pm_mode_set(m, t) ==
  /\ mode' = m
  /\ manual_until' = IF state # "FAULT" /\ m = "MANUAL" /\ relay_on
                     THEN 0 ELSE manual_until
  /\ UNCHANGED <<cfg, state, fault, relay_on, state_enter, last_update,
                 pump_stop, pressure, runVars, eventVars>>

pm_fault_ack(ok, t) ==
  /\ state = "FAULT"
  /\ ok
  /\ fault' = "NONE"
  /\ event_end
  /\ enter_state("IDLE", t)
  /\ UNCHANGED <<cfg, mode, relay_on, last_update, pump_stop, manual_until,
                 pressure, runVars>>

pm_config_set(c) ==
  /\ cfg' = c
  /\ UNCHANGED <<state, mode, fault, relay_on, state_enter, last_update,
                 pump_stop, manual_until, pressure, runVars, eventVars>>

----------------------------------------------------------------------------
(* The closed specification: a clock, control cycles at most MaxGap apart, *)
(* and requests at any time between them.  The two history variables       *)
(* observe the relay and are independent of the code's own time stamps.    *)

pm_init(c) ==
  /\ cfg = c
  /\ state = "INIT" /\ mode = "MANUAL" /\ fault = "NONE" /\ relay_on = FALSE
  /\ state_enter = 0 /\ last_update = 0 /\ pump_start = 0 /\ pump_stop = 0
  /\ event_start = 0 /\ manual_until = 0
  /\ pressure = 0 /\ start_bar = 0 /\ event_start_bar = 0
  /\ starts = [i \in 0 .. History - 1 |-> 0]
  /\ starts_idx = 0 /\ cycles_total = 0

Init ==
  /\ \E c \in Configs : pm_init(c)
  /\ now = 1
  /\ lastOff = 0
  /\ startLog = {}

Observe ==
  /\ lastOff' = IF relay_on /\ ~relay_on' THEN now ELSE lastOff
  /\ startLog' = IF ~relay_on /\ relay_on'
                 THEN startLog \cup {[n |-> cycles_total', at |-> now]}
                 ELSE startLog
  /\ UNCHANGED now

Update ==
  /\ now > last_update
  /\ \E p \in Levels, ok, stable \in BOOLEAN : pm_update(p, ok, stable, now)
  /\ Observe

RequestOn      == (\E d \in Durations : pm_request_on(d, now)) /\ Observe
RequestOff     == pm_request_off(now) /\ Observe
RequestRestart == pm_request_restart(now) /\ Observe
ModeSet        == (\E m \in Modes : pm_mode_set(m, now)) /\ Observe
FaultAck       == pm_fault_ack(TRUE, now) /\ Observe
ConfigSet      == (\E c \in Configs : pm_config_set(c)) /\ Observe

Elapse ==
  /\ now < MaxTime
  /\ now - last_update < MaxGap
  /\ now' = now + 1
  /\ UNCHANGED <<pmVars, lastOff, startLog>>

Next ==
  \/ Update
  \/ RequestOn
  \/ RequestOff
  \/ RequestRestart
  \/ ModeSet
  \/ FaultAck
  \/ ConfigSet
  \/ Elapse

Spec == Init /\ [][Next]_vars
----------------------------------------------------------------------------
(* Properties.                                                             *)

PmTypeOK ==
  /\ cfg \in Configs
  /\ state \in States /\ mode \in Modes /\ fault \in Faults
  /\ relay_on \in BOOLEAN
  /\ state_enter \in Nat /\ last_update \in Nat
  /\ pump_start \in Nat /\ pump_stop \in Nat
  /\ event_start \in Nat /\ manual_until \in Nat
  /\ pressure \in Nat /\ start_bar \in Nat /\ event_start_bar \in Nat
  /\ starts \in [0 .. History - 1 -> Nat]
  /\ starts_idx \in 0 .. History - 1 /\ cycles_total \in Nat

TypeOK ==
  /\ PmTypeOK
  /\ now \in Nat /\ lastOff \in Nat
  /\ startLog \subseteq [n : Nat, at : Nat]

(* The relay is energised exactly in RUNNING, a fault is latched exactly   *)
(* in FAULT, and a running pump always belongs to an open demand event, so *)
(* that the pipe-break protection compares with the level of this event.   *)
(* pump_manager.c writes these fields separately in every handler.         *)
RelayAndFaultMatchState ==
  /\ relay_on <=> state = "RUNNING"
  /\ fault # "NONE" <=> state = "FAULT"
  /\ relay_on => event_start # 0

(* No time stamp lies in the future, so none of the unsigned differences   *)
(* ullNow - stamp of pump_manager.c can wrap.                              *)
NoStampInFuture ==
  /\ state_enter <= now /\ last_update <= now /\ event_start <= now
  /\ pump_start <= now /\ pump_stop <= now
  /\ \A i \in 0 .. History - 1 : starts[i] <= now

(* The relay is never on for longer than the ceiling of a timed switch-on  *)
(* or some configured Fon_Max_On_Time, plus one control cycle, whatever    *)
(* requests, mode and configuration changes extend the run.                *)
RunTimeBounded ==
  relay_on => \/ now - pump_start < ManualMaxOn + MaxGap
              \/ \E c \in Configs : now - pump_start < c.max_on + MaxGap

(* No transient state is a trap: the confirmation, the start, the recovery *)
(* and the pause all end within their configured time plus one cycle.      *)
WaitsBounded ==
  /\ state \in {"INIT", "STARTING"} => now - state_enter <= MaxGap
  /\ state = "PRESSURE_DROP" =>
       \E c \in Configs : now - state_enter <= c.drop_confirm + MaxGap
  /\ state = "RECOVERING" =>
       \E c \in Configs : now - state_enter <= c.recovery_timeout + MaxGap
  /\ state = "LOCKOUT" =>
       \E c \in Configs : now - state_enter <= c.min_off + MaxGap

(* The strengthening that makes the invariants above inductive: what the   *)
(* last control cycle saw, in terms of the code's own time stamps.         *)
CycleInv == now >= 1 /\ now - last_update <= MaxGap

EventInv ==
  state \in {"PRESSURE_DROP", "STARTING", "RUNNING", "RECOVERING"} =>
    event_start # 0

StopInv == pump_stop = lastOff /\ (~relay_on => pump_start <= pump_stop)

RunInv ==
  relay_on => \/ last_update <= pump_start
              \/ last_update - pump_start < ManualMaxOn
              \/ \E c \in Configs : last_update - pump_start < c.max_on

WaitInv ==
  /\ state = "INIT" => state_enter = 0 /\ last_update = 0
  /\ state = "STARTING" => last_update <= state_enter
  /\ state = "PRESSURE_DROP" =>
       \/ last_update <= state_enter
       \/ \E c \in Configs : last_update - state_enter < c.drop_confirm
  /\ state = "RECOVERING" =>
       \/ last_update <= state_enter
       \/ \E c \in Configs : last_update - state_enter < c.recovery_timeout
  /\ state = "LOCKOUT" =>
       /\ pump_stop <= state_enter
       /\ \/ last_update <= state_enter
          \/ \E c \in Configs : last_update - pump_stop < c.min_off

IInv ==
  /\ TypeOK /\ RelayAndFaultMatchState /\ NoStampInFuture
  /\ CycleInv /\ EventInv /\ StopInv /\ RunInv /\ WaitInv

(* A start, automatic or requested, respects the configured pause since    *)
(* the relay was really last switched off, by whatever path (timer,        *)
(* pressure, restart or fault).                                            *)
MinOffRespected ==
  [][~relay_on /\ relay_on' => lastOff = 0 \/ now - lastOff >= cfg.min_off]_vars

(* Only a fault or an explicit restart ends a run before the minimum       *)
(* on-time counted from the real start.                                    *)
MinOnRespected ==
  [][relay_on /\ ~relay_on' =>
       \/ state' = "FAULT"
       \/ RequestRestart
       \/ \A s \in startLog : now - s.at >= cfg.min_on]_vars

(* The starts-per-hour guard counts all starts of the last hour although   *)
(* it only remembers PM_START_HISTORY of them in a ring: no start happens  *)
(* when the limit has been reached.                                        *)
StartRateBounded ==
  [][~relay_on /\ relay_on' =>
       Cardinality({s \in startLog : now - s.at <= Hour})
         < cfg.max_starts]_vars

(* The state machine, with all its timers and thresholds, implements the   *)
(* contract the pump task relies on: the relay is only switched on by a    *)
(* request or, after a drop confirmed in AUTO, by a cycle; a fault switches *)
(* it off at once and is neither overwritten nor left except by the ack.   *)
Contract == INSTANCE PumpContract WITH
  FaultCodes <- Faults \ {"NONE"},
  armed <- (state = "STARTING")

ContractHonoured == Contract!Spec
=============================================================================
