-------------------------- MODULE PumpManagerProofs --------------------------
(***************************************************************************)
(* Proofs that the pump state machine keeps its invariants for every       *)
(* configuration, ring length and timing.                                  *)
(***************************************************************************)
EXTENDS PumpManager, FiniteSetTheorems, TLAPS

----------------------------------------------------------------------------
(* Type correctness.                                                       *)

(* The ring index of pump_on stays inside the ring.                        *)
LEMMA RingIndex ==
  ASSUME NEW i \in 0 .. History - 1
  PROVE  (i + 1) % History \in 0 .. History - 1
BY PumpAssumption, SMT

(* The protections of pm_update only ever report a fault code.             *)
LEMMA ProtectionIsFault ==
  ASSUME NEW p, NEW ok, NEW t
  PROVE  protection(p, ok, t) \in Faults
BY DEF protection, Faults

(* Types of the configuration fields, from the assumption on Configs.      *)
LEMMA ConfigFields ==
  ASSUME NEW c \in Configs
  PROVE  /\ c.on \in Nat /\ c.off \in Nat /\ c.critical \in Nat
         /\ c.min_on \in Nat /\ c.min_off \in Nat /\ c.max_on \in Nat
         /\ c.dry_detect \in Nat /\ c.dry_rise \in Nat
         /\ c.drop_confirm \in Nat /\ c.recovery_timeout \in Nat
         /\ c.max_starts \in 1 .. History
BY PumpAssumption DEF Config

(* A control cycle keeps the structure well typed.                         *)
LEMMA UpdateType ==
  ASSUME PmTypeOK, now \in Nat, NEW p \in Levels, NEW ok \in BOOLEAN,
         NEW stable \in BOOLEAN, pm_update(p, ok, stable, now)
  PROVE  PmTypeOK'
<1> USE DEF PmTypeOK, enter_state, runVars, eventVars, States, Faults
<1>0. p \in Nat
  BY PumpAssumption
<1>1. /\ pressure' = p /\ last_update' = now
      /\ cfg' = cfg /\ mode' = mode
  BY DEF pm_update
<1>2. ASSUME NEW f \in Faults, latch_fault(f, now)
      PROVE  PmTypeOK'
  BY <1>0, <1>1, <1>2 DEF latch_fault
<1>3. CASE step_fault
  BY <1>0, <1>1, <1>3 DEF step_fault
<1>4. CASE step_init(now)
  BY <1>0, <1>1, <1>4 DEF step_init
<1>5. CASE step_idle(p, now)
  BY <1>0, <1>1, <1>5 DEF step_idle, event_begin
<1>6. CASE step_drop_cancel(p, now)
  BY <1>0, <1>1, <1>6 DEF step_drop_cancel, event_end
<1>7. CASE step_drop_wait(p, now)
  BY <1>0, <1>1, <1>7 DEF step_drop_wait
<1>8. CASE step_drop_confirm(p, now)
  BY <1>0, <1>1, <1>2, <1>8 DEF step_drop_confirm
<1>9. CASE step_starting(p, now)
  <2>1. CASE latch_fault("TOO_MANY_STARTS", now)
    BY <1>2, <2>1
  <2>2. CASE /\ pump_on(now, p) /\ enter_state("RUNNING", now)
             /\ UNCHANGED <<fault, pump_stop, manual_until, eventVars>>
    BY <1>0, <1>1, <2>2, RingIndex DEF pump_on
  <2>3. CASE /\ enter_state("LOCKOUT", now)
             /\ UNCHANGED <<relay_on, fault, pump_stop, manual_until, runVars,
                            eventVars>>
    BY <1>0, <1>1, <2>3
  <2>4. QED
    BY <1>9, <2>1, <2>2, <2>3 DEF step_starting
<1>10. CASE step_running(p, now)
  <2>1. CASE pump_off(now) /\ enter_state("RECOVERING", now)
    BY <1>0, <1>1, <1>10, <2>1 DEF step_running, pump_off
  <2>2. CASE relay_on' = TRUE /\ UNCHANGED <<state, state_enter, pump_stop,
                                            manual_until>>
    BY <1>0, <1>1, <1>10, <2>2 DEF step_running
  <2>3. QED
    BY <1>10, <2>1, <2>2 DEF step_running
<1>11. CASE step_recovering(p, stable, now)
  <2>1. CASE event_end /\ enter_state("LOCKOUT", now)
    BY <1>0, <1>1, <1>11, <2>1 DEF step_recovering, event_end
  <2>2. CASE UNCHANGED <<state, state_enter, eventVars>>
    BY <1>0, <1>1, <1>11, <2>2 DEF step_recovering
  <2>3. QED
    BY <1>11, <2>1, <2>2 DEF step_recovering
<1>12. CASE step_lockout(now)
  BY <1>0, <1>1, <1>12 DEF step_lockout
<1> QED
  BY <1>2, <1>3, <1>4, <1>5, <1>6, <1>7, <1>8, <1>9, <1>10, <1>11, <1>12,
     ProtectionIsFault DEF pm_update

(* So do the history variables that observe the step.                      *)
LEMMA ObserveType ==
  ASSUME TypeOK, PmTypeOK', Observe
  PROVE  TypeOK'
<1>1. now' \in Nat /\ lastOff' \in Nat
  BY DEF TypeOK, Observe
<1>2. cycles_total' \in Nat
  BY DEF PmTypeOK
<1>3. startLog' \subseteq [n : Nat, at : Nat]
  BY <1>2 DEF TypeOK, Observe
<1> QED
  BY <1>1, <1>3 DEF TypeOK

(* Every step of the specification keeps the types.                        *)
LEMMA StepType ==
  ASSUME TypeOK, [Next]_vars
  PROVE  TypeOK'
<1>0. PmTypeOK /\ now \in Nat
  BY DEF TypeOK
<1>1. CASE Update
  BY <1>0, <1>1, UpdateType, ObserveType DEF Update
<1>2. CASE RequestOn
  <2> PICK d \in Durations : pm_request_on(d, now)
    BY <1>2 DEF RequestOn
  <2>1. manual_until' \in Nat
    BY <1>0, PumpAssumption DEF pm_request_on, clamped
  <2>2. /\ event_start' \in Nat /\ event_start_bar' \in Nat
        /\ state_enter' \in Nat /\ state' = "RUNNING" /\ mode' = "MANUAL"
        /\ UNCHANGED <<cfg, fault, last_update, pump_stop, pressure>>
    BY <1>0 DEF PmTypeOK, pm_request_on, event_begin, enter_state, eventVars
  <2>3. /\ relay_on' \in BOOLEAN /\ pump_start' \in Nat /\ start_bar' \in Nat
        /\ starts' \in [0 .. History - 1 -> Nat]
        /\ starts_idx' \in 0 .. History - 1 /\ cycles_total' \in Nat
    <3>1. CASE UNCHANGED <<relay_on, runVars>>
      BY <1>0, <3>1 DEF PmTypeOK, runVars
    <3>2. CASE pump_on(now, pressure)
      BY <1>0, <3>2, RingIndex DEF PmTypeOK, pump_on
    <3>3. QED
      BY <1>0, <3>1, <3>2 DEF pm_request_on, PmTypeOK
  <2>4. PmTypeOK'
    BY <1>0, <2>1, <2>2, <2>3 DEF PmTypeOK, States, Modes
  <2>5. QED
    BY <1>2, <2>4, ObserveType DEF RequestOn
<1>3. CASE RequestOff
  <2>1. cfg.min_on \in Nat
    BY <1>0, ConfigFields DEF PmTypeOK
  <2>2. manual_until' \in Nat
    BY <1>0, <1>3, <2>1 DEF PmTypeOK, RequestOff, pm_request_off, Later
  <2>3. PmTypeOK'
    BY <1>0, <1>3, <2>2 DEF RequestOff, PmTypeOK, pm_request_off, enter_state,
       runVars, eventVars, Modes, States
  <2>4. QED
    BY <1>3, <2>3, ObserveType DEF RequestOff
<1>4. CASE RequestRestart
  BY <1>0, <1>4, ObserveType DEF RequestRestart, PmTypeOK, pm_request_restart,
     pump_off, enter_state, runVars, eventVars, States
<1>5. CASE ModeSet
  BY <1>0, <1>5, ObserveType DEF ModeSet, PmTypeOK, pm_mode_set, runVars,
     eventVars
<1>6. CASE FaultAck
  BY <1>0, <1>6, ObserveType DEF FaultAck, PmTypeOK, pm_fault_ack, event_end,
     enter_state, runVars, eventVars, States, Faults
<1>7. CASE ConfigSet
  BY <1>0, <1>7, ObserveType DEF ConfigSet, PmTypeOK, pm_config_set, runVars,
     eventVars
<1>8. CASE Elapse
  BY <1>0, <1>8 DEF Elapse, TypeOK, PmTypeOK, pmVars, runVars, eventVars
<1>9. CASE UNCHANGED vars
  BY <1>0, <1>9 DEF vars, TypeOK, PmTypeOK, pmVars, runVars, eventVars
<1> QED
  BY <1>1, <1>2, <1>3, <1>4, <1>5, <1>6, <1>7, <1>8, <1>9 DEF Next

(* The initial state of pm_init is well typed.                             *)
LEMMA InitType == Init => TypeOK
<1> SUFFICES ASSUME NEW c \in Configs, pm_init(c), now = 1, lastOff = 0,
                    startLog = {}
             PROVE  TypeOK
  BY DEF Init
<1>1. starts \in [0 .. History - 1 -> Nat] /\ starts_idx \in 0 .. History - 1
  BY PumpAssumption DEF pm_init
<1>2. PmTypeOK
  BY <1>1 DEF pm_init, PmTypeOK, States, Modes, Faults
<1> QED
  BY <1>2 DEF TypeOK

(* Type correctness of the pump state machine for every instance.          *)
THEOREM TypeCorrect == Spec => []TypeOK
<1>1. Init => TypeOK
  BY InitType
<1>2. TypeOK /\ [Next]_vars => TypeOK'
  BY StepType
<1> QED
  BY <1>1, <1>2, PTL DEF Spec

----------------------------------------------------------------------------
(* The inductive invariant.                                                *)

(* A control cycle preserves the parts of the invariant one by one; the    *)
(* cases are the steps of pm_update.                                       *)
LEMMA UpdateInv ==
  ASSUME IInv, Update
  PROVE  IInv'
<1> PICK p \in Levels, ok \in BOOLEAN, stable \in BOOLEAN :
      pm_update(p, ok, stable, now)
  BY DEF Update
<1> DEFINE Parts == /\ RelayAndFaultMatchState /\ NoStampInFuture
                    /\ StopInv /\ RunInv /\ WaitInv
<1>0. TypeOK'
  BY StepType DEF IInv, Update, Next
<1>1. /\ pressure' = p /\ last_update' = now
      /\ cfg' = cfg /\ mode' = mode /\ now' = now
      /\ lastOff' = (IF relay_on /\ ~relay_on' THEN now ELSE lastOff)
  BY DEF pm_update, Update, Observe
<1> USE <1>1 DEF enter_state, runVars, eventVars, IInv, TypeOK, PmTypeOK
<1>2. CycleInv'
  BY PumpAssumption DEF CycleInv
<1>3. EventInv'
  BY DEF EventInv, CycleInv, pm_update, step_fault, step_init, step_idle,
     step_drop_cancel, step_drop_wait, step_drop_confirm, step_starting,
     step_running, step_recovering, step_lockout, latch_fault, pump_on,
     pump_off, event_begin, event_end
<1> HIDE DEF IInv
<1> USE DEF RelayAndFaultMatchState, NoStampInFuture, StopInv, RunInv,
            WaitInv
<1>4. ASSUME step_fault PROVE Parts'
  BY <1>4 DEF step_fault, IInv
<1>5. ASSUME step_init(now) PROVE Parts'
  BY <1>5 DEF step_init, IInv
<1>6. ASSUME step_idle(p, now) PROVE Parts'
  BY <1>6 DEF step_idle, event_begin, IInv
<1>7. ASSUME step_drop_cancel(p, now) PROVE Parts'
  BY <1>7 DEF step_drop_cancel, event_end, IInv
<1>8. ASSUME step_drop_wait(p, now) PROVE Parts'
  BY <1>8, ConfigFields DEF step_drop_wait, IInv
<1>9. ASSUME NEW f \in Faults \ {"NONE"}, latch_fault(f, now) PROVE Parts'
  BY <1>9 DEF latch_fault, IInv, Faults
<1>10. ASSUME step_drop_confirm(p, now) PROVE Parts'
  <2>1. CASE latch_fault("CRITICAL_LOW", now)
    BY <1>9, <2>1 DEF Faults
  <2>2. CASE /\ relay_on' = FALSE /\ enter_state("STARTING", now)
             /\ UNCHANGED <<fault, pump_stop, manual_until, runVars, eventVars>>
    BY <1>10, <2>2 DEF step_drop_confirm, IInv
  <2>3. QED
    BY <1>10, <2>1, <2>2 DEF step_drop_confirm
<1>11. ASSUME step_starting(p, now) PROVE Parts'
  <2>1. CASE latch_fault("TOO_MANY_STARTS", now)
    BY <1>9, <2>1 DEF Faults
  <2>2. CASE /\ pump_on(now, p) /\ enter_state("RUNNING", now)
             /\ UNCHANGED <<fault, pump_stop, manual_until, eventVars>>
    BY <1>11, <2>2 DEF step_starting, pump_on, IInv, EventInv
  <2>3. CASE /\ enter_state("LOCKOUT", now)
             /\ UNCHANGED <<relay_on, fault, pump_stop, manual_until, runVars,
                            eventVars>>
    BY <1>11, <2>3 DEF step_starting, IInv
  <2>4. QED
    BY <1>11, <2>1, <2>2, <2>3 DEF step_starting
<1>12. ASSUME step_running(p, now), protection(p, ok, now) = "NONE"
       PROVE  Parts'
  <2>1. CASE pump_off(now) /\ enter_state("RECOVERING", now)
    BY <1>12, <2>1 DEF step_running, pump_off, IInv
  <2>2. CASE relay_on' = TRUE /\ UNCHANGED <<state, state_enter, pump_stop,
                                            manual_until>>
    <3>1. now - pump_start < ManualMaxOn \/ now - pump_start < cfg.max_on
      <4>1. relay_on
        BY <1>12 DEF step_running, IInv
      <4>2. ~(run_ms(now) >= max_run)
        BY <1>12, <4>1 DEF protection
      <4>3. run_ms(now) = now - pump_start
        BY DEF run_ms, Later, IInv
      <4>4. cfg.max_on \in Nat
        BY ConfigFields DEF IInv
      <4>5. QED
        BY <4>2, <4>3, <4>4, PumpAssumption DEF max_run, IInv
    <3>2. QED
      BY <1>12, <2>2, <3>1 DEF step_running, IInv
  <2>3. QED
    BY <1>12, <2>1, <2>2 DEF step_running
<1>13. ASSUME step_recovering(p, stable, now) PROVE Parts'
  <2>1. CASE event_end /\ enter_state("LOCKOUT", now)
    BY <1>13, <2>1 DEF step_recovering, event_end, IInv
  <2>2. CASE ~recovered(p, stable, now)
             /\ UNCHANGED <<state, state_enter, eventVars>>
    BY <1>13, <2>2, ConfigFields DEF step_recovering, recovered, IInv
  <2>3. QED
    BY <1>13, <2>1, <2>2 DEF step_recovering
<1>14. ASSUME step_lockout(now) PROVE Parts'
  BY <1>14, ConfigFields DEF step_lockout, min_off_elapsed, IInv
<1>15. Parts'
  BY <1>4, <1>5, <1>6, <1>7, <1>8, <1>9, <1>10, <1>11, <1>12, <1>13, <1>14,
     ProtectionIsFault DEF pm_update
<1> QED
  BY <1>0, <1>2, <1>3, <1>15 DEF IInv

(* Requests, acknowledge, configuration and the clock preserve it as well. *)
LEMMA StepInv ==
  ASSUME IInv, [Next]_vars
  PROVE  IInv'
<1>0. TypeOK'
  BY StepType DEF IInv
<1> DEFINE Parts == /\ RelayAndFaultMatchState /\ NoStampInFuture /\ CycleInv
                    /\ EventInv /\ StopInv /\ RunInv /\ WaitInv
<1> USE DEF TypeOK, PmTypeOK, RelayAndFaultMatchState, NoStampInFuture,
            CycleInv, EventInv, StopInv, RunInv, WaitInv, Observe,
            enter_state, runVars, eventVars
<1>1. CASE Update
  BY <1>1, UpdateInv
<1>2. ASSUME RequestOn PROVE Parts'
  <2> PICK d \in Durations : pm_request_on(d, now)
    BY <1>2 DEF RequestOn
  <2>1. CASE relay_on
    BY <1>2, <2>1 DEF RequestOn, pm_request_on, request_on_accepted,
       event_begin, IInv
  <2>2. CASE ~relay_on
    <3>1. pump_on(now, pressure)
      BY <2>2 DEF pm_request_on
    <3>2. QED
      BY <1>2, <2>2, <3>1 DEF RequestOn, pm_request_on, request_on_accepted,
         event_begin, pump_on, IInv
  <2>3. QED
    BY <2>1, <2>2
<1>3. ASSUME RequestOff PROVE Parts'
  BY <1>3 DEF RequestOff, pm_request_off, IInv
<1>4. ASSUME RequestRestart PROVE Parts'
  BY <1>4 DEF RequestRestart, pm_request_restart, pump_off, IInv
<1>5. ASSUME ModeSet PROVE Parts'
  BY <1>5 DEF ModeSet, pm_mode_set, IInv
<1>6. ASSUME FaultAck PROVE Parts'
  BY <1>6 DEF FaultAck, pm_fault_ack, event_end, IInv
<1>7. ASSUME ConfigSet PROVE Parts'
  BY <1>7 DEF ConfigSet, pm_config_set, IInv
<1>8. ASSUME Elapse PROVE Parts'
  BY <1>8, PumpAssumption DEF Elapse, pmVars, IInv
<1>9. ASSUME UNCHANGED vars PROVE Parts'
  BY <1>9 DEF vars, pmVars, IInv
<1> QED
  BY <1>0, <1>1, <1>2, <1>3, <1>4, <1>5, <1>6, <1>7, <1>8, <1>9
  DEF Next, IInv

(* pm_init establishes the invariant.                                      *)
LEMMA InitInv == Init => IInv
<1> SUFFICES ASSUME Init PROVE IInv
  OBVIOUS
<1>1. TypeOK
  BY InitType
<1> QED
  BY <1>1, PumpAssumption DEF Init, pm_init, IInv, RelayAndFaultMatchState,
     NoStampInFuture, CycleInv, EventInv, StopInv, RunInv, WaitInv

(* The inductive invariant holds in every reachable state.                 *)
THEOREM Invariance == Spec => []IInv
<1>1. IInv /\ [Next]_vars => IInv'
  BY StepInv
<1> QED
  BY InitInv, <1>1, PTL DEF Spec

----------------------------------------------------------------------------
(* What the invariant gives.                                               *)

(* The relay is on exactly in RUNNING, within an open demand event, and a  *)
(* fault is latched exactly in FAULT.                                      *)
THEOREM RelayConsistent == Spec => []RelayAndFaultMatchState
<1>1. IInv => RelayAndFaultMatchState
  BY DEF IInv
<1> QED
  BY <1>1, Invariance, PTL

(* No unsigned time difference of pump_manager.c can wrap.                 *)
THEOREM NoUnderflow == Spec => []NoStampInFuture
<1>1. IInv => NoStampInFuture
  BY DEF IInv
<1> QED
  BY <1>1, Invariance, PTL

(* The maximum-runtime protection bounds every run, whatever sequence of   *)
(* requests and of mode and configuration changes happens during it.       *)
THEOREM RunTimeIsBounded == Spec => []RunTimeBounded
<1>1. ASSUME IInv PROVE RunTimeBounded
  <2> USE <1>1 DEF IInv, TypeOK, PmTypeOK, CycleInv, RunInv, RunTimeBounded
  <2> SUFFICES ASSUME relay_on PROVE RunTimeBounded
    OBVIOUS
  <2>1. CASE \/ last_update <= pump_start
             \/ last_update - pump_start < ManualMaxOn
    BY <2>1, PumpAssumption
  <2>2. ASSUME NEW c \in Configs, last_update - pump_start < c.max_on
        PROVE  RunTimeBounded
    <3>1. now - pump_start < c.max_on + MaxGap
      BY <2>2, ConfigFields, PumpAssumption
    <3>2. QED
      BY <3>1
  <2>3. QED
    BY <2>1, <2>2
<1> QED
  BY <1>1, Invariance, PTL

(* Confirmation, start, recovery and pause always end in bounded time.     *)
THEOREM WaitsAreBounded == Spec => []WaitsBounded
<1>1. ASSUME IInv PROVE WaitsBounded
  <2> USE <1>1 DEF IInv, TypeOK, PmTypeOK, CycleInv, WaitInv, NoStampInFuture
  <2>1. state \in {"INIT", "STARTING"} => now - state_enter <= MaxGap
    BY PumpAssumption
  <2>2. state = "PRESSURE_DROP" =>
          \E c \in Configs : now - state_enter <= c.drop_confirm + MaxGap
    BY ConfigFields, PumpAssumption
  <2>3. ASSUME state = "RECOVERING"
        PROVE  \E c \in Configs : now - state_enter <= c.recovery_timeout + MaxGap
    <3>1. PICK c \in Configs : \/ last_update <= state_enter
                              \/ last_update - state_enter < c.recovery_timeout
      BY <2>3
    <3>2. now - state_enter <= c.recovery_timeout + MaxGap
      BY <3>1, ConfigFields, PumpAssumption
    <3>3. QED
      BY <3>2
  <2>4. ASSUME state = "LOCKOUT"
        PROVE  \E c \in Configs : now - state_enter <= c.min_off + MaxGap
    <3>1. PICK c \in Configs : \/ last_update <= state_enter
                              \/ last_update - pump_stop < c.min_off
      BY <2>4
    <3>2. now - state_enter <= c.min_off + MaxGap
      BY <2>4, <3>1, ConfigFields, PumpAssumption
    <3>3. QED
      BY <3>2
  <2>5. QED
    BY <2>1, <2>2, <2>3, <2>4 DEF WaitsBounded
<1> QED
  BY <1>1, Invariance, PTL

(* No path of the state machine starts the pump within the minimum pause   *)
(* after the relay really fell.                                            *)
THEOREM MinOffIsRespected == Spec => MinOffRespected
<1> DEFINE Pause == ~relay_on /\ relay_on' =>
                      lastOff = 0 \/ now - lastOff >= cfg.min_off
<1>1. ASSUME IInv, [Next]_vars PROVE Pause
  <2> SUFFICES ASSUME ~relay_on, relay_on'
               PROVE  lastOff = 0 \/ now - lastOff >= cfg.min_off
    OBVIOUS
  <2> USE <1>1 DEF IInv, StopInv
  <2>1. min_off_elapsed(now)
    <3>1. CASE Update
      <4> PICK p \in Levels, ok \in BOOLEAN, stable \in BOOLEAN :
            pm_update(p, ok, stable, now)
        BY <3>1 DEF Update
      <4>1. step_starting(p, now) \/ step_running(p, now)
        BY DEF pm_update, latch_fault, step_fault, step_init, step_idle,
           step_drop_cancel, step_drop_wait, step_drop_confirm,
           step_recovering, step_lockout
      <4>2. ~step_running(p, now)
        BY DEF step_running, RelayAndFaultMatchState
      <4>3. QED
        BY <4>1, <4>2 DEF step_starting, latch_fault
    <3>2. CASE RequestOn
      BY <3>2 DEF RequestOn, pm_request_on, request_on_accepted
    <3>3. QED
      BY <3>1, <3>2 DEF Next, RequestOff, pm_request_off, RequestRestart,
         pm_request_restart, pump_off, ModeSet, pm_mode_set, FaultAck,
         pm_fault_ack, ConfigSet, pm_config_set, Elapse, vars, pmVars
  <2>2. QED
    BY <2>1 DEF min_off_elapsed
<1>2. IInv /\ [Next]_vars => [Pause]_vars
  BY <1>1
<1> QED
  BY <1>2, Invariance, PTL DEF Spec, MinOffRespected

----------------------------------------------------------------------------
(* Refinement of the contract.                                             *)

(* Latching any fault code is an outcome of the contract's control cycle.  *)
LEMMA LatchRefines ==
  ASSUME IInv, state # "FAULT", mode' = mode,
         NEW f \in Faults \ {"NONE"}, latch_fault(f, now)
  PROVE  \E ok \in BOOLEAN : Contract!pm_update(ok)
<1>1. Contract!latch_fault(f)
  BY DEF IInv, RelayAndFaultMatchState, latch_fault, enter_state,
         Contract!latch_fault
<1>2. CASE f = "SENSOR"
  <2>1. Contract!pm_update(FALSE)
    BY <1>1, <1>2 DEF Contract!pm_update
  <2> QED BY <2>1
<1>3. CASE f # "SENSOR"
  <2>1. Contract!pm_update(TRUE)
    BY <1>1, <1>3 DEF Contract!pm_update
  <2> QED BY <2>1
<1> QED BY <1>2, <1>3

AbstractCycle ==
  (\E ok \in BOOLEAN : Contract!pm_update(ok)) \/ Contract!Hold

(* Every control cycle is a cycle of the contract or changes nothing that  *)
(* the contract can see.                                                   *)
LEMMA UpdateRefines ==
  ASSUME IInv, Update
  PROVE  AbstractCycle
<1> PICK p \in Levels, ok \in BOOLEAN, stable \in BOOLEAN :
      pm_update(p, ok, stable, now)
  BY DEF Update
<1>1. mode' = mode
  BY DEF pm_update
<1>2. (relay_on <=> state = "RUNNING") /\ (fault # "NONE" <=> state = "FAULT")
      /\ relay_on \in BOOLEAN
  BY DEF IInv, RelayAndFaultMatchState, TypeOK, PmTypeOK
<1>3. ASSUME \/ Contract!Arm \/ Contract!AutoStart \/ Contract!Lockout
             \/ Contract!Stop
      PROVE  AbstractCycle
  <2>1. Contract!pm_update(TRUE)
    BY <1>3 DEF Contract!pm_update
  <2> QED BY <2>1 DEF AbstractCycle
<1>4. ASSUME state # "FAULT", NEW f \in Faults \ {"NONE"}, latch_fault(f, now)
      PROVE  AbstractCycle
  BY <1>1, <1>4, LatchRefines DEF AbstractCycle
<1>5. ASSUME UNCHANGED <<relay_on, fault>>, state # "STARTING",
             state' # "STARTING"
      PROVE  AbstractCycle
  <2>1. Contract!Hold
    BY <1>1, <1>5 DEF Contract!Hold, Contract!pmVars
  <2> QED BY <2>1 DEF AbstractCycle
<1> USE DEF enter_state
<1>6. CASE step_fault
  <2>1. relay_on = FALSE /\ relay_on' = FALSE /\ fault' = fault /\ state' = state
    BY <1>2, <1>6 DEF step_fault
  <2> QED BY <1>5, <1>6, <2>1 DEF step_fault
<1>7. CASE \/ step_init(now) \/ step_idle(p, now) \/ step_drop_cancel(p, now)
           \/ step_drop_wait(p, now) \/ step_lockout(now)
  <2>1. /\ relay_on = FALSE /\ relay_on' = FALSE /\ fault' = fault
        /\ state # "STARTING"
    BY <1>2, <1>7 DEF step_init, step_idle, step_drop_cancel, step_drop_wait,
                      step_lockout
  <2>2. state' # "STARTING"
    BY <1>7 DEF step_init, step_idle, step_drop_cancel, step_drop_wait,
                step_lockout
  <2> QED BY <1>5, <2>1, <2>2
<1>8. CASE step_drop_confirm(p, now)
  <2>1. CASE latch_fault("CRITICAL_LOW", now)
    BY <1>4, <1>8, <2>1 DEF Faults, step_drop_confirm
  <2>2. CASE ~latch_fault("CRITICAL_LOW", now)
    <3>1. /\ state = "PRESSURE_DROP" /\ mode = "AUTO" /\ fault = "NONE"
          /\ relay_on = FALSE /\ relay_on' = FALSE /\ fault' = fault
          /\ state' = "STARTING"
      BY <1>2, <1>8, <2>2 DEF step_drop_confirm
    <3>2. Contract!Arm
      BY <1>1, <3>1 DEF Contract!Arm
    <3> QED BY <1>3, <3>2
  <2> QED BY <2>1, <2>2
<1>9. CASE step_starting(p, now)
  <2>1. CASE latch_fault("TOO_MANY_STARTS", now)
    BY <1>4, <1>9, <2>1 DEF Faults, step_starting
  <2>2. CASE /\ pump_on(now, p) /\ enter_state("RUNNING", now)
             /\ UNCHANGED fault
    <3>1. Contract!AutoStart
      BY <1>1, <1>2, <1>9, <2>2 DEF step_starting, pump_on, Contract!AutoStart
    <3> QED BY <1>3, <3>1
  <2>3. CASE enter_state("LOCKOUT", now) /\ UNCHANGED <<relay_on, fault>>
    <3>1. Contract!Lockout
      BY <1>1, <1>9, <2>3 DEF step_starting, Contract!Lockout
    <3> QED BY <1>3, <3>1
  <2> QED BY <1>9, <2>1, <2>2, <2>3 DEF step_starting
<1>10. CASE step_running(p, now)
  <2>1. CASE pump_off(now) /\ enter_state("RECOVERING", now)
    <3>1. Contract!Stop
      BY <1>1, <1>2, <1>10, <2>1 DEF step_running, pump_off, Contract!Stop
    <3> QED BY <1>3, <3>1
  <2>2. CASE relay_on' = TRUE /\ UNCHANGED state
    <3>1. relay_on = TRUE /\ fault' = fault /\ state # "STARTING"
      BY <1>2, <1>10 DEF step_running
    <3> QED BY <1>5, <2>2, <3>1
  <2> QED BY <1>10, <2>1, <2>2 DEF step_running
<1>11. CASE step_recovering(p, stable, now)
  <2>1. /\ relay_on = FALSE /\ relay_on' = FALSE /\ fault' = fault
        /\ state # "STARTING" /\ state' # "STARTING"
    BY <1>2, <1>11 DEF step_recovering
  <2> QED BY <1>5, <2>1
<1> QED
  BY <1>4, <1>6, <1>7, <1>8, <1>9, <1>10, <1>11, ProtectionIsFault
  DEF pm_update

(* The pump state machine implements its contract: every step of every     *)
(* handler, with any timing and configuration, is a step PumpContract      *)
(* allows for the relay, the fault and the mode, or a stutter.             *)
THEOREM ImplementsContract == Spec => ContractHonoured
<1>1. Init => Contract!Init
  BY DEF Init, pm_init, Contract!Init, Contract!pm_init
<1>2. ASSUME IInv, [Next]_vars PROVE [Contract!Next]_(Contract!pmVars)
  <2>0. /\ (relay_on <=> state = "RUNNING") /\ (fault # "NONE" <=> state = "FAULT")
        /\ relay_on \in BOOLEAN
    BY <1>2 DEF IInv, RelayAndFaultMatchState, TypeOK, PmTypeOK
  <2>1. CASE Update
    BY <1>2, <2>1, UpdateRefines DEF AbstractCycle, Contract!Next, Contract!Hold
  <2>2. CASE RequestOn
    <3> PICK d \in Durations : pm_request_on(d, now)
      BY <2>2 DEF RequestOn
    <3>1. relay_on' = TRUE /\ mode' = "MANUAL" /\ fault' = fault
          /\ state' = "RUNNING" /\ fault = "NONE"
      BY <2>0 DEF pm_request_on, request_on_accepted, pump_on, enter_state
    <3> QED BY <3>1 DEF Contract!Next, Contract!pm_request_on
  <2>3. CASE RequestOff
    <3>1. mode' = "MANUAL" /\ relay_on' = relay_on /\ fault' = fault
      BY <2>3 DEF RequestOff, pm_request_off
    <3>2. state' # "STARTING"
      BY <2>0, <2>3 DEF RequestOff, pm_request_off, enter_state
    <3> QED BY <3>1, <3>2 DEF Contract!Next, Contract!pm_request_off
  <2>4. CASE RequestRestart
    <3>1. Contract!Stop
      BY <2>0, <2>4 DEF RequestRestart, pm_request_restart, pump_off,
                        enter_state, Contract!Stop
    <3> QED BY <3>1 DEF Contract!Next, Contract!pm_request_restart
  <2>5. CASE ModeSet
    <3> PICK m \in Modes : pm_mode_set(m, now)
      BY <2>5 DEF ModeSet
    <3>1. Contract!pm_mode_set(m)
      BY DEF pm_mode_set, Contract!pm_mode_set
    <3> QED BY <3>1 DEF Contract!Next, Modes
  <2>6. CASE FaultAck
    <3>1. Contract!pm_fault_ack(TRUE)
      BY <2>0, <2>6 DEF FaultAck, pm_fault_ack, enter_state,
                        Contract!pm_fault_ack
    <3> QED BY <3>1 DEF Contract!Next
  <2>7. CASE ConfigSet \/ Elapse \/ UNCHANGED vars
    <3>1. UNCHANGED <<relay_on, fault, mode, state>>
      BY <2>7 DEF ConfigSet, pm_config_set, Elapse, vars, pmVars
    <3> QED BY <3>1 DEF Contract!pmVars
  <2> QED BY <1>2, <2>1, <2>2, <2>3, <2>4, <2>5, <2>6, <2>7 DEF Next
<1> QED
  BY <1>1, <1>2, Invariance, PTL DEF Spec, ContractHonoured, Contract!Spec

----------------------------------------------------------------------------
(* The start ring and the minimum on-time.                                 *)

\* How many starts will pass before slot i of the ring is overwritten.
Remaining(i) == IF i >= starts_idx THEN i - starts_idx
                                   ELSE i + History - starts_idx

\* The number of the start that slot i holds; not positive if it is empty.
Number(i) == cycles_total - History + 1 + Remaining(i)

\* The starts are numbered and ordered, and none is later than pump_start.
LogInv ==
  /\ \A s \in startLog : /\ s.n \in 1 .. cycles_total
                         /\ s.at \in 1 .. pump_start
  /\ \A s, r \in startLog : s.n <= r.n => s.at <= r.at
  /\ \A s, r \in startLog : s.n = r.n => s = r

\* The ring holds the latest starts, each in its slot.
RingInv ==
  \A i \in 0 .. History - 1 :
    IF Number(i) >= 1 THEN [n |-> Number(i), at |-> starts[i]] \in startLog
                      ELSE starts[i] = 0

StartInv == LogInv /\ RingInv


\* The index of the ring goes round.
LEMMA RingNext ==
  ASSUME NEW i \in 0 .. History - 1
  PROVE  (i + 1) % History = IF i + 1 = History THEN 0 ELSE i + 1
<1>1. History \in Nat \ {0}
  BY PumpAssumption
<1>2. CASE i + 1 = History
  BY <1>1, <1>2
<1>3. CASE i + 1 # History
  BY <1>1, <1>3
<1> QED
  BY <1>2, <1>3

\* A step starts the pump, then the guards held and the ring records it, or
\* it leaves the ring and the log alone.
Start ==
  /\ ~relay_on /\ relay_on'
  /\ \E p : pump_on(now, p)
  /\ startLog' = startLog \cup {[n |-> cycles_total', at |-> now]}
  /\ starts_in_last_hour(now) < cfg.max_starts

Quiet ==
  /\ ~(~relay_on /\ relay_on')
  /\ UNCHANGED <<pump_start, starts, starts_idx, cycles_total, startLog>>

LEMMA StartOrQuiet ==
  ASSUME IInv, [Next]_vars
  PROVE  Start \/ Quiet
<1>0. relay_on \in BOOLEAN /\ (relay_on <=> state = "RUNNING")
  BY DEF IInv, TypeOK, PmTypeOK, RelayAndFaultMatchState
<1>1. CASE Update
  <2> PICK p \in Levels, ok \in BOOLEAN, stable \in BOOLEAN :
        pm_update(p, ok, stable, now)
    BY <1>1 DEF Update
  <2>1. Observe
    BY <1>1 DEF Update
  <2>2. CASE step_starting(p, now) /\ pump_on(now, p)
    <3>1. ~relay_on /\ relay_on' /\ starts_in_last_hour(now) < cfg.max_starts
      BY <1>0, <2>2 DEF step_starting, pump_on, latch_fault
    <3> QED
      BY <2>1, <2>2, <3>1 DEF Start, Observe
  <2>3. CASE ~ (step_starting(p, now) /\ pump_on(now, p))
    <3>1. UNCHANGED runVars
      BY <2>3 DEF pm_update, step_starting, latch_fault, step_fault, step_init,
         step_idle, step_drop_cancel, step_drop_wait, step_drop_confirm,
         step_recovering, step_lockout, step_running
    <3>2. ~(~relay_on /\ relay_on')
      BY <1>0, <2>3 DEF pm_update, step_starting, latch_fault, step_fault,
         step_init, step_idle, step_drop_cancel, step_drop_wait,
         step_drop_confirm, step_recovering, step_lockout, step_running
    <3> QED
      BY <2>1, <3>1, <3>2 DEF Quiet, Observe, runVars
  <2> QED
    BY <2>2, <2>3
<1>2. CASE RequestOn
  <2> PICK d \in Durations : pm_request_on(d, now)
    BY <1>2 DEF RequestOn
  <2>1. Observe /\ starts_in_last_hour(now) < cfg.max_starts
    BY <1>2 DEF RequestOn, pm_request_on, request_on_accepted
  <2>2. CASE relay_on
    BY <2>1, <2>2 DEF pm_request_on, Quiet, Observe, runVars
  <2>3. CASE ~relay_on
    <3>1. pump_on(now, pressure) /\ relay_on'
      BY <2>3 DEF pm_request_on, pump_on
    <3> QED
      BY <2>1, <2>3, <3>1 DEF Start, Observe
  <2> QED
    BY <2>2, <2>3
<1>3. CASE RequestOff \/ RequestRestart \/ ModeSet \/ FaultAck \/ ConfigSet
  <2>1. Observe /\ UNCHANGED runVars
    BY <1>3 DEF RequestOff, RequestRestart, ModeSet, FaultAck, ConfigSet,
       pm_request_off, pm_request_restart, pm_mode_set, pm_fault_ack,
       pm_config_set
  <2>2. ~(~relay_on /\ relay_on')
    BY <1>3 DEF RequestOff, RequestRestart, ModeSet, FaultAck, ConfigSet,
       pm_request_off, pm_request_restart, pump_off, pm_mode_set,
       pm_fault_ack, pm_config_set
  <2> QED
    BY <2>1, <2>2 DEF Quiet, Observe, runVars
<1>4. CASE Elapse \/ UNCHANGED vars
  BY <1>4 DEF Quiet, Elapse, vars, pmVars, runVars
<1> QED
  BY <1>1, <1>2, <1>3, <1>4 DEF Next

\* A start is entered into the log with the next number and as the latest.
LEMMA LogStart ==
  ASSUME TypeOK, NoStampInFuture, now >= 1, LogInv, Start
  PROVE  LogInv'
<1> PICK p : pump_on(now, p)
  BY DEF Start
<1> DEFINE new == [n |-> cycles_total + 1, at |-> now]
<1>1. /\ cycles_total' = cycles_total + 1 /\ pump_start' = now
      /\ startLog' = startLog \cup {new}
  BY DEF Start, pump_on
<1>2. /\ cycles_total \in Nat /\ pump_start \in Nat /\ now \in Nat
      /\ pump_start <= now
  BY DEF TypeOK, PmTypeOK, NoStampInFuture
<1>3. \A s \in startLog : /\ s.n \in 1 .. cycles_total
                          /\ s.at \in 1 .. pump_start
  BY DEF LogInv
<1>4. \A s \in startLog' : s.n \in 1 .. cycles_total' /\ s.at \in 1 .. pump_start'
  BY <1>1, <1>2, <1>3
<1>5. ASSUME NEW s \in startLog', NEW r \in startLog', s.n <= r.n
      PROVE  s.at <= r.at
  <2>1. CASE r = new
    BY <1>1, <1>2, <1>4, <2>1
  <2>2. CASE r # new /\ s = new
    BY <1>1, <1>2, <1>3, <1>5, <2>2
  <2>3. CASE r # new /\ s # new
    BY <1>1, <1>5, <2>3 DEF LogInv
  <2> QED
    BY <2>1, <2>2, <2>3
<1>6. ASSUME NEW s \in startLog', NEW r \in startLog', s.n = r.n
      PROVE  s = r
  <2>1. CASE r = new \/ s = new
    BY <1>1, <1>2, <1>3, <1>6, <2>1
  <2>2. CASE r # new /\ s # new
    BY <1>1, <1>6, <2>2 DEF LogInv
  <2> QED
    BY <2>1, <2>2
<1> QED
  BY <1>4, <1>5, <1>6 DEF LogInv

\* It goes into the slot of the oldest one; the other slots keep theirs.
LEMMA RingStart ==
  ASSUME TypeOK, RingInv, Start
  PROVE  RingInv'
<1> PICK p : pump_on(now, p)
  BY DEF Start
<1> DEFINE new == [n |-> cycles_total + 1, at |-> now]
<1>0. /\ History \in Nat \ {0} /\ starts_idx \in 0 .. History - 1
      /\ cycles_total \in Nat /\ starts \in [0 .. History - 1 -> Nat]
  BY PumpAssumption DEF TypeOK, PmTypeOK
<1>1. /\ cycles_total' = cycles_total + 1
      /\ startLog' = startLog \cup {new}
      /\ starts' = [starts EXCEPT ![starts_idx] = now]
  BY DEF Start, pump_on
<1>2. starts_idx' = IF starts_idx + 1 = History THEN 0 ELSE starts_idx + 1
  BY <1>0, RingNext DEF pump_on
<1> SUFFICES ASSUME NEW i \in 0 .. History - 1
             PROVE  IF Number(i)' >= 1
                    THEN [n |-> Number(i)', at |-> starts'[i]] \in startLog'
                    ELSE starts'[i] = 0
  BY DEF RingInv, Number, Remaining
<1>3. CASE i = starts_idx
  <2>1. Number(i)' = cycles_total + 1
    BY <1>0, <1>1, <1>2, <1>3 DEF Number, Remaining
  <2>2. starts'[i] = now
    BY <1>0, <1>1, <1>3
  <2> QED
    BY <1>0, <1>1, <2>1, <2>2
<1>4. CASE i # starts_idx
  <2>1. Number(i)' = Number(i)
    BY <1>0, <1>1, <1>2, <1>4 DEF Number, Remaining
  <2>2. starts'[i] = starts[i]
    BY <1>0, <1>1, <1>4
  <2>3. IF Number(i) >= 1 THEN [n |-> Number(i), at |-> starts[i]] \in startLog
                          ELSE starts[i] = 0
    BY DEF RingInv
  <2> QED
    BY <1>1, <2>1, <2>2, <2>3
<1> QED
  BY <1>3, <1>4

LEMMA StartInvStep ==
  ASSUME IInv, StartInv, [Next]_vars
  PROVE  StartInv'
<1>1. CASE Start
  BY <1>1, LogStart, RingStart DEF IInv, CycleInv, StartInv
<1>2. CASE Quiet
  BY <1>2 DEF Quiet, StartInv, LogInv, RingInv, Number, Remaining
<1> QED
  BY <1>1, <1>2, StartOrQuiet

\* The log and the ring describe every reachable state.
LEMMA StartInvariance == Spec => []StartInv
<1>1. Init => StartInv
  <2> SUFFICES ASSUME Init PROVE StartInv
    OBVIOUS
  <2>1. /\ startLog = {} /\ cycles_total = 0 /\ starts_idx = 0
        /\ starts = [i \in 0 .. History - 1 |-> 0]
    BY DEF Init, pm_init
  <2>2. LogInv
    BY <2>1 DEF LogInv
  <2>3. ASSUME NEW i \in 0 .. History - 1
        PROVE  ~(Number(i) >= 1) /\ starts[i] = 0
    BY <2>1, PumpAssumption DEF Number, Remaining
  <2> QED
    BY <2>2, <2>3 DEF StartInv, RingInv
<1>2. IInv /\ StartInv /\ [Next]_vars => StartInv'
  BY StartInvStep
<1> QED
  BY <1>1, <1>2, Invariance, PTL DEF Spec

\* The starts of the last hour, in the log and in the ring.
Recent     == {s \in startLog : now - s.at <= Hour}
RecentSlot == {i \in 0 .. History - 1 : starts[i] # 0 /\ now - starts[i] <= Hour}

\* Slots that are overwritten at different times are different.
LEMMA SlotInjective ==
  ASSUME NEW h \in Nat, NEW i \in 0 .. h - 1,
         NEW a \in 0 .. h - 1, NEW b \in 0 .. h - 1,
         (IF i + a < h THEN i + a ELSE i + a - h)
           = (IF i + b < h THEN i + b ELSE i + b - h)
  PROVE  a = b
OBVIOUS

\* The slot that is overwritten after a further starts.
LEMMA SlotRemaining ==
  ASSUME TypeOK, NEW a \in 0 .. History - 1
  PROVE  Remaining(IF starts_idx + a < History THEN starts_idx + a
                   ELSE starts_idx + a - History) = a
BY PumpAssumption DEF TypeOK, PmTypeOK, Remaining

\* If the ring shows fewer recent starts than some limit within its length,
\* there were fewer.
LEMMA RingCountsAll ==
  ASSUME TypeOK, StartInv, NEW m \in 1 .. History, Cardinality(RecentSlot) < m
  PROVE  Cardinality(Recent) < m
<1>0. /\ History \in Nat \ {0} /\ starts_idx \in 0 .. History - 1
      /\ cycles_total \in Nat /\ starts \in [0 .. History - 1 -> Nat]
      /\ now \in Nat /\ Hour \in Nat /\ pump_start \in Nat
  BY PumpAssumption DEF TypeOK, PmTypeOK
<1>1. /\ IsFiniteSet(0 .. History - 1)
      /\ Cardinality(0 .. History - 1) = History
  BY <1>0, FS_Interval
<1>2. IsFiniteSet(RecentSlot) /\ Cardinality(RecentSlot) \in Nat
  BY <1>1, FS_Subset, FS_CardinalityType DEF RecentSlot
<1>3. \A s \in startLog : s.n \in 1 .. cycles_total /\ s.at \in 1 .. pump_start
  BY DEF StartInv, LogInv
<1>4. ASSUME NEW s \in Recent
      PROVE  s.n > cycles_total - History
  <2>0. s \in startLog /\ now - s.at <= Hour
    BY DEF Recent
  <2> SUFFICES ASSUME ~(s.n > cycles_total - History) PROVE FALSE
    OBVIOUS
  <2>1. ASSUME NEW i \in 0 .. History - 1
        PROVE  i \in RecentSlot
    <3>1. Number(i) > s.n /\ Number(i) >= 1
      BY <1>0, <1>3, <2>0 DEF Number, Remaining
    <3>2. [n |-> Number(i), at |-> starts[i]] \in startLog
      BY <3>1 DEF StartInv, RingInv
    <3>3. s.at <= starts[i] /\ starts[i] >= 1
      <4> DEFINE r == [n |-> Number(i), at |-> starts[i]]
      <4>1. s.n <= r.n
        BY <1>0, <1>3, <2>0, <3>1 DEF Number, Remaining
      <4>2. s.at <= r.at
        BY <2>0, <3>2, <4>1 DEF StartInv, LogInv
      <4>3. r.at \in 1 .. pump_start
        BY <1>3, <3>2
      <4> QED
        BY <1>0, <4>2, <4>3
    <3> QED
      BY <1>0, <1>3, <2>0, <3>3 DEF RecentSlot
  <2>2. RecentSlot = 0 .. History - 1
    BY <2>1 DEF RecentSlot
  <2> QED
    BY <1>0, <1>1, <2>2
<1> DEFINE Step(s) == s.n - 1 - cycles_total + History
           Slot(s) == IF starts_idx + Step(s) < History THEN starts_idx + Step(s)
                      ELSE starts_idx + Step(s) - History
<1>5. ASSUME NEW s \in Recent
      PROVE  Slot(s) \in RecentSlot
  <2>0. /\ s \in startLog /\ now - s.at <= Hour
        /\ s.n \in 1 .. cycles_total /\ s.at \in 1 .. pump_start
    BY <1>3 DEF Recent
  <2>00. Step(s) \in 0 .. History - 1
    BY <1>0, <1>4, <2>0
  <2>1. Slot(s) \in 0 .. History - 1
    BY <1>0, <2>00
  <2>11. Number(Slot(s)) = s.n
    <3>1. Remaining(Slot(s)) = Step(s)
      BY <2>00, SlotRemaining
    <3> QED
      BY <1>0, <2>0, <3>1 DEF Number
  <2>2. [n |-> s.n, at |-> starts[Slot(s)]] \in startLog
    BY <2>0, <2>1, <2>11 DEF StartInv, RingInv
  <2>3. starts[Slot(s)] = s.at
    <3> DEFINE r == [n |-> s.n, at |-> starts[Slot(s)]]
    <3>1. r = s
      BY <2>0, <2>2 DEF StartInv, LogInv
    <3> QED
      BY <3>1
  <2> QED
    BY <2>0, <2>1, <2>3 DEF RecentSlot
<1>6. ASSUME NEW s \in Recent, NEW r \in Recent, Slot(s) = Slot(r)
      PROVE  s = r
  <2>1. /\ s \in startLog /\ r \in startLog
        /\ s.n \in 1 .. cycles_total /\ r.n \in 1 .. cycles_total
    BY <1>3 DEF Recent
  <2>2. s.n > cycles_total - History /\ r.n > cycles_total - History
    BY <1>4
  <2>31. Step(s) \in 0 .. History - 1
    BY <1>0, <2>1, <2>2
  <2>32. Step(r) \in 0 .. History - 1
    BY <1>0, <2>1, <2>2
  <2>3. Step(s) \in 0 .. History - 1 /\ Step(r) \in 0 .. History - 1
    BY <2>31, <2>32
  <2>4. Step(s) = Step(r)
    BY <1>0, <1>6, <2>3, SlotInjective
  <2>5. s.n = r.n
    BY <1>0, <2>1, <2>4
  <2> QED
    BY <2>1, <2>5 DEF StartInv, LogInv
<1> DEFINE f == [s \in Recent |-> Slot(s)]
<1>7. f \in Injection(Recent, RecentSlot)
  BY <1>5, <1>6 DEF Injection, IsInjective
<1>8. Cardinality(Recent) <= Cardinality(RecentSlot) /\ IsFiniteSet(Recent)
  BY <1>2, <1>7, FS_Injection
<1>9. Cardinality(Recent) \in Nat
  BY <1>8, FS_CardinalityType
<1> QED
  BY <1>2, <1>8, <1>9

(* The starts-per-hour guard of STARTING and of a requested start counts   *)
(* every start of the last hour, although the ring forgets all but the     *)
(* latest PM_START_HISTORY, since no configuration allows more than those. *)
THEOREM StartRateIsBounded == Spec => StartRateBounded
<1> DEFINE Rate == ~relay_on /\ relay_on' =>
                     Cardinality({s \in startLog : now - s.at <= Hour})
                       < cfg.max_starts
<1>1. ASSUME IInv, StartInv, [Next]_vars PROVE Rate
  <2> SUFFICES ASSUME ~relay_on, relay_on'
               PROVE  Cardinality(Recent) < cfg.max_starts
    BY DEF Recent
  <2>1. Start
    BY <1>1, StartOrQuiet DEF Quiet
  <2>2. TypeOK /\ cfg.max_starts \in 1 .. History
    BY <1>1, ConfigFields DEF IInv, TypeOK, PmTypeOK
  <2>3. Cardinality(RecentSlot) < cfg.max_starts
    BY <2>1 DEF Start, starts_in_last_hour, RecentSlot
  <2> QED
    BY <1>1, <2>2, <2>3, RingCountsAll
<1>2. IInv /\ StartInv /\ [Next]_vars => [Rate]_vars
  BY <1>1
<1> QED
  BY <1>2, Invariance, StartInvariance, PTL DEF Spec, StartRateBounded

(* Only a fault or an explicit restart ends a run before the minimum       *)
(* on-time, counted from the real start: requests, mode and configuration  *)
(* changes only move the moment at which step_running may switch off.      *)
THEOREM MinOnIsRespected == Spec => MinOnRespected
<1> DEFINE Fall == relay_on /\ ~relay_on' =>
                     \/ state' = "FAULT"
                     \/ RequestRestart
                     \/ \A s \in startLog : now - s.at >= cfg.min_on
<1>1. ASSUME IInv, StartInv, [Next]_vars PROVE Fall
  <2> SUFFICES ASSUME relay_on, ~relay_on', state' # "FAULT", ~RequestRestart,
                      NEW s \in startLog
               PROVE  now - s.at >= cfg.min_on
    OBVIOUS
  <2>0. state = "RUNNING"
    BY <1>1 DEF IInv, RelayAndFaultMatchState
  <2>1. Update
    BY <1>1 DEF Next, RequestOn, pm_request_on, pump_on, RequestOff,
       pm_request_off, ModeSet, pm_mode_set, FaultAck, pm_fault_ack, ConfigSet,
       pm_config_set, Elapse, vars, pmVars
  <2> PICK p \in Levels, ok \in BOOLEAN, stable \in BOOLEAN :
        pm_update(p, ok, stable, now)
    BY <2>1 DEF Update
  <2>2. step_running(p, now)
    BY <2>0 DEF pm_update, latch_fault, enter_state, step_fault, step_init,
       step_idle, step_drop_cancel, step_drop_wait, step_drop_confirm,
       step_starting, step_recovering, step_lockout
  <2>3. run_ms(now) >= cfg.min_on
    BY <2>2 DEF step_running, stop_due
  <2>4. /\ s.at \in 1 .. pump_start /\ pump_start \in Nat /\ now \in Nat
        /\ pump_start <= now
    BY <1>1 DEF StartInv, LogInv, IInv, TypeOK, PmTypeOK, NoStampInFuture
  <2>5. cfg.min_on \in Nat
    BY <1>1, ConfigFields DEF IInv, TypeOK, PmTypeOK
  <2> QED
    BY <2>3, <2>4, <2>5 DEF run_ms, Later
<1>2. IInv /\ StartInv /\ [Next]_vars => [Fall]_vars
  BY <1>1
<1> QED
  BY <1>2, Invariance, StartInvariance, PTL DEF Spec, MinOnRespected
=============================================================================
