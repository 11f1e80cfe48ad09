---------------------------- MODULE PumpContract ----------------------------
(***************************************************************************)
(* What pump_manager.h promises to the pump task, without times, pressures *)
(* and thresholds: when the relay may be switched, how a fault is latched  *)
(* and cleared, and what a request may do at once.  PumpManager implements *)
(* it; PumpTask is built on it.                                            *)
(*                                                                         *)
(* `armed' stands for PM_STATE_STARTING: the next control cycle may switch *)
(* the relay on, even if the mode has become MANUAL in between.            *)
(***************************************************************************)
CONSTANT FaultCodes      \* the codes of pm_fault_t without PM_FAULT_NONE

ASSUME ContractAssumption == "NONE" \notin FaultCodes

VARIABLES relay_on, fault, mode, armed

pmVars == <<relay_on, fault, mode, armed>>

pm_init ==
  /\ relay_on = FALSE /\ fault = "NONE" /\ mode = "MANUAL" /\ armed = FALSE

----------------------------------------------------------------------------
(* Outcomes of a control cycle (pm_update).                                *)

latch_fault(f) ==
  /\ fault = "NONE"
  /\ fault' = f
  /\ relay_on' = FALSE /\ armed' = FALSE
  /\ UNCHANGED mode

Arm ==                              \* a confirmed pressure drop
  /\ fault = "NONE" /\ ~relay_on /\ mode = "AUTO"
  /\ armed' = TRUE
  /\ UNCHANGED <<relay_on, fault, mode>>

AutoStart ==
  /\ fault = "NONE" /\ armed
  /\ relay_on' = TRUE /\ armed' = FALSE
  /\ UNCHANGED <<fault, mode>>

Lockout ==                          \* start refused, minimum pause not over
  /\ armed
  /\ armed' = FALSE
  /\ UNCHANGED <<relay_on, fault, mode>>

Stop ==
  /\ relay_on
  /\ relay_on' = FALSE
  /\ UNCHANGED <<fault, mode, armed>>

Hold == UNCHANGED pmVars

pm_update(ok) ==
  \/ ~ok /\ (latch_fault("SENSOR") \/ (fault # "NONE" /\ Hold))
  \/ ok /\ \/ \E f \in FaultCodes \ {"SENSOR"} : latch_fault(f)
           \/ Arm \/ AutoStart \/ Lockout \/ Stop
           \/ ~armed /\ Hold

----------------------------------------------------------------------------
(* Requests; a refused request changes nothing.                            *)

pm_request_on ==
  \/ /\ fault = "NONE"
     /\ relay_on' = TRUE /\ mode' = "MANUAL" /\ armed' = FALSE
     /\ UNCHANGED fault
  \/ Hold

pm_request_off ==
  /\ mode' = "MANUAL" /\ armed' = FALSE
  /\ UNCHANGED <<relay_on, fault>>

pm_request_restart ==
  \/ Stop
  \/ ~relay_on /\ Hold

pm_mode_set(m) ==
  /\ mode' = m
  /\ UNCHANGED <<relay_on, fault, armed>>

pm_fault_ack(ok) ==
  \/ /\ fault # "NONE" /\ ok
     /\ fault' = "NONE"
     /\ UNCHANGED <<relay_on, mode, armed>>
  \/ (fault = "NONE" \/ ~ok) /\ Hold

----------------------------------------------------------------------------
Init == pm_init

Next ==
  \/ \E ok \in BOOLEAN : pm_update(ok) \/ pm_fault_ack(ok)
  \/ pm_request_on
  \/ pm_request_off
  \/ pm_request_restart
  \/ \E m \in {"AUTO", "MANUAL"} : pm_mode_set(m)

Spec == Init /\ [][Next]_pmVars
=============================================================================
