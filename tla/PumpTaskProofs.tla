--------------------------- MODULE PumpTaskProofs ---------------------------
(***************************************************************************)
(* Proofs about PumpTask, for any set of fault codes and commands: the     *)
(* output never contradicts the last decision, and no interleaving of the  *)
(* pump task, the event task, the sender and the session loses a fault     *)
(* alert.                                                                  *)
(***************************************************************************)
EXTENDS PumpTask, TLAPS

MgrTypes ==
  /\ relay_on \in BOOLEAN /\ armed \in BOOLEAN /\ mode \in {"AUTO", "MANUAL"}
  /\ fault \in FaultCodes \cup {"NONE"}

MgrInv ==
  /\ fault # "NONE" => ~relay_on /\ ~armed
  /\ relay_on => ~armed

LEMMA HoldKeeps ==
  ASSUME MgrTypes, MgrInv, Hold
  PROVE  MgrTypes' /\ MgrInv'
  BY DEF MgrTypes, MgrInv, Hold, pmVars

(* Every outcome of a control cycle keeps the fault interlock.  FaultCodes *)
(* has to contain the sensor fault the cycle latches.                      *)
LEMMA UpdateKeeps ==
  ASSUME MgrTypes, MgrInv, "SENSOR" \in FaultCodes,
         NEW ok, pm_update(ok)
  PROVE  MgrTypes' /\ MgrInv'
  <1>1. ASSUME NEW f \in FaultCodes, latch_fault(f)
        PROVE  MgrTypes' /\ MgrInv'
    BY <1>1 DEF latch_fault, MgrTypes, MgrInv
  <1>2. CASE Arm
    BY <1>2 DEF Arm, MgrTypes, MgrInv
  <1>3. CASE AutoStart
    BY <1>3 DEF AutoStart, MgrTypes, MgrInv
  <1>4. CASE Lockout
    BY <1>4 DEF Lockout, MgrTypes, MgrInv
  <1>5. CASE Stop
    BY <1>5 DEF Stop, MgrTypes, MgrInv
  <1> QED BY <1>1, <1>2, <1>3, <1>4, <1>5, HoldKeeps DEF pm_update

LEMMA OffKeeps ==
  ASSUME MgrTypes, MgrInv, pm_request_off
  PROVE  MgrTypes' /\ MgrInv'
  BY DEF pm_request_off, MgrTypes, MgrInv

LEMMA ExecuteKeeps ==
  ASSUME MgrTypes, MgrInv, NEW c, execute(c)
  PROVE  MgrTypes' /\ MgrInv'
  <1>1. CASE pm_request_on
    BY <1>1, HoldKeeps DEF pm_request_on, MgrTypes, MgrInv
  <1>2. CASE pm_mode_set("AUTO") \/ pm_mode_set("MANUAL")
    BY <1>2 DEF pm_mode_set, MgrTypes, MgrInv
  <1>3. CASE pm_request_restart
    BY <1>3, HoldKeeps DEF pm_request_restart, Stop, MgrTypes, MgrInv
  <1> QED BY <1>1, <1>2, <1>3, OffKeeps, HoldKeeps DEF execute

LEMMA AckKeeps ==
  ASSUME MgrTypes, MgrInv, NEW ok, pm_fault_ack(ok)
  PROVE  MgrTypes' /\ MgrInv'
  BY HoldKeeps DEF pm_fault_ack, MgrTypes, MgrInv

----------------------------------------------------------------------------
(* The rest of the task, by parts of the invariant.                        *)

TaskTypes ==
  /\ pc \in {"sleep", "measured", "poll", "ack", "output", "report"}
  /\ sensor_ok \in BOOLEAN /\ ack \in BOOLEAN /\ ackTaken \in BOOLEAN
  /\ command \in Commands \cup {"none"}
  /\ output \in BOOLEAN /\ relay_failed \in BOOLEAN
  /\ prev_fault \in FaultCodes \cup {"NONE"}
  /\ link \in {"down", "connected", "running"}
  /\ ready_event \in BOOLEAN /\ txq \subseteq FaultCodes
  /\ reboot \in {"no", "armed", "hooked"}
  /\ alerted \in BOOLEAN /\ lost \in BOOLEAN

SnapTypes == snap \in [fault : FaultCodes \cup {"NONE"}, relay : BOOLEAN]

SnapInv == snap.fault # "NONE" => ~snap.relay

Parts ==
  /\ MgrTypes /\ MgrInv /\ TaskTypes /\ SnapTypes /\ SnapInv
  /\ OutputInv /\ ReportInv /\ AlertInv

LEMMA PartsAreInv == Parts <=> IInv
  BY DEF Parts, IInv, TypeOK, FaultInv, MgrTypes, MgrInv, TaskTypes,
         SnapTypes, SnapInv

LEMMA SnapFields ==
  ASSUME SnapTypes
  PROVE  snap.fault \in FaultCodes \cup {"NONE"} /\ snap.relay \in BOOLEAN
  BY DEF SnapTypes

LEMMA AlertTypes ==
  ASSUME txq \subseteq FaultCodes, lost \in BOOLEAN, NEW f \in FaultCodes,
         alert_send(f)
  PROVE  txq' \subseteq FaultCodes /\ lost' \in BOOLEAN
  <1>1. CASE txq' = txq \cup {f} /\ UNCHANGED lost
    BY <1>1
  <1>2. CASE lost' = TRUE /\ UNCHANGED txq
    BY <1>2
  <1> QED BY <1>1, <1>2 DEF alert_send

LEMMA InitParts == TaskInit => Parts
  <1> SUFFICES ASSUME TaskInit PROVE Parts
    OBVIOUS
  <1>1. MgrTypes /\ MgrInv
    BY DEF TaskInit, pm_init, MgrTypes, MgrInv
  <1>2. TaskTypes
    BY DEF TaskInit, TaskTypes
  <1>3. SnapTypes /\ SnapInv
    BY DEF TaskInit, SnapTypes, SnapInv
  <1>4. OutputInv /\ ReportInv /\ AlertInv
    BY DEF TaskInit, OutputInv, ReportInv, AlertInv
  <1> QED BY <1>1, <1>2, <1>3, <1>4 DEF Parts

LEMMA CycleParts ==
  ASSUME Parts, "SENSOR" \in FaultCodes, pump_task_cycle
  PROVE  Parts'
  <1> USE DEF Parts
  <1>1. CASE Measure
    <2>1. MgrTypes' /\ MgrInv' /\ SnapTypes' /\ SnapInv'
      BY <1>1 DEF Measure, pmVars, MgrTypes, MgrInv, SnapTypes, SnapInv
    <2>2. TaskTypes'
      BY <1>1 DEF Measure, alertVars, TaskTypes
    <2>3. OutputInv' /\ ReportInv' /\ AlertInv'
      BY <1>1 DEF Measure, alertVars, OutputInv, ReportInv, AlertInv
    <2> QED BY <2>1, <2>2, <2>3
  <1>2. CASE Update
    <2>1. MgrTypes' /\ MgrInv'
      BY <1>2, UpdateKeeps DEF Update
    <2>2. SnapTypes' /\ SnapInv'
      BY <1>2 DEF Update, SnapTypes, SnapInv
    <2>3. TaskTypes'
      BY <1>2 DEF Update, alertVars, TaskTypes
    <2>4. OutputInv' /\ ReportInv' /\ AlertInv'
      BY <1>2 DEF Update, alertVars, OutputInv, ReportInv, AlertInv
    <2> QED BY <2>1, <2>2, <2>3, <2>4
  <1>3. CASE poll_command_dps
    <2>1. MgrTypes' /\ MgrInv'
      BY <1>3, ExecuteKeeps DEF poll_command_dps
    <2>2. SnapTypes' /\ SnapInv'
      BY <1>3 DEF poll_command_dps, SnapTypes, SnapInv
    <2>3. TaskTypes'
      BY <1>3 DEF poll_command_dps, alertVars, TaskTypes
    <2>4. OutputInv' /\ ReportInv' /\ AlertInv'
      BY <1>3 DEF poll_command_dps, alertVars, OutputInv, ReportInv, AlertInv
    <2> QED BY <2>1, <2>2, <2>3, <2>4
  <1>4. CASE AckAndSnapshot
    <2>1. MgrTypes' /\ MgrInv'
      BY <1>4, AckKeeps, HoldKeeps DEF AckAndSnapshot
    <2>2. snap' = [fault |-> fault', relay |-> relay_on']
      BY <1>4 DEF AckAndSnapshot
    <2>3. SnapTypes' /\ SnapInv'
      BY <2>1, <2>2 DEF MgrTypes, MgrInv, SnapTypes, SnapInv
    <2>4. TaskTypes'
      <3>1. alerted' \in BOOLEAN
        BY <1>4, Zenon DEF AckAndSnapshot
      <3> QED BY <1>4, <3>1 DEF AckAndSnapshot, TaskTypes
    <2>5. OutputInv' /\ ReportInv'
      BY <1>4 DEF AckAndSnapshot, OutputInv, ReportInv
    <2>6. AlertInv'
      <3>1. snap'.fault = fault' /\ prev_fault = snap.fault
        BY <1>4, <2>2 DEF AckAndSnapshot, ReportInv
      <3>2. /\ link' = link /\ ready_event' = ready_event /\ txq' = txq
            /\ prev_fault' = prev_fault
        BY <1>4 DEF AckAndSnapshot
      <3>3. CASE fault' = snap.fault
        <4>1. (alerted => alerted') /\ (lost => lost')
          BY <1>4, <3>3 DEF AckAndSnapshot
        <4> QED BY <3>1, <3>2, <3>3, <4>1 DEF AlertInv
      <3>4. CASE fault' # snap.fault
        BY <3>1, <3>2, <3>4 DEF AlertInv
      <3> QED BY <3>3, <3>4
    <2> QED BY <2>1, <2>3, <2>4, <2>5, <2>6
  <1>5. CASE RelayWrite \/ RelayWriteFails
    <2>1. MgrTypes' /\ MgrInv' /\ SnapTypes' /\ SnapInv'
      BY <1>5 DEF RelayWrite, RelayWriteFails, pmVars, MgrTypes, MgrInv,
                  SnapTypes, SnapInv
    <2>2. TaskTypes'
      <3>1. output' \in BOOLEAN
        BY <1>5, SnapFields DEF RelayWrite, RelayWriteFails, hal_relay_set,
                                TaskTypes
      <3>2. CASE RelayWrite
        BY <3>1, <3>2 DEF RelayWrite, alertVars, TaskTypes
      <3>3. CASE RelayWriteFails
        BY <3>1, <3>3 DEF RelayWriteFails, alertVars, TaskTypes
      <3> QED BY <1>5, <3>2, <3>3
    <2>3. OutputInv' /\ ReportInv' /\ AlertInv'
      BY <1>5 DEF RelayWrite, RelayWriteFails, hal_relay_set, alertVars,
                  OutputInv, ReportInv, AlertInv
    <2> QED BY <2>1, <2>2, <2>3
  <1>6. CASE report_edges
    <2>1. MgrTypes' /\ MgrInv' /\ SnapTypes' /\ SnapInv'
      BY <1>6 DEF report_edges, pmVars, MgrTypes, MgrInv, SnapTypes, SnapInv
    <2>2. TaskTypes'
      <3>1. txq' \subseteq FaultCodes /\ lost' \in BOOLEAN
        BY <1>6, SnapFields, AlertTypes DEF report_edges, TaskTypes
      <3> QED BY <1>6, <3>1, SnapFields DEF report_edges, TaskTypes
    <2>3. OutputInv' /\ ReportInv' /\ AlertInv'
      BY <1>6 DEF report_edges, alert_send, OutputInv, ReportInv, AlertInv
    <2> QED BY <2>1, <2>2, <2>3
  <1> QED BY <1>1, <1>2, <1>3, <1>4, <1>5, <1>6 DEF pump_task_cycle

LEMMA OtherParts ==
  ASSUME Parts, TaskNext, ~pump_task_cycle
  PROVE  Parts'
  <1> USE DEF Parts
  <1>1. CASE Request
    <2>1. MgrTypes' /\ MgrInv'
      BY <1>1, ExecuteKeeps DEF Request
    <2>2. SnapTypes' /\ SnapInv' /\ TaskTypes'
      BY <1>1 DEF Request, taskVars, alertVars, SnapTypes, SnapInv, TaskTypes
    <2>3. OutputInv' /\ ReportInv' /\ AlertInv'
      BY <1>1 DEF Request, taskVars, alertVars, OutputInv, ReportInv, AlertInv
    <2> QED BY <2>1, <2>2, <2>3
  <1>2. CASE RebootCommand
    <2>1. MgrTypes' /\ MgrInv'
      BY <1>2, OffKeeps DEF RebootCommand
    <2>2. SnapTypes' /\ SnapInv' /\ TaskTypes'
      BY <1>2 DEF RebootCommand, taskVars, alertVars, SnapTypes, SnapInv,
                  TaskTypes
    <2>3. OutputInv' /\ ReportInv' /\ AlertInv'
      BY <1>2 DEF RebootCommand, taskVars, alertVars, OutputInv, ReportInv,
                  AlertInv
    <2> QED BY <2>1, <2>2, <2>3
  <1>3. CASE esp_restart
    <2>1. MgrTypes' /\ MgrInv' /\ SnapTypes' /\ SnapInv'
      BY <1>3 DEF esp_restart, MgrTypes, MgrInv, SnapTypes, SnapInv
    <2>2. TaskTypes'
      BY <1>3 DEF esp_restart, TaskTypes
    <2>3. OutputInv' /\ ReportInv' /\ AlertInv'
      BY <1>3 DEF esp_restart, OutputInv, ReportInv, AlertInv
    <2> QED BY <2>1, <2>2, <2>3
  <1>4. CASE \/ WriteCommand \/ WriteAck \/ LinkChange \/ SessionReady
             \/ pump_on_net_event \/ tx_task_fn
             \/ system_reboot_deferred \/ glue_pre_reboot \/ OtaRestart
    <2>1. MgrTypes' /\ MgrInv' /\ SnapTypes' /\ SnapInv'
      <3>1. UNCHANGED <<pmVars, taskVars>>
        BY <1>4 DEF WriteCommand, WriteAck, LinkChange, SessionReady,
             pump_on_net_event, tx_task_fn, system_reboot_deferred,
             glue_pre_reboot, OtaRestart
      <3> QED BY <3>1 DEF pmVars, taskVars, MgrTypes, MgrInv, SnapTypes, SnapInv
    <2>2. TaskTypes'
      <3>1. CASE WriteCommand \/ WriteAck
        BY <3>1 DEF WriteCommand, WriteAck, taskVars, alertVars, TaskTypes
      <3>2. CASE LinkChange \/ SessionReady
        BY <3>2 DEF LinkChange, SessionReady, taskVars, TaskTypes
      <3>3. CASE pump_on_net_event
        <4>1. txq' \subseteq FaultCodes /\ lost' \in BOOLEAN
          BY <3>3, SnapFields, AlertTypes DEF pump_on_net_event, TaskTypes
        <4>2. /\ UNCHANGED <<taskVars, command, ack, output, link, alerted,
                             reboot>>
              /\ ready_event' \in BOOLEAN
          BY <3>3, Zenon DEF pump_on_net_event
        <4>3. TaskTypes
          OBVIOUS
        <4>4. /\ pc' = pc /\ sensor_ok' = sensor_ok /\ ack' = ack
              /\ ackTaken' = ackTaken /\ command' = command
              /\ output' = output /\ relay_failed' = relay_failed
              /\ prev_fault' = prev_fault /\ link' = link
              /\ reboot' = reboot /\ alerted' = alerted
          BY <4>2 DEF taskVars
        <4> QED BY <4>1, <4>2, <4>3, <4>4 DEF TaskTypes
      <3>4. CASE tx_task_fn
        <4>1. alerted' \in BOOLEAN
          BY <3>4, Zenon DEF tx_task_fn
        <4> QED BY <3>4, <4>1 DEF tx_task_fn, taskVars, TaskTypes
      <3>5. CASE system_reboot_deferred \/ glue_pre_reboot \/ OtaRestart
        BY <3>5 DEF system_reboot_deferred, glue_pre_reboot, OtaRestart, hal_relay_set,
                    taskVars, alertVars, TaskTypes
      <3> QED BY <1>4, <3>1, <3>2, <3>3, <3>4, <3>5
    <2>3. OutputInv' /\ ReportInv'
      BY <1>4 DEF WriteCommand, WriteAck, LinkChange, SessionReady,
           pump_on_net_event, tx_task_fn, system_reboot_deferred,
           glue_pre_reboot, OtaRestart, hal_relay_set, taskVars, OutputInv, ReportInv
    <2>4. AlertInv'
      <3>1. CASE WriteCommand \/ WriteAck \/ system_reboot_deferred
                 \/ glue_pre_reboot \/ OtaRestart
        <4>1. UNCHANGED <<taskVars, alertVars>>
          BY <3>1 DEF WriteCommand, WriteAck, system_reboot_deferred,
                      glue_pre_reboot, OtaRestart
        <4> QED BY <4>1 DEF taskVars, alertVars, AlertInv
      <3>2. CASE LinkChange \/ SessionReady
        BY <3>2 DEF LinkChange, SessionReady, taskVars, AlertInv
      <3>3. CASE pump_on_net_event
        BY <3>3 DEF pump_on_net_event, alert_send, taskVars, AlertInv
      <3>4. CASE tx_task_fn
        <4>1. PICK f \in txq : /\ txq' = txq \ {f}
                               /\ alerted' = (alerted \/ (link = "running" /\ f = snap.fault))
          BY <3>4 DEF tx_task_fn
        <4>2. link = "running" /\ f = snap.fault => alerted'
          BY <4>1
        <4>3. alerted => alerted'
          BY <4>1
        <4>4. /\ snap' = snap /\ prev_fault' = prev_fault /\ link' = link
              /\ ready_event' = ready_event /\ lost' = lost
          BY <3>4 DEF tx_task_fn, taskVars
        <4> QED BY <4>1, <4>2, <4>3, <4>4 DEF AlertInv
      <3> QED BY <1>4, <3>1, <3>2, <3>3, <3>4
    <2> QED BY <2>1, <2>2, <2>3, <2>4
  <1> QED BY <1>1, <1>2, <1>3, <1>4 DEF TaskNext

LEMMA StutterParts ==
  ASSUME Parts, UNCHANGED vars
  PROVE  Parts'
  BY DEF Parts, vars, pmVars, taskVars, alertVars, MgrTypes, MgrInv, TaskTypes,
         SnapTypes, SnapInv, OutputInv, ReportInv, AlertInv

(* The inductive invariant of the task holds in every reachable state.     *)
THEOREM TaskInvariant == "SENSOR" \in FaultCodes => (TaskSpec => []IInv)
  <1> SUFFICES ASSUME "SENSOR" \in FaultCodes PROVE TaskSpec => []IInv
    OBVIOUS
  <1>1. TaskInit => IInv
    BY InitParts, PartsAreInv
  <1>2. IInv /\ [TaskNext]_vars => IInv'
    <2> SUFFICES ASSUME IInv, [TaskNext]_vars PROVE IInv'
      OBVIOUS
    <2>1. Parts
      BY PartsAreInv
    <2>2. Parts'
      BY <2>1, CycleParts, OtherParts, StutterParts
    <2>3. Parts' <=> IInv'
      BY DEF Parts, IInv, TypeOK, FaultInv, MgrTypes, MgrInv, TaskTypes,
             SnapTypes, SnapInv
    <2> QED BY <2>2, <2>3
  <1> QED BY <1>1, <1>2, PTL DEF TaskSpec

(* Between two cycles the relay output is never on against the decision of *)
(* the last cycle, and never in a latched fault, unless the actuator error *)
(* is flagged: for any interleaving with requests and the reboot hook.     *)
THEOREM OutputIsSafe ==
  "SENSOR" \in FaultCodes => (TaskSpec => []OutputFollowsDecision)
  <1>1. IInv => OutputFollowsDecision
    BY DEF IInv, FaultInv, OutputInv, OutputFollowsDecision
  <1> QED BY <1>1, TaskInvariant, PTL

(* A fault that is latched while the session is down or comes up is always *)
(* alerted in the new session: no order of snapshot, session event, report *)
(* and transmission loses it, as long as neither the alert nor the session *)
(* event is dropped at a full queue.                                       *)
THEOREM FaultAlertNotLost ==
  "SENSOR" \in FaultCodes => (TaskSpec => []FaultIsAlerted)
  <1>1. IInv => FaultIsAlerted
    BY DEF IInv, ReportInv, AlertInv, FaultIsAlerted
  <1> QED BY <1>1, TaskInvariant, PTL
=============================================================================
