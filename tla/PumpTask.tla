------------------------------ MODULE PumpTask ------------------------------
(***************************************************************************)
(* The pump task of src/device/pump_task.c around the pump manager: the    *)
(* 200-ms cycle, the lock s_hLock between the cycle and remote requests,   *)
(* the command datapoints, the snapshot, the relay output, fault alerts    *)
(* and the deferred reboot that switches the output off behind its back.   *)
(* The pump manager is represented by its contract.                        *)
(*                                                                         *)
(* Tasks: the pump task (pc), remote requests and datapoint writes (the    *)
(* websocket task), the event task (EVT_SESSION_READY handler), the sender *)
(* task of fp_task.c, the reboot task of core/system.c and the OTA task.   *)
(***************************************************************************)
EXTENDS PumpContract

CONSTANT Commands   \* values written to Fon_Pump_Command or sent as command

AllCommands == {"on", "off", "auto", "manual", "restart"}

ASSUME TaskAssumption == Commands \subseteq AllCommands

VARIABLES
  pc,             \* where the pump task is in its cycle
  sensor_ok,      \* bSensorOk of the current cycle
  command,        \* datapoint Fon_Pump_Command
  ack,            \* datapoint Fon_Fault_Ack
  ackTaken,       \* ucAck of poll_command_dps
  snap,           \* s_stSnap: fault and relay at the end of the last cycle
  output,         \* the relay output (LEDC duty)
  relay_failed,   \* s_bRelayFailed
  prev_fault,     \* s_ePrevFault, also the mirrored Fon_Fault_Code
  link,           \* "down", "connected" (socket), "running" (session)
  ready_event,    \* EVT_SESSION_READY queued, handler not yet run
  txq,            \* fault alerts in the transmit queue
  reboot,         \* "no", "armed" (delay), "hooked" (WLAN teardown)
  alerted,        \* history: the server knows snap.fault in this session
  lost            \* history: the last attempt to alert the fault was dropped

taskVars  == <<pc, sensor_ok, ackTaken, snap, relay_failed, prev_fault>>
alertVars == <<link, ready_event, txq, alerted, lost>>
vars      == <<pmVars, taskVars, command, ack, output, alertVars, reboot>>

\* s_hLock is held from pm_update until the snapshot is taken
lockFree == pc \notin {"poll", "ack"}

(***************************************************************************)
(* The cycle.                                                              *)
(***************************************************************************)
Measure ==
  /\ pc = "sleep"
  /\ pc' = "measured"
  /\ sensor_ok' \in BOOLEAN
  /\ UNCHANGED <<pmVars, ackTaken, snap, relay_failed, prev_fault, command,
                 ack, output, alertVars, reboot>>

Update ==
  /\ pc = "measured"
  /\ pm_update(sensor_ok)
  /\ pc' = "poll"
  /\ UNCHANGED <<sensor_ok, ackTaken, snap, relay_failed, prev_fault, command,
                 ack, output, alertVars, reboot>>

execute(c) ==
  \/ c = "none" /\ Hold
  \/ c = "on" /\ pm_request_on
  \/ c = "off" /\ pm_request_off
  \/ c = "auto" /\ pm_mode_set("AUTO")
  \/ c = "manual" /\ pm_mode_set("MANUAL")
  \/ c = "restart" /\ pm_request_restart

\* both datapoints are taken and cleared together, the command comes first
poll_command_dps ==
  /\ pc = "poll"
  /\ execute(command)
  /\ command' = "none"
  /\ ackTaken' = ack /\ ack' = FALSE
  /\ pc' = "ack"
  /\ UNCHANGED <<sensor_ok, snap, relay_failed, prev_fault, output, alertVars,
                 reboot>>

AckAndSnapshot ==
  /\ pc = "ack"
  /\ IF ackTaken THEN pm_fault_ack(sensor_ok) ELSE Hold
  /\ snap' = [fault |-> fault', relay |-> relay_on']
  /\ alerted' = (alerted /\ fault' = snap.fault)
  /\ lost' = (lost /\ fault' = snap.fault)
  /\ pc' = "output"
  /\ sensor_ok' = TRUE /\ ackTaken' = FALSE          \* no longer used
  /\ UNCHANGED <<relay_failed, prev_fault, command, ack, output, link,
                 ready_event, txq, reboot>>

hal_relay_set(on) == output' = on

RelayWrite_live ==              \* mutant: the live state instead of the snapshot
  /\ pc = "output"
  /\ hal_relay_set(relay_on)
  /\ relay_failed' = FALSE
  /\ pc' = "report"
  /\ UNCHANGED <<pmVars, sensor_ok, ackTaken, snap, prev_fault, command, ack,
                 alertVars, reboot>>

RelayWrite_gives_up ==          \* mutant: no write after a failed one
  /\ pc = "output"
  /\ hal_relay_set(IF relay_failed THEN output ELSE snap.relay)
  /\ pc' = "report"
  /\ UNCHANGED <<pmVars, sensor_ok, ackTaken, snap, relay_failed, prev_fault,
                 command, ack, alertVars, reboot>>

RelayWrite ==
  /\ pc = "output"
  /\ hal_relay_set(snap.relay)
  /\ relay_failed' = FALSE
  /\ pc' = "report"
  /\ UNCHANGED <<pmVars, sensor_ok, ackTaken, snap, prev_fault, command, ack,
                 alertVars, reboot>>

RelayWriteFails ==
  /\ pc = "output"
  /\ relay_failed' = TRUE
  /\ pc' = "report"
  /\ UNCHANGED <<pmVars, sensor_ok, ackTaken, snap, prev_fault, command, ack,
                 output, alertVars, reboot>>

\* fountain_proto_alert_send: queue the frame, or drop it after a second
alert_send(f) ==
  \/ txq' = txq \cup {f} /\ lost' = FALSE
  \/ lost' = TRUE /\ UNCHANGED txq

\* mirror_dps and report_edges
report_edges ==
  /\ pc = "report"
  /\ IF snap.fault # prev_fault /\ snap.fault # "NONE"
     THEN alert_send(snap.fault)
     ELSE UNCHANGED <<txq, lost>>
  /\ prev_fault' = snap.fault
  /\ pc' = "sleep"
  /\ UNCHANGED <<pmVars, sensor_ok, ackTaken, snap, relay_failed, command,
                 ack, output, link, ready_event, alerted, reboot>>

pump_task_cycle ==
  \/ Measure \/ Update \/ poll_command_dps \/ AckAndSnapshot
  \/ RelayWrite \/ RelayWriteFails \/ report_edges

(***************************************************************************)
(* The other tasks.                                                        *)
(***************************************************************************)
Request ==                      \* command_execute in the websocket task
  /\ lockFree
  /\ \E c \in Commands : execute(c)
  /\ UNCHANGED <<taskVars, command, ack, output, alertVars, reboot>>

WriteCommand ==                 \* dp_write of Fon_Pump_Command
  /\ command' \in Commands
  /\ UNCHANGED <<pmVars, taskVars, ack, output, alertVars, reboot>>

WriteAck ==                     \* dp_write of Fon_Fault_Ack
  /\ ack' = TRUE
  /\ UNCHANGED <<pmVars, taskVars, command, output, alertVars, reboot>>

LinkChange ==
  /\ \/ link = "down" /\ link' = "connected"
     \/ link # "down" /\ link' = "down"
  /\ alerted' = FALSE
  /\ UNCHANGED <<pmVars, taskVars, command, ack, output, ready_event, txq,
                 lost, reboot>>

SessionReady ==                 \* ota_none received, on_ready publishes
  /\ link = "connected"
  /\ link' = "running"
  /\ \/ ready_event' = TRUE /\ lost' = FALSE
     \/ lost' = TRUE /\ UNCHANGED ready_event      \* the event queue is full
  /\ UNCHANGED <<pmVars, taskVars, command, ack, output, txq, alerted, reboot>>

pump_on_net_event_quiet ==        \* mutant: a pending fault is not re-emitted
  /\ ready_event
  /\ ready_event' = FALSE
  /\ UNCHANGED <<txq, lost>>
  /\ UNCHANGED <<pmVars, taskVars, command, ack, output, link, alerted, reboot>>

pump_on_net_event ==            \* EVT_SESSION_READY in the event task
  /\ ready_event
  /\ ready_event' = FALSE
  /\ IF snap.fault # "NONE" THEN alert_send(snap.fault)
                            ELSE UNCHANGED <<txq, lost>>
  /\ UNCHANGED <<pmVars, taskVars, command, ack, output, link, alerted, reboot>>

tx_task_fn ==                   \* a frame is lost if the socket is down
  /\ \E f \in txq :
       /\ txq' = txq \ {f}
       /\ alerted' = (alerted \/ (link = "running" /\ f = snap.fault))
  /\ UNCHANGED <<pmVars, taskVars, command, ack, output, link, ready_event,
                 lost, reboot>>

RebootCommand ==                \* CMD_REBOOT: request off, then defer
  /\ lockFree
  /\ reboot = "no"
  /\ pm_request_off
  /\ reboot' = "armed"
  /\ UNCHANGED <<taskVars, command, ack, output, alertVars>>

system_reboot_deferred ==       \* watchdog, network trial
  /\ reboot = "no"
  /\ reboot' = "armed"
  /\ UNCHANGED <<pmVars, taskVars, command, ack, output, alertVars>>

glue_pre_reboot ==              \* then the WLAN teardown, up to one second
  /\ reboot = "armed"
  /\ reboot' = "hooked"
  /\ hal_relay_set(FALSE)
  /\ UNCHANGED <<pmVars, taskVars, command, ack, alertVars>>

OtaRestart ==                   \* ota_run tears the WLAN down by itself and
  /\ reboot # "hooked"           \* restarts without the pre-reboot hook
  /\ reboot' = "hooked"
  /\ UNCHANGED <<pmVars, taskVars, command, ack, output, alertVars>>

TaskInit ==
  /\ pm_init
  /\ pc = "sleep" /\ sensor_ok = TRUE
  /\ command = "none" /\ ack = FALSE /\ ackTaken = FALSE
  /\ snap = [fault |-> "NONE", relay |-> FALSE]
  /\ output = FALSE /\ relay_failed = FALSE /\ prev_fault = "NONE"
  /\ link = "down" /\ ready_event = FALSE /\ txq = {}
  /\ reboot = "no"
  /\ alerted = FALSE /\ lost = FALSE

esp_restart ==
  /\ reboot = "hooked"
  /\ relay_on' = FALSE /\ fault' = "NONE" /\ mode' = "MANUAL" /\ armed' = FALSE
  /\ pc' = "sleep" /\ sensor_ok' = TRUE
  /\ command' = "none" /\ ack' = FALSE /\ ackTaken' = FALSE
  /\ snap' = [fault |-> "NONE", relay |-> FALSE]
  /\ output' = FALSE /\ relay_failed' = FALSE /\ prev_fault' = "NONE"
  /\ link' = "down" /\ ready_event' = FALSE /\ txq' = {}
  /\ reboot' = "no"
  /\ alerted' = FALSE /\ lost' = FALSE

TaskNext ==
  \/ pump_task_cycle
  \/ Request \/ WriteCommand \/ WriteAck
  \/ LinkChange \/ SessionReady \/ pump_on_net_event \/ tx_task_fn
  \/ RebootCommand \/ system_reboot_deferred \/ glue_pre_reboot
  \/ OtaRestart \/ esp_restart

(* The pump task has the highest application priority and its own period;  *)
(* a relay write does not fail for ever.                                   *)
Fairness == WF_vars(pump_task_cycle) /\ SF_vars(RelayWrite)

TaskSpec == TaskInit /\ [][TaskNext]_vars /\ Fairness

----------------------------------------------------------------------------
TypeOK ==
  /\ relay_on \in BOOLEAN /\ armed \in BOOLEAN /\ mode \in {"AUTO", "MANUAL"}
  /\ fault \in FaultCodes \cup {"NONE"}
  /\ pc \in {"sleep", "measured", "poll", "ack", "output", "report"}
  /\ sensor_ok \in BOOLEAN /\ ack \in BOOLEAN /\ ackTaken \in BOOLEAN
  /\ command \in Commands \cup {"none"}
  /\ snap \in [fault : FaultCodes \cup {"NONE"}, relay : BOOLEAN]
  /\ output \in BOOLEAN /\ relay_failed \in BOOLEAN
  /\ prev_fault \in FaultCodes \cup {"NONE"}
  /\ link \in {"down", "connected", "running"}
  /\ ready_event \in BOOLEAN /\ txq \subseteq FaultCodes
  /\ reboot \in {"no", "armed", "hooked"}
  /\ alerted \in BOOLEAN /\ lost \in BOOLEAN

(* Between two cycles the output is never on against the last decision:    *)
(* it is on only if the snapshot says so, unless the actuator error is     *)
(* flagged, and a snapshot with a latched fault never says so.             *)
OutputFollowsDecision ==
  pc = "sleep" /\ output => relay_failed \/ (snap.relay /\ snap.fault = "NONE")

(* "A fault latched inside a funk hole must ALERT": with the session up    *)
(* and nothing left to do (no event queued, no frame queued, cycle done),  *)
(* the server has been told about the fault in this session, whatever the  *)
(* order of latch, snapshot, session start and report was.  Excluded are   *)
(* the two losses that the code never makes good (lost): an alert that     *)
(* found the transmit queue full, and an EVT_SESSION_READY that found the  *)
(* event queue full, until the fault changes, an alert of it is queued     *)
(* again or a new session is reported.                                     *)
FaultIsAlerted ==
  /\ pc = "sleep" /\ snap.fault # "NONE"
  /\ link = "running" /\ ~ready_event /\ txq = {} /\ ~lost
  => alerted

(* The strengthening behind the two: a fault excludes a running or armed   *)
(* pump in the manager and in the snapshot; outside the output section the *)
(* last cycle has been reported; and an alert the server has not seen is   *)
(* still on its way by one of the three routes: event, queue or report.     *)
FaultInv ==
  /\ fault # "NONE" => ~relay_on /\ ~armed
  /\ relay_on => ~armed
  /\ snap.fault # "NONE" => ~snap.relay

OutputInv == pc # "output" /\ output => relay_failed \/ snap.relay

ReportInv == pc \notin {"output", "report"} => prev_fault = snap.fault

AlertInv ==
  snap.fault # "NONE" /\ link = "running" =>
    \/ alerted \/ lost \/ ready_event
    \/ snap.fault \in txq
    \/ snap.fault # prev_fault

IInv == TypeOK /\ FaultInv /\ OutputInv /\ ReportInv /\ AlertInv

(* A latched fault switches the output off even if relay writes fail for a *)
(* while, however requests, acks and reboots interleave, unless the fault  *)
(* is cleared first.                                                       *)
FaultStopsOutput == (fault # "NONE") ~> (~output \/ fault = "NONE")
=============================================================================
