------------------------------ MODULE CanNode ------------------------------
(***************************************************************************)
(* The CANopen node: NMT, boot-up, error register and the PDO engine of    *)
(* co_core.c on the TWAI driver as canopen_task.c runs it.                 *)
(*                                                                         *)
(* Three tasks share the state without a lock: the CAN task (housekeeping, *)
(* alerts, received frames, emergencies, co_tick), the event task that     *)
(* notes pump faults, and the watchdog task that reinstalls a driver whose *)
(* bus-off does not end.  The CAN task is split where another task can get *)
(* between two of its accesses: taking and clearing a noted fault, and the *)
(* steps of stopping and starting the driver.                              *)
(*                                                                         *)
(* One TPDO carries a datapoint with the values 0 and 1; one RPDO has the  *)
(* default mapping or another.  Times are flags that passing time sets.    *)
(* A behaviour exercises one group of inputs (Focuses), so that the groups *)
(* add up and do not multiply.                                             *)
(***************************************************************************)
EXTENDS Naturals, Sequences, FiniteSets

CONSTANTS
  AbsentBusOffs,   \* CO_ABSENT_BUS_OFFS
  Types,           \* transmission types a master sets: 0 .. 240, 255
  CountMod,        \* 256: sync_count is a uint8_t
  TxDepth,         \* tx_queue_len
  RxMax,           \* bound on received frames while the bus is exercised
  Focuses          \* groups of inputs

Inputs == {"nmt", "fault", "tpdo", "setup", "sync", "rpdo", "bus",
           "config"}

ASSUME NodeAssumption ==
  /\ {AbsentBusOffs, CountMod, TxDepth} \subseteq Nat \ {0}
  /\ RxMax \in Nat
  /\ Types \subseteq 0 .. 255
  /\ Focuses \subseteq SUBSET Inputs

VARIABLES
  nmt, boot,      \* nmt (initialising only lasts inside node_reset) and
                  \* bootup_pending
  er,             \* error_register: "generic" and "specific"
  tp,             \* co_tpdo_t
  rp,             \* co_rpdo_t; from: the mapping when the frame arrived
  value,          \* the datapoint in the TPDO
  seen,           \* what the master last received in it
  txq,            \* the transmit queue of the driver: values of TPDOs
  fault, event,   \* Fon_Fault_Code # 0; the fault event on its way
  pending,        \* ucFaultPending: 0 none, 1 fault, 2 cleared
  taken,          \* ucPending of the CAN task
  drv,            \* the static structure s of canopen_task.c
  ctl, alerts,    \* the TWAI controller and its alerts
  enabled,        \* Can_Enabled
  task, rec,      \* where the CAN task and canopen_recover are
  missed,         \* the last fault event was dropped, or fell between taking
                  \* and clearing: history
  rude,           \* the RPDO was remapped while valid: history
  clash,          \* both tasks were in the driver at once: history
  focus           \* the inputs of this behaviour

nodeVars  == <<nmt, boot>>
pdoVars   == <<tp, rp, value, seen, rude>>
faultVars == <<er, fault, event, pending, taken, missed>>
busVars   == <<drv, ctl, alerts, enabled, rec, clash, txq>>
vars == <<nodeVars, pdoVars, faultVars, busVars, task, focus>>

-----------------------------------------------------------------------------
\* The PDOs as configured by default: the TPDO is event-driven with an event
\* timer, the RPDO is applied at once.
TpdoDefault == [valid |-> TRUE, mapped |-> TRUE, type |-> 255, timer |-> TRUE,
                have |-> FALSE, last |-> 0, hold |-> FALSE, count |-> 0]
RpdoDefault == [valid |-> TRUE, map |-> "default", sync |-> FALSE,
                pending |-> FALSE, from |-> "default"]
pdo_defaults == tp' = TpdoDefault /\ rp' = RpdoDefault /\ rude' = FALSE
FaultBits == {"generic", "specific"}
LiveBits  == IF fault THEN FaultBits ELSE {}
Settled   == event = 0 /\ pending = 0 /\ task # "emcy"

Init ==
  /\ nmt = "preop" /\ boot = TRUE
  /\ er = {} /\ fault = FALSE /\ event = 0 /\ pending = 0 /\ taken = 0
  /\ tp = TpdoDefault /\ rp = RpdoDefault /\ value = 0 /\ seen = 0
  /\ txq = <<>>
  /\ drv = [running |-> TRUE, busOff |-> FALSE, stalled |-> FALSE,
            absent |-> FALSE, waited |-> FALSE, streak |-> 0,
            changed |-> FALSE, rx |-> 0, rxSeen |-> 0]
  /\ ctl = "running" /\ alerts = {} /\ enabled = TRUE
  /\ task = "top" /\ rec = "none"
  /\ missed = FALSE /\ rude = FALSE /\ clash = FALSE
  /\ focus \in Focuses

\* can_send_cb: the driver takes the frame.
Sending   == drv.running /\ ~ drv.busOff /\ ctl = "running"
\* The CAN task is in its receive loop.
InCycle   == task = "top" /\ drv.running /\ ~ drv.busOff
\* A frame of the master arrives; the count is bounded where it matters.
Received  == /\ InCycle /\ ctl = "running"
             /\ "bus" \in focus => drv.rx < RxMax
             /\ drv' = IF "bus" \in focus THEN [drv EXCEPT !.rx = @ + 1] ELSE drv
             /\ UNCHANGED <<ctl, alerts, enabled, rec, clash, task, focus>>

-----------------------------------------------------------------------------
\* 6. NMT, boot-up, emergencies.

\* Mutant of node_reset: the register is not re-armed from the pump.
node_reset_cold(bits) ==
  /\ pdo_defaults
  /\ er' = bits
  /\ nmt' = "preop" /\ boot' = TRUE
  /\ missed' = (missed /\ ~ (bits = {} /\ Settled))

\* node_reset with cb_reset: defaults, and the register re-armed from the
\* live pump state.
node_reset(bits) ==
  /\ pdo_defaults
  /\ er' = bits \cup LiveBits
  /\ nmt' = "preop" /\ boot' = TRUE
  /\ missed' = (missed /\ ~ (bits = {} /\ Settled))

nmt_rx ==
  /\ "nmt" \in focus /\ Received
  /\ \/ /\ nmt' = "op" /\ tp' = [tp EXCEPT !.have = FALSE]
        /\ UNCHANGED <<boot, rp, rude, er, missed>>
     \/ /\ nmt' \in {"stopped", "preop"}
        /\ UNCHANGED <<boot, tp, rp, rude, er, missed>>
     \/ node_reset({})                              \* reset node
     \/ node_reset(er)                              \* reset communication
  /\ UNCHANGED <<value, seen, txq, fault, event, pending, taken>>

\* heartbeat_tick: the boot-up is repeated until the driver takes it.
BootUp ==
  /\ boot /\ InCycle /\ Sending
  /\ boot' = FALSE
  /\ UNCHANGED <<nmt, pdoVars, faultVars, busVars, task, focus>>

\* co_emcy: the register follows in every state.  The frame itself carries
\* no state.
co_emcy(clear, bits) == er' = IF clear THEN er \ bits ELSE er \cup bits

\* The pump task stores its fault code and publishes the event, which is
\* gone when the event queue is full; the event task notes it.
PumpFault ==
  /\ "fault" \in focus
  /\ fault' = ~ fault
  /\ \/ event = 0 /\ event' = (IF fault' THEN 1 ELSE 2) /\ missed' = FALSE
     \/ missed' = TRUE /\ UNCHANGED event
  /\ UNCHANGED <<nodeVars, pdoVars, er, pending, taken, busVars, task, focus>>

evt_pump_fault ==
  /\ event # 0
  /\ pending' = event /\ event' = 0
  /\ missed' = (missed \/ task = "emcy")
  /\ UNCHANGED <<nodeVars, pdoVars, er, fault, taken, busVars, task, focus>>

EmcyTake ==
  /\ InCycle /\ pending # 0
  /\ taken' = pending /\ task' = "emcy"
  /\ UNCHANGED <<nodeVars, pdoVars, er, fault, event, pending, missed, busVars,
                 focus>>

EmcySend ==
  /\ task = "emcy"
  /\ pending' = 0 /\ taken' = 0 /\ task' = "top"
  /\ co_emcy(taken = 2, FaultBits)
  /\ tp' = [tp EXCEPT !.have = FALSE]               \* co_tpdo_request
  /\ UNCHANGED <<nodeVars, rp, value, seen, rude, fault, event, missed,
                 busVars, focus>>

-----------------------------------------------------------------------------
\* 4. PDO engine.

TpdoEnabled == tp.valid /\ tp.mapped
\* What the mapping makes of the datapoints; map_validate saw that it can be
\* read.
tpdo_build  == value
TpdoChanged == ~ tp.have \/ tp.last # tpdo_build

\* The driver has room and takes the frame.
tx(v) == Sending /\ Len(txq) < TxDepth /\ txq' = Append(txq, v)

\* tpdo_send when the driver takes the frame; else nothing is recorded but
\* the count of SYNCs in t.
tpdo_send(t) ==
  \/ /\ tx(tpdo_build)
     /\ tp' = [t EXCEPT !.have = TRUE, !.last = tpdo_build, !.hold = TRUE,
                        !.count = 0]
  \/ /\ tp' = t /\ UNCHANGED txq

\* Event-driven: on change and by the event timer, after the inhibit time.
tpdo_tick ==
  /\ InCycle /\ nmt = "op" /\ TpdoEnabled /\ tp.type >= 254
  /\ ~ (tp.have /\ tp.hold)
  /\ tp.timer \/ TpdoChanged
  /\ Sending /\ Len(txq) < TxDepth /\ tpdo_send(tp)
  /\ UNCHANGED <<nodeVars, rp, value, seen, rude, faultVars, drv, ctl, alerts,
                 enabled, rec, clash, task, focus>>

\* A frame shorter than the mapping sets the generic error bit and writes
\* nothing; else the mapped datapoint is written.
rpdo_apply(short) ==
  IF short THEN co_emcy(FALSE, {"generic"}) ELSE UNCHANGED er

sync_rx ==
  /\ "sync" \in focus /\ nmt = "op" /\ Received
  /\ IF TpdoEnabled /\ tp.type <= 240
     THEN LET counted == [tp EXCEPT !.count = (@ + 1) % CountMod]
          IN  IF tp.type = 0
              THEN IF TpdoChanged THEN tpdo_send(tp) ELSE UNCHANGED <<tp, txq>>
              ELSE IF counted.count >= tp.type THEN tpdo_send(counted)
                   ELSE tp' = counted /\ UNCHANGED txq
     ELSE UNCHANGED <<tp, txq>>
  /\ rp' = [rp EXCEPT !.pending = FALSE]
  /\ IF rp.pending THEN \E short \in BOOLEAN : rpdo_apply(short)
     ELSE UNCHANGED er
  /\ UNCHANGED <<nodeVars, value, seen, rude, fault, event, pending, taken, missed>>

\* pdo_rx: a remote frame asks for the TPDO.
rtr_rx ==
  /\ "sync" \in focus /\ nmt = "op" /\ TpdoEnabled /\ Received
  /\ tpdo_send(tp)
  /\ UNCHANGED <<nodeVars, rp, value, seen, rude, faultVars>>

\* pdo_rx: an RPDO, applied at once or held until the next SYNC.
rpdo_rx ==
  /\ "rpdo" \in focus /\ nmt = "op" /\ rp.valid /\ rp.map # "none" /\ Received
  /\ IF rp.sync
     THEN rp' = [rp EXCEPT !.pending = TRUE, !.from = rp.map] /\ UNCHANGED er
     ELSE \E short \in BOOLEAN : rpdo_apply(short) /\ UNCHANGED rp
  /\ UNCHANGED <<nodeVars, tp, value, seen, rude, txq, fault, event, pending,
                 taken, missed>>

\* od_internal_write, reached by expedited downloads: TPDO parameters.
TpdoWrite ==
  /\ "setup" \in focus /\ nmt # "stopped" /\ Received
  /\ \/ \E v \in BOOLEAN : tp' = [tp EXCEPT !.valid = v, !.have = FALSE]
     \/ /\ "sync" \in focus
        /\ \E t \in Types \ (241 .. 251) : tp' = [tp EXCEPT !.type = t, !.count = 0]
     \/ \E on \in BOOLEAN : tp' = [tp EXCEPT !.timer = on]
     \/ \E n \in BOOLEAN : tp' = [tp EXCEPT !.mapped = n, !.have = FALSE]
  /\ UNCHANGED <<nodeVars, rp, value, seen, rude, txq, faultVars>>

\* A mapping of objects that exist, can be read and fit into eight bytes.
Maps == {"default", "other", "unknown"}
map_validate(m) == m # "unknown"

\* Mutant of RpdoWrite: a new COB-ID keeps the held frame.
RpdoWriteHolding ==
  /\ "rpdo" \in focus /\ nmt # "stopped" /\ Received
  /\ \/ \E v \in BOOLEAN : rp' = [rp EXCEPT !.valid = v]
     \/ \E b \in BOOLEAN : rp' = [rp EXCEPT !.sync = b, !.pending = FALSE]
     \/ rp' = [rp EXCEPT !.map = "none"]
     \/ /\ rp.map = "none"
        /\ \E m \in Maps : rp' = IF map_validate(m) THEN [rp EXCEPT !.map = m] ELSE rp
  /\ rude' = (rude \/ (rp.valid /\ rp'.map # rp.map))
  /\ UNCHANGED <<nodeVars, tp, value, seen, txq, faultVars>>

\* RPDO parameters: COB-ID and type drop a held frame, the mapping does not.
RpdoWrite ==
  /\ "rpdo" \in focus /\ nmt # "stopped" /\ Received
  /\ \/ \E v \in BOOLEAN : rp' = [rp EXCEPT !.valid = v, !.pending = FALSE]
     \/ \E b \in BOOLEAN : rp' = [rp EXCEPT !.sync = b, !.pending = FALSE]
     \/ rp' = [rp EXCEPT !.map = "none"]
     \/ /\ rp.map = "none"
        /\ \E m \in Maps : rp' = IF map_validate(m) THEN [rp EXCEPT !.map = m] ELSE rp
  /\ rude' = (rude \/ (rp.valid /\ rp'.map # rp.map))
  /\ UNCHANGED <<nodeVars, tp, value, seen, txq, faultVars>>

\* The datapoint changes; the master takes a frame; the inhibit time ends.
ValueChanges ==
  /\ "tpdo" \in focus
  /\ value' = 1 - value
  /\ UNCHANGED <<nodeVars, tp, rp, seen, rude, faultVars, busVars, task, focus>>

Deliver ==
  /\ txq # <<>> /\ ctl = "running"
  /\ seen' = Head(txq) /\ txq' = Tail(txq)
  /\ UNCHANGED <<nodeVars, tp, rp, value, rude, faultVars, drv, ctl, alerts,
                 enabled, rec, clash, task, focus>>

InhibitEnds ==
  /\ tp.hold
  /\ tp' = [tp EXCEPT !.hold = FALSE]
  /\ UNCHANGED <<nodeVars, rp, value, seen, rude, faultVars, busVars, task, focus>>

-----------------------------------------------------------------------------
\* The driver.  driver_stop has two halves: the controller is uninstalled
\* with its queue and alerts, then the flags follow.
Uninstall(d) ==
  /\ ctl' = "none" /\ alerts' = {} /\ txq' = <<>>
  /\ drv' = [d EXCEPT !.rx = 0]
Down(d) == [d EXCEPT !.running = FALSE, !.busOff = FALSE, !.stalled = FALSE]
\* driver_start: installing fails when the controller is installed.
Install(d) ==
  /\ ctl = "none" /\ ctl' = "running" /\ alerts' = {}
  /\ drv' = [d EXCEPT !.running = TRUE, !.busOff = FALSE, !.stalled = FALSE]
  /\ UNCHANGED txq
\* core_start: co_init, pdo_defaults and the live fault bits.
core_start(d) == node_reset({}) /\ drv' = [d EXCEPT !.rx = 0]

ByTask == clash' = (clash \/ rec # "none")
ByWatchdog == clash' = (clash \/ task \in {"off", "restart", "absent", "start", "core"})
Elsewhere == UNCHANGED <<nodeVars, pdoVars, faultVars, enabled, focus>>

\* Mutant of HkStart: a paused driver is not tried again.
HkStartPaused ==
  /\ task = "top" /\ ~ drv.running /\ enabled
  /\ ~ drv.absent
  /\ Install([drv EXCEPT !.changed = FALSE])
  /\ task' = "core" /\ ByTask
  /\ UNCHANGED rec /\ Elsewhere

\* housekeeping, once per second.
HkStart ==
  /\ task = "top" /\ ~ drv.running /\ enabled
  /\ drv.absent => drv.waited
  /\ Install([drv EXCEPT !.changed = FALSE])
  /\ task' = "core" /\ ByTask
  /\ UNCHANGED rec /\ Elsewhere

HkStop ==
  /\ task = "top" /\ drv.running
  /\ ~ enabled \/ drv.changed
  /\ Uninstall(drv)
  /\ task' = IF enabled THEN "restart" ELSE "off"
  /\ ByTask /\ UNCHANGED rec /\ Elsewhere

\* The flags of a stopped driver; then housekeeping or the cycle goes on.
StopDone ==
  /\ task \in {"off", "restart", "absent"}
  /\ drv' = IF task = "absent"
            THEN [Down(drv) EXCEPT !.absent = TRUE, !.waited = FALSE, !.streak = 0]
            ELSE [Down(drv) EXCEPT !.changed = IF task = "restart" THEN FALSE ELSE @]
  /\ task' = IF task = "restart" THEN "start" ELSE "top"
  /\ ByTask /\ UNCHANGED <<ctl, alerts, txq, rec>> /\ Elsewhere

Restart ==
  /\ task = "start"
  /\ IF ctl = "none" THEN Install(drv) /\ task' = "core"
     ELSE task' = "top" /\ UNCHANGED <<ctl, alerts, txq, drv>>
  /\ ByTask /\ UNCHANGED rec /\ Elsewhere

CoreStart ==
  /\ task = "core" /\ task' = "top"
  /\ core_start([drv EXCEPT !.absent = FALSE])
  /\ ByTask
  /\ UNCHANGED <<value, seen, txq, fault, event, pending, taken, ctl, alerts,
                 enabled, rec, focus>>

\* The alerts of a cycle.  A streak of bus-offs pauses the driver; a single
\* one starts the recovery, which empties the transmit queue.
Streak == IF drv.rx = drv.rxSeen THEN drv.streak + 1 ELSE 1

BusOffAlert ==
  /\ task = "top" /\ drv.running /\ "off" \in alerts
  /\ LET d == [drv EXCEPT !.busOff = TRUE, !.stalled = FALSE, !.streak = Streak,
                          !.rxSeen = drv.rx]
     IN  IF Streak >= AbsentBusOffs
         THEN Uninstall(d) /\ task' = "absent" /\ ByTask
         ELSE /\ ctl' = "recovering" /\ alerts' = {} /\ txq' = <<>> /\ drv' = d
              /\ UNCHANGED <<task, clash>>
  /\ UNCHANGED rec /\ Elsewhere

\* Mutant of RecoveredAlert: the flushed TPDOs are not sent again.
RecoveredQuietly ==
  /\ task = "top" /\ drv.running /\ "recovered" \in alerts
  /\ ctl' = "running" /\ alerts' = {}
  /\ drv' = [drv EXCEPT !.busOff = FALSE, !.stalled = FALSE]
  /\ UNCHANGED <<nodeVars, pdoVars, faultVars, enabled, txq, rec, clash, task,
                 focus>>

\* The end of a recovery: twai_start, which may fail and is not tried again;
\* the bus-off then goes on until canopen_recover ends it.
RecoveredAlert ==
  /\ task = "top" /\ drv.running /\ "recovered" \in alerts
  /\ alerts' = {}
  /\ \/ /\ ctl' = "running"
        /\ drv' = [drv EXCEPT !.busOff = FALSE, !.stalled = FALSE]
        /\ tp' = [tp EXCEPT !.have = FALSE]         \* co_tpdo_request
     \/ UNCHANGED <<ctl, drv, tp>>
  /\ UNCHANGED <<nodeVars, rp, value, seen, rude, faultVars, enabled, txq, rec,
                 clash, task, focus>>

\* canopen_recover in the watchdog task: the cycle has failed for the 5 s of
\* its channel because a bus-off does not end.
RecoverStop ==
  /\ rec = "none" /\ drv.running /\ drv.busOff /\ drv.stalled
  /\ Uninstall(drv)
  /\ rec' = "stopping" /\ ByWatchdog /\ UNCHANGED task /\ Elsewhere

RecoverDown ==
  /\ rec = "stopping"
  /\ drv' = [Down(drv) EXCEPT !.absent = FALSE,
                              !.changed = IF enabled THEN FALSE ELSE @]
  /\ rec' = IF enabled THEN "start" ELSE "none"
  /\ ByWatchdog /\ UNCHANGED <<ctl, alerts, txq, task>> /\ Elsewhere

RecoverStart ==
  /\ rec = "start"
  /\ IF ctl = "none" THEN Install(drv) /\ rec' = "core"
     ELSE rec' = "none" /\ UNCHANGED <<ctl, alerts, txq, drv>>
  /\ ByWatchdog /\ UNCHANGED task /\ Elsewhere

RecoverCore ==
  /\ rec = "core" /\ rec' = "none"
  /\ core_start(drv)
  /\ ByWatchdog
  /\ UNCHANGED <<value, seen, txq, fault, event, pending, taken, ctl, alerts,
                 enabled, task, focus>>

\* The bus, the operator, and time.
BusOff ==
  /\ "bus" \in focus /\ ctl = "running"
  /\ ctl' = "busoff" /\ alerts' = {"off"}
  /\ UNCHANGED <<drv, txq, clash, task, rec>> /\ Elsewhere

BusRecovers ==
  /\ ctl = "recovering"
  /\ ctl' = "stopped" /\ alerts' = {"recovered"}
  /\ UNCHANGED <<drv, txq, clash, task, rec>> /\ Elsewhere

Reconfigure ==
  /\ "config" \in focus
  /\ \/ enabled' = ~ enabled /\ UNCHANGED drv
     \/ drv' = [drv EXCEPT !.changed = drv.running] /\ UNCHANGED enabled
  /\ UNCHANGED <<nodeVars, pdoVars, faultVars, ctl, alerts, rec, clash, txq,
                 task, focus>>

Elapse ==
  /\ \/ drv.busOff /\ ~ drv.stalled /\ drv' = [drv EXCEPT !.stalled = TRUE]
     \/ drv.absent /\ ~ drv.waited /\ drv' = [drv EXCEPT !.waited = TRUE]
  /\ UNCHANGED <<ctl, alerts, txq, clash, task, rec>> /\ Elsewhere

-----------------------------------------------------------------------------
CanTask == \/ nmt_rx \/ sync_rx \/ rtr_rx \/ rpdo_rx \/ TpdoWrite \/ RpdoWrite
           \/ BootUp \/ tpdo_tick \/ EmcyTake \/ EmcySend
           \/ HkStart \/ HkStop \/ StopDone \/ Restart \/ CoreStart
           \/ BusOffAlert \/ RecoveredAlert
Recover == RecoverStop \/ RecoverDown \/ RecoverStart \/ RecoverCore

Next == \/ CanTask \/ Recover \/ PumpFault \/ evt_pump_fault
        \/ ValueChanges \/ Deliver \/ InhibitEnds
        \/ BusOff \/ BusRecovers \/ Reconfigure \/ Elapse

\* The CAN task comes to every step of its cycle again and again; the checks
\* at its top are reached although emergencies interrupt the wait for them
\* (strong fairness);
\* the event and watchdog tasks run, time passes, and a working bus carries
\* frames.  Frames of the master, bus-offs and recoveries need not happen.
Fairness ==
  /\ SF_vars(HkStop \/ BusOffAlert)
  /\ WF_vars(HkStart) /\ WF_vars(RecoveredAlert) /\ WF_vars(tpdo_tick)
  /\ WF_vars(StopDone) /\ WF_vars(Restart) /\ WF_vars(CoreStart)
  /\ WF_vars(EmcyTake) /\ WF_vars(EmcySend)
  /\ WF_vars(Recover) /\ WF_vars(evt_pump_fault)
  /\ WF_vars(Deliver) /\ WF_vars(InhibitEnds) /\ WF_vars(Elapse)

Spec == Init /\ [][Next]_vars /\ Fairness

-----------------------------------------------------------------------------
\* Properties.

\* The PDO records, the flags of the driver and the places of the three tasks
\* stay within their types; sync_count within a byte.
Tpdos == [valid : BOOLEAN, mapped : BOOLEAN, type : Types \cup {255},
          timer : BOOLEAN, have : BOOLEAN, last : {0, 1}, hold : BOOLEAN,
          count : 0 .. CountMod - 1]
Rpdos == [valid : BOOLEAN, map : {"default", "other", "none"}, sync : BOOLEAN,
          pending : BOOLEAN, from : {"default", "other", "none"}]
Drivers == [running : BOOLEAN, busOff : BOOLEAN, stalled : BOOLEAN,
            absent : BOOLEAN, waited : BOOLEAN, streak : Nat,
            changed : BOOLEAN, rx : Nat, rxSeen : Nat]
TypeOK ==
  /\ nmt \in {"preop", "op", "stopped"} /\ boot \in BOOLEAN
  /\ er \subseteq FaultBits /\ fault \in BOOLEAN
  /\ {event, pending, taken} \subseteq {0, 1, 2}
  /\ tp \in Tpdos /\ rp \in Rpdos
  /\ value \in {0, 1} /\ seen \in {0, 1} /\ txq \in Seq({0, 1})
  /\ drv \in Drivers
  /\ ctl \in {"none", "running", "busoff", "recovering", "stopped"}
  /\ alerts \subseteq {"off", "recovered"} /\ enabled \in BOOLEAN
  /\ task \in {"top", "emcy", "off", "restart", "absent", "start", "core"}
  /\ rec \in {"none", "stopping", "start", "core"}
  /\ {missed, rude, clash} \subseteq BOOLEAN /\ focus \in Focuses

\* The device-specific bit of the error register says whether a pump fault
\* is latched, once the event of the last change has been handled, through
\* every NMT reset and driver restart.  Excluded, until the next event or a
\* reset of the node, is the last event being lost (missed): dropped at a full
\* event queue (event_manager_publish), or noted in the window of the cycle
\* between reading ucFaultPending and clearing it (canopen_task.c: ucPending).
RegisterFollowsFault ==
  Settled /\ ~ missed => (("specific" \in er) = fault)

\* A synchronous RPDO held for the next SYNC is applied to the mapping it was
\* sent for, when the master disables the RPDO before it remaps it
\* (od_internal_write drops the frame with the COB-ID).  A mapping written
\* while the RPDO is valid is accepted and does not drop it.
HeldFrameKeepsTarget == rp.pending => rp.from = rp.map \/ rude

\* When the node stays operational on a working bus and the value of an
\* event-driven TPDO settles, the master ends up with that value: frames
\* refused by the driver or flushed by a recovery are made up for
\* (tpdo_send, co_tpdo_request), with or without the event timer.
Carrying == /\ nmt = "op" /\ TpdoEnabled /\ tp.type = 255
            /\ Sending /\ task = "top" /\ rec = "none"
MasterSeesLatest ==
  \A v \in {0, 1} : <>[](Carrying /\ value = v) => <>[](seen = v)

\* An enabled node always gets back to a working driver, whatever sequence of
\* bus-offs, stalled or failed recoveries, pauses and configuration changes it
\* meets.  The exception is the defect of two tasks in the driver at once: a
\* start between the halves of the other's driver_stop leaves the controller
\* installed and bRunning false, and every later start fails on that.
Split == ctl # "none" /\ ~ drv.running
BusComesBack == []<>(~ enabled \/ Sending) \/ <>[]Split
=============================================================================
