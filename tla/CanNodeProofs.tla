--------------------------- MODULE CanNodeProofs ---------------------------
(***************************************************************************)
(* Safety of the CANopen node for every set of inputs, every queue length  *)
(* and every number of bus-offs: the error register, the held RPDO, the    *)
(* driver between its two users, and the types.                            *)
(* Then its SDO server, for values, segments, buffer and queues of every   *)
(* size: what reaches the datapoints and what leaves the node.             *)
(***************************************************************************)
EXTENDS CanNode, CanSdo, SequenceTheorems, FiniteSetTheorems, TLAPS

\* The number a fault event carries while the pump is in its present state.
Code == IF fault THEN 1 ELSE 2

FaultTypes ==
  /\ fault \in BOOLEAN /\ missed \in BOOLEAN
  /\ event \in {0, 1, 2} /\ pending \in {0, 1, 2} /\ taken \in {0, 1, 2}

\* Unless the last event was lost: the event on its way, or else the noted
\* one, is about the present state of the pump, and the noted one is what the
\* CAN task handles.
NoteInv ==
  ~ missed =>
    /\ event # 0 => event = Code
    /\ event = 0 /\ pending # 0 => pending = Code
    /\ event = 0 /\ task = "emcy" => taken = pending /\ pending # 0

FaultInv == FaultTypes /\ NoteInv /\ RegisterFollowsFault

\* A frame is only held by a valid RPDO: a new COB-ID drops it.
HeldInv == (rp.pending => rp.valid) /\ HeldFrameKeepsTarget

\* What the proofs use of the types of the RPDO.
RpdoTypes == rp \in Rpdos /\ rude \in BOOLEAN

-----------------------------------------------------------------------------
(***************************************************************************)
(* A step that leaves the register and the notes alone and neither enters  *)
(* nor leaves the emergency keeps FaultInv.                                *)
(***************************************************************************)
LEMMA FaultAside ==
  ASSUME FaultInv, UNCHANGED faultVars, task' = "emcy" <=> task = "emcy"
  PROVE  FaultInv'
BY DEF FaultInv, FaultTypes, NoteInv, RegisterFollowsFault, Settled, Code, faultVars

(***************************************************************************)
(* A step that changes no other bit than the generic one keeps it too.     *)
(***************************************************************************)
LEMMA FaultGeneric ==
  ASSUME FaultInv, UNCHANGED <<fault, event, pending, taken, missed>>,
         task' = "emcy" <=> task = "emcy",
         "specific" \in er' <=> "specific" \in er
  PROVE  FaultInv'
BY DEF FaultInv, FaultTypes, NoteInv, RegisterFollowsFault, Settled, Code

(***************************************************************************)
(* A reset arms the register from the pump, so it keeps FaultInv and even  *)
(* repairs a lost event; it may find the CAN task in an emergency when it  *)
(* comes from the watchdog task.                                           *)
(***************************************************************************)
LEMMA FaultReset ==
  ASSUME FaultInv, NEW bits, bits = {} \/ bits = er, node_reset(bits),
         UNCHANGED <<fault, event, pending, taken>>,
         task' = "emcy" <=> task = "emcy"
  PROVE  FaultInv'
<1>1. FaultTypes'
  BY DEF FaultInv, FaultTypes, node_reset
<1>2. NoteInv'
  BY DEF FaultInv, FaultTypes, NoteInv, Code, node_reset, Settled
<1>3. ASSUME Settled, ~ missed'
      PROVE  "specific" \in er' <=> fault
  <2>1. CASE missed
    BY <1>3, <2>1 DEF FaultInv, FaultTypes, node_reset, LiveBits, FaultBits
  <2>2. CASE ~ missed
    BY <1>3, <2>2 DEF FaultInv, FaultTypes, RegisterFollowsFault, node_reset,
                      LiveBits, FaultBits
  <2> QED
    BY <2>1, <2>2
<1>4. RegisterFollowsFault'
  BY <1>1, <1>3 DEF RegisterFollowsFault, Settled, FaultTypes
<1> QED
  BY <1>1, <1>2, <1>4 DEF FaultInv

-----------------------------------------------------------------------------
LEMMA FaultInit == Init => FaultInv
<1> SUFFICES ASSUME Init PROVE FaultInv
  OBVIOUS
<1>1. /\ fault = FALSE /\ missed = FALSE /\ er = {}
      /\ event = 0 /\ pending = 0 /\ taken = 0 /\ task = "top"
  BY DEF Init
<1>2. FaultTypes
  BY <1>1 DEF FaultTypes
<1>3. NoteInv
  BY <1>1 DEF NoteInv
<1>4. "specific" \in er <=> fault
  BY <1>1
<1>5. RegisterFollowsFault
  BY <1>2, <1>4 DEF RegisterFollowsFault, FaultTypes
<1> QED
  BY <1>2, <1>3, <1>5 DEF FaultInv

LEMMA FaultPump ==
  ASSUME FaultInv, PumpFault \/ evt_pump_fault \/ EmcyTake
  PROVE  FaultInv'
<1>1. CASE PumpFault
  <2>1. FaultTypes'
    BY <1>1 DEF FaultInv, FaultTypes, PumpFault
  <2>2. NoteInv' /\ (missed' \/ event' # 0)
    BY <1>1 DEF FaultInv, FaultTypes, NoteInv, Code, PumpFault
  <2> QED
    BY <2>1, <2>2 DEF FaultInv, RegisterFollowsFault, Settled
<1>2. CASE evt_pump_fault
  BY <1>2 DEF FaultInv, FaultTypes, NoteInv, Code, RegisterFollowsFault,
              Settled, evt_pump_fault
<1>3. CASE EmcyTake
  BY <1>3 DEF FaultInv, FaultTypes, NoteInv, Code, RegisterFollowsFault,
              Settled, EmcyTake, InCycle
<1> QED
  BY <1>1, <1>2, <1>3

(***************************************************************************)
(* The emergency of a noted event brings the register to the state of the  *)
(* pump, when no event came in between.                                    *)
(***************************************************************************)
LEMMA FaultSend ==
  ASSUME FaultInv, EmcySend
  PROVE  FaultInv'
<1>1. FaultTypes' /\ NoteInv'
  BY DEF FaultInv, FaultTypes, NoteInv, Code, EmcySend
<1>2. ASSUME event = 0, ~ missed
      PROVE  "specific" \in er' <=> fault
  <2>1. taken = Code
    BY <1>2 DEF FaultInv, NoteInv, EmcySend
  <2> QED
    BY <2>1 DEF FaultInv, FaultTypes, Code, EmcySend, co_emcy, FaultBits
<1>3. RegisterFollowsFault'
  BY <1>1, <1>2 DEF RegisterFollowsFault, Settled, FaultTypes, EmcySend
<1> QED
  BY <1>1, <1>3 DEF FaultInv

-----------------------------------------------------------------------------
LEMMA FaultFrames ==
  ASSUME FaultInv,
         nmt_rx \/ sync_rx \/ rtr_rx \/ rpdo_rx \/ TpdoWrite \/ RpdoWrite
  PROVE  FaultInv'
<1>1. CASE nmt_rx
  <2>1. /\ UNCHANGED <<fault, event, pending, taken>>
        /\ task' = task
    BY <1>1 DEF nmt_rx, Received
  <2>2. \/ UNCHANGED <<er, missed>>
        \/ node_reset({})
        \/ node_reset(er)
    BY <1>1 DEF nmt_rx
  <2> QED
    BY <2>1, <2>2, FaultReset, FaultAside DEF faultVars
<1>2. CASE sync_rx \/ rpdo_rx
  <2>1. /\ UNCHANGED <<fault, event, pending, taken, missed>>
        /\ task' = task
    BY <1>2 DEF sync_rx, rpdo_rx, Received
  <2>2. er' = er \/ er' = er \cup {"generic"}
    BY <1>2 DEF sync_rx, rpdo_rx, rpdo_apply, co_emcy
  <2> QED
    BY <2>1, <2>2, FaultGeneric
<1>3. CASE rtr_rx \/ TpdoWrite \/ RpdoWrite
  BY <1>3, FaultAside DEF rtr_rx, TpdoWrite, RpdoWrite, Received
<1> QED
  BY <1>1, <1>2, <1>3

LEMMA FaultDriver ==
  ASSUME FaultInv,
         \/ HkStart \/ HkStop \/ StopDone \/ Restart \/ CoreStart
         \/ BusOffAlert \/ RecoveredAlert \/ Recover
  PROVE  FaultInv'
<1>1. CASE HkStart \/ HkStop \/ StopDone
  BY <1>1, FaultAside DEF HkStart, HkStop, StopDone, Elsewhere
<1>2. CASE Restart \/ BusOffAlert \/ RecoveredAlert
  BY <1>2, FaultAside DEF Restart, BusOffAlert, RecoveredAlert, Elsewhere
<1>3. CASE CoreStart
  BY <1>3, FaultReset DEF CoreStart, core_start
<1>4. CASE RecoverStop \/ RecoverDown \/ RecoverStart
  BY <1>4, FaultAside DEF RecoverStop, RecoverDown, RecoverStart, Elsewhere
<1>5. CASE RecoverCore
  BY <1>5, FaultReset DEF RecoverCore, core_start
<1> QED
  BY <1>1, <1>2, <1>3, <1>4, <1>5 DEF Recover

LEMMA FaultOthers ==
  ASSUME FaultInv,
         \/ BootUp \/ tpdo_tick \/ ValueChanges \/ Deliver \/ InhibitEnds
         \/ BusOff \/ BusRecovers \/ Reconfigure \/ Elapse \/ UNCHANGED vars
  PROVE  FaultInv'
<1>1. UNCHANGED faultVars /\ task' = task
  BY DEF BootUp, tpdo_tick, ValueChanges, Deliver, InhibitEnds, BusOff,
         BusRecovers, Reconfigure, Elapse, Elsewhere, vars
<1> QED
  BY <1>1, FaultAside

LEMMA FaultStep == FaultInv /\ [Next]_vars => FaultInv'
<1> SUFFICES ASSUME FaultInv, [Next]_vars PROVE FaultInv'
  OBVIOUS
<1> QED
  BY FaultPump, FaultSend, FaultFrames, FaultDriver, FaultOthers
     DEF Next, CanTask

(***************************************************************************)
(* The device-specific bit of the error register says whether a pump fault *)
(* is latched, through resets, restarts of the driver and the watchdog's   *)
(* recovery, for every grouping of the inputs (cb_reset, co_emcy,          *)
(* evt_pump_fault).  The exception, until the next event or a reset, is a  *)
(* last event that was dropped at a full event queue or arrived while the  *)
(* CAN task cleared the note of the previous one.                          *)
(***************************************************************************)
THEOREM RegisterIsTrue == Spec => []RegisterFollowsFault
<1>1. FaultInv => RegisterFollowsFault
  BY DEF FaultInv
<1> QED
  BY <1>1, FaultInit, FaultStep, PTL DEF Spec

-----------------------------------------------------------------------------
\* The RPDO.

HeldFull == RpdoTypes /\ HeldInv

LEMMA HeldInit == Init => HeldFull
<1> SUFFICES ASSUME Init PROVE HeldFull
  OBVIOUS
<1>1. rp = RpdoDefault /\ rude = FALSE
  BY DEF Init
<1>2. rp \in Rpdos /\ ~ rp.pending
  BY <1>1 DEF Rpdos, RpdoDefault
<1>3. rude \in BOOLEAN
  BY <1>1
<1> QED
  BY <1>2, <1>3 DEF HeldFull, HeldInv, HeldFrameKeepsTarget, RpdoTypes

LEMMA HeldAside ==
  ASSUME HeldFull, UNCHANGED <<rp, rude>>
  PROVE  HeldFull'
BY DEF HeldFull, HeldInv, HeldFrameKeepsTarget, RpdoTypes

(***************************************************************************)
(* The default parameters hold no frame.                                   *)
(***************************************************************************)
LEMMA HeldReset ==
  ASSUME NEW bits, node_reset(bits)
  PROVE  HeldFull'
BY DEF node_reset, pdo_defaults, HeldFull, HeldInv, HeldFrameKeepsTarget,
       RpdoTypes, Rpdos, RpdoDefault

(***************************************************************************)
(* A frame is held for the mapping of that moment by a valid RPDO; SYNC    *)
(* applies it.                                                             *)
(***************************************************************************)
LEMMA HeldFrames ==
  ASSUME HeldFull, rpdo_rx \/ sync_rx
  PROVE  HeldFull'
<1>1. CASE rpdo_rx
  <2>1. rude' = rude /\ rp.valid
    BY <1>1 DEF rpdo_rx
  <2>2. rp' = rp \/ rp' = [rp EXCEPT !.pending = TRUE, !.from = rp.map]
    BY <1>1 DEF rpdo_rx
  <2> QED
    BY <2>1, <2>2 DEF HeldFull, HeldInv, HeldFrameKeepsTarget, RpdoTypes, Rpdos
<1>2. CASE sync_rx
  <2>1. rude' = rude /\ rp' = [rp EXCEPT !.pending = FALSE]
    BY <1>2 DEF sync_rx
  <2> QED
    BY <2>1 DEF HeldFull, HeldInv, HeldFrameKeepsTarget, RpdoTypes, Rpdos
<1> QED
  BY <1>1, <1>2

(***************************************************************************)
(* COB-ID and type drop the frame; a mapping is changed under a held frame *)
(* only while the RPDO is valid, which rude records.                       *)
(***************************************************************************)
LEMMA HeldWrite ==
  ASSUME HeldFull, RpdoWrite
  PROVE  HeldFull'
<1>1. rude' = (rude \/ (rp.valid /\ rp'.map # rp.map))
  BY DEF RpdoWrite
<1>2. rude' \in BOOLEAN
  BY <1>1
<1>3. CASE \E v \in BOOLEAN : rp' = [rp EXCEPT !.valid = v, !.pending = FALSE]
  BY <1>2, <1>3 DEF HeldFull, HeldInv, HeldFrameKeepsTarget, RpdoTypes, Rpdos
<1>4. CASE \E b \in BOOLEAN : rp' = [rp EXCEPT !.sync = b, !.pending = FALSE]
  BY <1>2, <1>4 DEF HeldFull, HeldInv, HeldFrameKeepsTarget, RpdoTypes, Rpdos
<1>5. CASE \E m \in {"default", "other", "none"} : rp' = [rp EXCEPT !.map = m]
  <2> PICK m \in {"default", "other", "none"} : rp' = [rp EXCEPT !.map = m]
    BY <1>5
  <2>1. /\ rp' \in Rpdos
        /\ rp'.pending = rp.pending /\ rp'.valid = rp.valid
        /\ rp'.from = rp.from
    BY DEF HeldFull, RpdoTypes, Rpdos
  <2>2. ASSUME rp.pending PROVE rp'.from = rp'.map \/ rude'
    <3>1. CASE rp'.map = rp.map
      BY <1>1, <2>1, <2>2, <3>1 DEF HeldFull, HeldInv, HeldFrameKeepsTarget
    <3>2. CASE rp'.map # rp.map
      BY <1>1, <2>2, <3>2 DEF HeldFull, HeldInv
    <3> QED
      BY <3>1, <3>2
  <2>3. HeldFrameKeepsTarget'
    BY <2>1, <2>2 DEF HeldFrameKeepsTarget
  <2> QED
    BY <1>2, <2>1, <2>3 DEF HeldFull, HeldInv, RpdoTypes
<1>6. CASE rp' = rp
  BY <1>1, <1>2, <1>6 DEF HeldFull, HeldInv, HeldFrameKeepsTarget, RpdoTypes
<1>7. \/ \E v \in BOOLEAN : rp' = [rp EXCEPT !.valid = v, !.pending = FALSE]
      \/ \E b \in BOOLEAN : rp' = [rp EXCEPT !.sync = b, !.pending = FALSE]
      \/ \E m \in {"default", "other", "none"} : rp' = [rp EXCEPT !.map = m]
      \/ rp' = rp
  BY DEF RpdoWrite, Maps, map_validate
<1> QED
  BY <1>3, <1>4, <1>5, <1>6, <1>7

LEMMA HeldStep == HeldFull /\ [Next]_vars => HeldFull'
<1> SUFFICES ASSUME HeldFull, [Next]_vars PROVE HeldFull'
  OBVIOUS
<1>1. CASE nmt_rx
  BY <1>1, HeldAside, HeldReset DEF nmt_rx
<1>2. CASE CoreStart \/ RecoverCore
  BY <1>2, HeldReset DEF CoreStart, RecoverCore, core_start
<1>3. CASE \/ BootUp \/ tpdo_tick \/ EmcyTake \/ EmcySend \/ rtr_rx
           \/ TpdoWrite \/ PumpFault \/ evt_pump_fault \/ ValueChanges
           \/ Deliver \/ InhibitEnds
  <2>1. UNCHANGED <<rp, rude>>
    BY <1>3 DEF BootUp, tpdo_tick, EmcyTake, EmcySend, rtr_rx, TpdoWrite,
                PumpFault, evt_pump_fault, ValueChanges, Deliver, InhibitEnds,
                pdoVars
  <2> QED
    BY <2>1, HeldAside
<1>4. CASE \/ HkStart \/ HkStop \/ StopDone \/ Restart \/ BusOffAlert
           \/ RecoveredAlert \/ RecoverStop \/ RecoverDown \/ RecoverStart
           \/ BusOff \/ BusRecovers \/ Reconfigure \/ Elapse \/ UNCHANGED vars
  <2>1. UNCHANGED <<rp, rude>>
    BY <1>4 DEF HkStart, HkStop, StopDone, Restart, BusOffAlert,
                RecoveredAlert, RecoverStop, RecoverDown, RecoverStart, BusOff,
                BusRecovers, Reconfigure, Elapse, Elsewhere, pdoVars, vars
  <2> QED
    BY <2>1, HeldAside
<1> QED
  BY <1>1, <1>2, <1>3, <1>4, HeldFrames, HeldWrite DEF Next, CanTask, Recover

(***************************************************************************)
(* A synchronous RPDO held for SYNC is applied to the mapping it was sent  *)
(* for, for every sequence of parameter writes, resets and SYNCs in which  *)
(* the master disables an RPDO before it remaps it (od_internal_write,     *)
(* pdo_rx, sync_rx).                                                       *)
(***************************************************************************)
THEOREM HeldFramesAreSafe == Spec => []HeldFrameKeepsTarget
<1>1. HeldFull => HeldFrameKeepsTarget
  BY DEF HeldFull, HeldInv
<1> QED
  BY <1>1, HeldInit, HeldStep, PTL DEF Spec

-----------------------------------------------------------------------------
\* The driver.

Ctls   == {"none", "running", "busoff", "recovering", "stopped"}
Places == {"top", "emcy", "off", "restart", "absent", "start", "core"}

\* What the proofs use of the types of the driver and its two users.
DriverTypes ==
  /\ drv \in Drivers /\ ctl \in Ctls /\ task \in Places
  /\ rec \in {"none", "stopping", "start", "core"}
  /\ clash \in BOOLEAN /\ enabled \in BOOLEAN

\* The alert of a bus-off waits while the controller does, that of its end
\* until twai_start has been tried.
AlertsFit ==
  /\ ctl = "busoff" => alerts = {"off"}
  /\ ctl = "stopped" => alerts \subseteq {"recovered"}
  /\ ctl \in {"none", "running", "recovering"} => alerts = {}

\* As long as one task at a time is in the driver, its place there says
\* whether the controller is installed and what bRunning is; and the flag of
\* a bus-off belongs to a controller that recovers.
PlaceInv ==
  /\ rec = "none" \/ task \in {"top", "emcy"}
  /\ task \in {"off", "restart", "absent"} => ctl = "none" /\ drv.running
  /\ task = "start" => ctl = "none" /\ ~ drv.running
  /\ task = "core" => ctl # "none" /\ drv.running
  /\ rec = "stopping" => ctl = "none" /\ drv.running
  /\ rec = "start" => ctl = "none" /\ ~ drv.running
  /\ rec = "core" => ctl # "none" /\ drv.running
  /\ rec = "none" /\ task \in {"top", "emcy"} => (drv.running <=> ctl # "none")
  /\ ctl # "none" => (drv.busOff <=> ctl \in {"recovering", "stopped"})
  /\ ~ drv.running => ~ drv.busOff

DriverInv == DriverTypes /\ AlertsFit /\ (~ clash => PlaceInv)

\* Whenever neither the CAN task nor canopen_recover is in the driver, and they
\* never were at once, bRunning says whether the controller is installed,
\* bBusOff whether it recovers or stands still behind a recovery, and a bus-off
\* not handled yet has its alert: the node cannot be left with a dead driver
\* that nobody looks at, since a bBusOff that lasts brings canopen_recover.
DriverInStep ==
  ~ clash /\ rec = "none" /\ task \in {"top", "emcy"} =>
     /\ drv.running <=> ctl # "none"
     /\ drv.busOff <=> ctl \in {"recovering", "stopped"}
     /\ ctl = "busoff" => "off" \in alerts

(***************************************************************************)
(* What does not touch the driver keeps DriverInv; so does counting a      *)
(* frame, a note of a changed configuration, and time.                     *)
(***************************************************************************)
LEMMA DriverAside ==
  ASSUME DriverInv, enabled' \in BOOLEAN, drv' \in Drivers,
         drv'.running = drv.running, drv'.busOff = drv.busOff,
         UNCHANGED <<ctl, alerts, rec, clash>>,
         \/ task' = task
         \/ {task, task'} \subseteq {"top", "emcy"}
  PROVE  DriverInv'
<1>1. DriverTypes'
  BY DEF DriverInv, DriverTypes, Places
<1>2. AlertsFit'
  BY DEF DriverInv, AlertsFit
<1>3. PlaceInv => PlaceInv'
  <2>1. /\ drv'.running <=> drv.running
        /\ drv'.busOff <=> drv.busOff
    OBVIOUS
  <2>2. task' \in {"top", "emcy"} <=> task \in {"top", "emcy"}
    OBVIOUS
  <2>3. \A p \in {"off", "restart", "absent", "start", "core"} : task' = p <=> task = p
    OBVIOUS
  <2> QED
    BY <2>1, <2>2, <2>3 DEF PlaceInv
<1> QED
  BY <1>1, <1>2, <1>3 DEF DriverInv

\* A frame of the master is counted and leaves the driver alone.
LEMMA DriverFrames ==
  ASSUME DriverInv,
         nmt_rx \/ sync_rx \/ rtr_rx \/ rpdo_rx \/ TpdoWrite \/ RpdoWrite
  PROVE  DriverInv'
<1>1. Received
  BY DEF nmt_rx, sync_rx, rtr_rx, rpdo_rx, TpdoWrite, RpdoWrite
<1>2. drv \in Drivers /\ enabled \in BOOLEAN
  BY DEF DriverInv, DriverTypes
<1>3. /\ drv' \in Drivers /\ drv'.running = drv.running /\ drv'.busOff = drv.busOff
  <2>1. drv' = drv \/ drv' = [drv EXCEPT !.rx = @ + 1]
    BY <1>1 DEF Received
  <2> QED
    BY <1>2, <2>1 DEF Drivers
<1>4. UNCHANGED <<ctl, alerts, enabled, rec, clash, task>>
  BY <1>1 DEF Received
<1> QED
  BY <1>2, <1>3, <1>4, DriverAside

\* The rest of the cycle and the other tasks leave it alone.
LEMMA DriverOthers ==
  ASSUME DriverInv,
         \/ BootUp \/ tpdo_tick \/ EmcyTake \/ EmcySend \/ PumpFault
         \/ evt_pump_fault \/ ValueChanges \/ Deliver \/ InhibitEnds
         \/ UNCHANGED vars
  PROVE  DriverInv'
<1>1. UNCHANGED <<drv, ctl, alerts, enabled, rec, clash>>
  BY DEF BootUp, tpdo_tick, EmcyTake, EmcySend, PumpFault, evt_pump_fault,
         ValueChanges, Deliver, InhibitEnds, busVars, vars
<1>2. task' = task \/ {task, task'} \subseteq {"top", "emcy"}
  BY DEF BootUp, tpdo_tick, EmcyTake, EmcySend, PumpFault, evt_pump_fault,
         ValueChanges, Deliver, InhibitEnds, vars, InCycle
<1>3. drv \in Drivers /\ enabled \in BOOLEAN
  BY DEF DriverInv, DriverTypes
<1> QED
  BY <1>1, <1>2, <1>3, DriverAside

\* A changed configuration is noted, and time passes.
LEMMA DriverTime ==
  ASSUME DriverInv, Reconfigure \/ Elapse
  PROVE  DriverInv'
<1>1. drv \in Drivers /\ enabled \in BOOLEAN
  BY DEF DriverInv, DriverTypes
<1>2. UNCHANGED <<ctl, alerts, rec, clash, task>>
  BY DEF Reconfigure, Elapse
<1>3. /\ drv' \in Drivers /\ drv'.running = drv.running /\ drv'.busOff = drv.busOff
  <2>1. \/ drv' = drv \/ drv' = [drv EXCEPT !.changed = drv.running]
        \/ drv' = [drv EXCEPT !.stalled = TRUE] \/ drv' = [drv EXCEPT !.waited = TRUE]
    BY DEF Reconfigure, Elapse
  <2> QED
    BY <1>1, <2>1 DEF Drivers
<1>4. enabled' \in BOOLEAN
  BY <1>1 DEF Reconfigure, Elapse, Elsewhere
<1> QED
  BY <1>1, <1>2, <1>3, <1>4, DriverAside

(***************************************************************************)
(* The bus: an installed controller goes off and recovers by itself; each  *)
(* leaves an alert.                                                        *)
(***************************************************************************)
LEMMA DriverBus ==
  ASSUME DriverInv, BusOff \/ BusRecovers
  PROVE  DriverInv'
<1>1. UNCHANGED <<drv, clash, task, rec, enabled>>
  BY DEF BusOff, BusRecovers, Elsewhere
<1>2. \/ ctl = "running" /\ ctl' = "busoff" /\ alerts' = {"off"}
      \/ ctl = "recovering" /\ ctl' = "stopped" /\ alerts' = {"recovered"}
  BY DEF BusOff, BusRecovers
<1>3. DriverTypes'
  BY <1>1, <1>2 DEF DriverInv, DriverTypes, Ctls
<1>4. AlertsFit'
  BY <1>2 DEF AlertsFit
<1>5. PlaceInv => PlaceInv'
  BY <1>1, <1>2 DEF PlaceInv
<1> QED
  BY <1>1, <1>3, <1>4, <1>5 DEF DriverInv

(***************************************************************************)
(* The alerts: a single bus-off starts the recovery, its end the node.     *)
(***************************************************************************)
LEMMA DriverAlerts ==
  ASSUME DriverInv, BusOffAlert \/ RecoveredAlert
  PROVE  DriverInv'
<1>0. drv \in Drivers /\ task = "top" /\ drv.running /\ alerts # {} /\ enabled \in BOOLEAN
      /\ Streak \in Nat
  BY DEF DriverInv, DriverTypes, BusOffAlert, RecoveredAlert, Drivers, Streak
<1>1. UNCHANGED <<rec, enabled>>
  BY DEF BusOffAlert, RecoveredAlert, Elsewhere
<1>2. ctl \in {"busoff", "stopped"} /\ ("off" \in alerts => ctl = "busoff")
      /\ ("recovered" \in alerts => ctl = "stopped")
  BY <1>0 DEF DriverInv, DriverTypes, AlertsFit, Ctls
<1>a. CASE RecoveredAlert /\ UNCHANGED <<ctl, drv, tp>>
  <2>1. alerts' = {} /\ UNCHANGED <<ctl, drv, clash, task>> /\ ctl = "stopped"
    BY <1>2, <1>a DEF RecoveredAlert
  <2>2. DriverTypes'
    BY <1>1, <2>1 DEF DriverInv, DriverTypes
  <2>3. AlertsFit'
    BY <2>1 DEF AlertsFit
  <2>4. PlaceInv => PlaceInv'
    BY <1>1, <2>1 DEF PlaceInv
  <2> QED
    BY <2>1, <2>2, <2>3, <2>4 DEF DriverInv
<1>3. CASE RecoveredAlert /\ ~ UNCHANGED <<ctl, drv, tp>>
  <2>1. /\ ctl' = "running" /\ alerts' = {} /\ UNCHANGED <<clash, task>>
        /\ drv' = [drv EXCEPT !.busOff = FALSE, !.stalled = FALSE]
    BY <1>3 DEF RecoveredAlert
  <2>2. drv' \in Drivers /\ drv'.running = drv.running /\ drv'.busOff = FALSE
    BY <1>0, <2>1 DEF Drivers
  <2>3. DriverTypes'
    BY <1>1, <2>1, <2>2 DEF DriverInv, DriverTypes, Ctls
  <2>4. AlertsFit'
    BY <2>1 DEF AlertsFit
  <2>5. PlaceInv => PlaceInv'
    BY <1>0, <1>1, <1>2, <2>1, <2>2 DEF PlaceInv
  <2> QED
    BY <2>1, <2>3, <2>4, <2>5 DEF DriverInv
<1>4. CASE BusOffAlert
  <2> DEFINE d == [drv EXCEPT !.busOff = TRUE, !.stalled = FALSE, !.streak = Streak,
                              !.rxSeen = drv.rx]
  <2>1. d \in Drivers /\ d.running = drv.running /\ d.busOff = TRUE
    BY <1>0 DEF Drivers
  <2>2. alerts' = {}
    BY <1>4 DEF BusOffAlert, Uninstall
  <2>3. \/ Uninstall(d) /\ task' = "absent" /\ ByTask
        \/ ctl' = "recovering" /\ drv' = d /\ UNCHANGED <<task, clash>>
    BY <1>4, Zenon DEF BusOffAlert
  <2> HIDE DEF d
  <2>4. CASE Uninstall(d) /\ task' = "absent" /\ ByTask
    <3>1. ctl' = "none" /\ drv' = [d EXCEPT !.rx = 0] /\ clash' = (clash \/ rec # "none")
      BY <2>4 DEF Uninstall, ByTask
    <3>2. drv' \in Drivers /\ drv'.running = d.running /\ drv'.busOff = d.busOff
      BY <2>1, <3>1 DEF Drivers
    <3>3. DriverTypes'
      BY <1>1, <2>4, <3>1, <3>2 DEF DriverInv, DriverTypes, Ctls, Places
    <3>4. AlertsFit'
      BY <2>2, <3>1 DEF AlertsFit
    <3>5. ~ clash' => PlaceInv'
      BY <1>0, <1>1, <2>1, <2>4, <3>1, <3>2 DEF PlaceInv
    <3> QED
      BY <3>3, <3>4, <3>5 DEF DriverInv
  <2>5. CASE ctl' = "recovering" /\ drv' = d /\ UNCHANGED <<task, clash>>
    <3>1. DriverTypes'
      BY <1>1, <2>1, <2>5 DEF DriverInv, DriverTypes, Ctls
    <3>2. AlertsFit'
      BY <2>2, <2>5 DEF AlertsFit
    <3>3. PlaceInv => PlaceInv'
      BY <1>0, <1>1, <1>2, <2>1, <2>5 DEF PlaceInv
    <3> QED
      BY <2>5, <3>1, <3>2, <3>3 DEF DriverInv
  <2> QED
    BY <2>3, <2>4, <2>5
<1> QED
  BY <1>a, <1>3, <1>4

(***************************************************************************)
(* The halves of driver_stop and driver_start.  clash' is FALSE only when  *)
(* the other task is out of the driver, and then the place of the task     *)
(* that takes the step says in which state the driver is.                  *)
(***************************************************************************)
LEMMA DriverHousekeeping ==
  ASSUME DriverInv, HkStart \/ HkStop \/ StopDone
  PROVE  DriverInv'
<1>0. /\ drv \in Drivers /\ task \in Places /\ rec \in {"none", "stopping", "start", "core"}
      /\ clash \in BOOLEAN /\ enabled \in BOOLEAN /\ ctl \in Ctls
  BY DEF DriverInv, DriverTypes
<1>1. UNCHANGED <<rec, enabled>> /\ clash' = (clash \/ rec # "none")
  BY DEF HkStart, HkStop, StopDone, Elsewhere, ByTask
<1>2. CASE HkStart
  <2>1. /\ task = "top" /\ task' = "core" /\ ctl' = "running" /\ alerts' = {}
        /\ drv' = [[drv EXCEPT !.changed = FALSE] EXCEPT
                     !.running = TRUE, !.busOff = FALSE, !.stalled = FALSE]
    BY <1>2 DEF HkStart, Install
  <2>2. drv' \in Drivers /\ drv'.running = TRUE /\ drv'.busOff = FALSE
    BY <1>0, <2>1 DEF Drivers
  <2>3. DriverTypes'
    BY <1>0, <1>1, <2>1, <2>2 DEF DriverTypes, Ctls, Places
  <2>4. AlertsFit'
    BY <2>1 DEF AlertsFit
  <2>5. ~ clash' => PlaceInv'
    BY <1>0, <1>1, <2>1, <2>2 DEF PlaceInv
  <2> QED
    BY <2>3, <2>4, <2>5 DEF DriverInv
<1>3. CASE HkStop
  <2>1. /\ task = "top" /\ task' \in {"restart", "off"} /\ ctl' = "none" /\ alerts' = {}
        /\ drv.running /\ drv' = [drv EXCEPT !.rx = 0]
    BY <1>3 DEF HkStop, Uninstall
  <2>2. drv' \in Drivers /\ drv'.running = drv.running /\ drv'.busOff = drv.busOff
    BY <1>0, <2>1 DEF Drivers
  <2>3. DriverTypes'
    BY <1>0, <1>1, <2>1, <2>2 DEF DriverTypes, Ctls, Places
  <2>4. AlertsFit'
    BY <2>1 DEF AlertsFit
  <2>5. ~ clash' => PlaceInv'
    BY <1>0, <1>1, <2>1, <2>2 DEF PlaceInv
  <2> QED
    BY <2>3, <2>4, <2>5 DEF DriverInv
<1>4. CASE StopDone
  <2>1. /\ task \in {"off", "restart", "absent"}
        /\ task' = IF task = "restart" THEN "start" ELSE "top"
        /\ UNCHANGED <<ctl, alerts>>
    BY <1>4 DEF StopDone
  <2>2. drv' \in Drivers /\ drv'.running = FALSE /\ drv'.busOff = FALSE
    <3>1. Down(drv) \in Drivers /\ Down(drv).running = FALSE /\ Down(drv).busOff = FALSE
      BY <1>0 DEF Down, Drivers
    <3>2. \/ drv' = [Down(drv) EXCEPT !.absent = TRUE, !.waited = FALSE, !.streak = 0]
          \/ drv' = [Down(drv) EXCEPT !.changed = FALSE]
          \/ drv' = [Down(drv) EXCEPT !.changed = Down(drv).changed]
      BY <1>4 DEF StopDone
    <3>3. PICK d \in Drivers : d = Down(drv)
      BY <3>1
    <3>4. \/ drv' = [d EXCEPT !.absent = TRUE, !.waited = FALSE, !.streak = 0]
          \/ drv' = [d EXCEPT !.changed = FALSE]
          \/ drv' = [d EXCEPT !.changed = d.changed]
      BY <3>2, <3>3, Zenon
    <3>5. d.running = FALSE /\ d.busOff = FALSE
      BY <3>1, <3>3
    <3>6. CASE drv' = [d EXCEPT !.absent = TRUE, !.waited = FALSE, !.streak = 0]
      BY <3>5, <3>6 DEF Drivers
    <3>7. CASE drv' = [d EXCEPT !.changed = FALSE]
      BY <3>5, <3>7 DEF Drivers
    <3>8. CASE drv' = [d EXCEPT !.changed = d.changed]
      BY <3>5, <3>8 DEF Drivers
    <3> QED
      BY <3>4, <3>6, <3>7, <3>8
  <2>3. DriverTypes'
    BY <1>0, <1>1, <2>1, <2>2 DEF DriverTypes, Ctls, Places
  <2>4. AlertsFit'
    BY <2>1 DEF DriverInv, AlertsFit
  <2>5. ~ clash' => PlaceInv'
    <3> SUFFICES ASSUME ~ clash' PROVE PlaceInv'
      OBVIOUS
    <3>1. PlaceInv /\ rec = "none"
      BY <1>1 DEF DriverInv
    <3>2. ctl' = "none" /\ rec' = "none" /\ ~ drv'.running /\ ~ drv'.busOff
      BY <1>1, <2>1, <2>2, <3>1 DEF PlaceInv
    <3> QED
      BY <2>1, <3>2 DEF PlaceInv
  <2> QED
    BY <2>3, <2>4, <2>5 DEF DriverInv
<1> QED
  BY <1>2, <1>3, <1>4

\* The same for the restart and the start of the core.
LEMMA DriverRestart ==
  ASSUME DriverInv, Restart \/ CoreStart
  PROVE  DriverInv'
<1>0. /\ drv \in Drivers /\ task \in Places /\ rec \in {"none", "stopping", "start", "core"}
      /\ clash \in BOOLEAN /\ enabled \in BOOLEAN /\ ctl \in Ctls
  BY DEF DriverInv, DriverTypes
<1>1. UNCHANGED <<rec, enabled>> /\ clash' = (clash \/ rec # "none")
  BY DEF Restart, CoreStart, Elsewhere, ByTask
<1>2. CASE Restart /\ ctl = "none"
  <2>1. /\ task = "start" /\ task' = "core" /\ ctl' = "running" /\ alerts' = {}
        /\ drv' = [drv EXCEPT !.running = TRUE, !.busOff = FALSE, !.stalled = FALSE]
    BY <1>2 DEF Restart, Install
  <2>2. drv' \in Drivers /\ drv'.running = TRUE /\ drv'.busOff = FALSE
    BY <1>0, <2>1 DEF Drivers
  <2>3. DriverTypes'
    BY <1>0, <1>1, <2>1, <2>2 DEF DriverTypes, Ctls, Places
  <2>4. AlertsFit'
    BY <2>1 DEF AlertsFit
  <2>5. ~ clash' => PlaceInv'
    BY <1>0, <1>1, <2>1, <2>2 DEF PlaceInv
  <2> QED
    BY <2>3, <2>4, <2>5 DEF DriverInv
<1>3. CASE Restart /\ ctl # "none"
  <2>1. task = "start" /\ task' = "top" /\ UNCHANGED <<ctl, alerts, drv>>
    BY <1>3 DEF Restart
  <2>2. DriverTypes'
    BY <1>0, <1>1, <2>1 DEF DriverTypes, Places
  <2>3. AlertsFit'
    BY <2>1 DEF DriverInv, AlertsFit
  <2>4. clash'
    BY <1>0, <1>1, <1>3, <2>1 DEF DriverInv, PlaceInv
  <2> QED
    BY <2>2, <2>3, <2>4 DEF DriverInv
<1>4. CASE CoreStart
  <2>1. /\ task = "core" /\ task' = "top" /\ UNCHANGED <<ctl, alerts>>
        /\ drv' = [[drv EXCEPT !.absent = FALSE] EXCEPT !.rx = 0]
    BY <1>4 DEF CoreStart, core_start
  <2>2. drv' \in Drivers /\ drv'.running = drv.running /\ drv'.busOff = drv.busOff
    BY <1>0, <2>1 DEF Drivers
  <2>3. DriverTypes'
    BY <1>0, <1>1, <2>1, <2>2 DEF DriverTypes, Places
  <2>4. AlertsFit'
    BY <2>1 DEF DriverInv, AlertsFit
  <2>5. ~ clash' => PlaceInv'
    <3> SUFFICES ASSUME ~ clash' PROVE PlaceInv'
      OBVIOUS
    <3>1. PlaceInv /\ rec = "none" /\ rec' = "none"
      BY <1>1 DEF DriverInv
    <3> QED
      BY <2>1, <2>2, <3>1 DEF PlaceInv
  <2> QED
    BY <2>3, <2>4, <2>5 DEF DriverInv
<1> QED
  BY <1>2, <1>3, <1>4

\* The same for canopen_recover in the watchdog task.
LEMMA DriverRecovery ==
  ASSUME DriverInv, Recover
  PROVE  DriverInv'
<1>0. /\ drv \in Drivers /\ task \in Places /\ rec \in {"none", "stopping", "start", "core"}
      /\ clash \in BOOLEAN /\ enabled \in BOOLEAN /\ ctl \in Ctls
  BY DEF DriverInv, DriverTypes
<1>1. /\ UNCHANGED <<task, enabled>>
      /\ clash' = (clash \/ task \in {"off", "restart", "absent", "start", "core"})
  BY DEF Recover, RecoverStop, RecoverDown, RecoverStart, RecoverCore, Elsewhere, ByWatchdog
<1>2. ~ clash' => PlaceInv /\ task \in {"top", "emcy"} /\ task' \in {"top", "emcy"}
  BY <1>0, <1>1 DEF DriverInv, Places
<1>3. CASE RecoverStop
  <2>1. /\ rec' = "stopping" /\ ctl' = "none" /\ alerts' = {}
        /\ drv.running /\ drv' = [drv EXCEPT !.rx = 0]
    BY <1>3 DEF RecoverStop, Uninstall
  <2>2. drv' \in Drivers /\ drv'.running = drv.running /\ drv'.busOff = drv.busOff
    BY <1>0, <2>1 DEF Drivers
  <2>3. DriverTypes'
    BY <1>0, <1>1, <2>1, <2>2 DEF DriverTypes, Ctls
  <2>4. AlertsFit'
    BY <2>1 DEF AlertsFit
  <2>5. ~ clash' => PlaceInv'
    BY <1>2, <2>1, <2>2 DEF PlaceInv
  <2> QED
    BY <2>3, <2>4, <2>5 DEF DriverInv
<1>4. CASE RecoverDown
  <2>1. rec = "stopping" /\ rec' \in {"start", "none"} /\ UNCHANGED <<ctl, alerts>>
    BY <1>4 DEF RecoverDown
  <2>2. drv' \in Drivers /\ drv'.running = FALSE /\ drv'.busOff = FALSE
    <3>1. Down(drv) \in Drivers /\ Down(drv).running = FALSE /\ Down(drv).busOff = FALSE
      BY <1>0 DEF Down, Drivers
    <3>2. \/ drv' = [Down(drv) EXCEPT !.absent = FALSE, !.changed = FALSE]
          \/ drv' = [Down(drv) EXCEPT !.absent = FALSE, !.changed = @]
      BY <1>4 DEF RecoverDown
    <3> QED
      BY <3>1, <3>2 DEF Drivers
  <2>3. DriverTypes'
    BY <1>0, <1>1, <2>1, <2>2 DEF DriverTypes
  <2>4. AlertsFit'
    BY <2>1 DEF DriverInv, AlertsFit
  <2>5. ~ clash' => PlaceInv'
    BY <1>2, <2>1, <2>2 DEF PlaceInv
  <2> QED
    BY <2>3, <2>4, <2>5 DEF DriverInv
<1>5. CASE RecoverStart /\ ctl = "none"
  <2>1. /\ rec = "start" /\ rec' = "core" /\ ctl' = "running" /\ alerts' = {}
        /\ drv' = [drv EXCEPT !.running = TRUE, !.busOff = FALSE, !.stalled = FALSE]
    BY <1>5 DEF RecoverStart, Install
  <2>2. drv' \in Drivers /\ drv'.running = TRUE /\ drv'.busOff = FALSE
    BY <1>0, <2>1 DEF Drivers
  <2>3. DriverTypes'
    BY <1>0, <1>1, <2>1, <2>2 DEF DriverTypes, Ctls
  <2>4. AlertsFit'
    BY <2>1 DEF AlertsFit
  <2>5. ~ clash' => PlaceInv'
    BY <1>2, <2>1, <2>2 DEF PlaceInv
  <2> QED
    BY <2>3, <2>4, <2>5 DEF DriverInv
<1>6. CASE RecoverStart /\ ctl # "none"
  <2>1. rec = "start" /\ rec' = "none" /\ UNCHANGED <<ctl, alerts, drv>>
    BY <1>6 DEF RecoverStart
  <2>2. DriverTypes'
    BY <1>0, <1>1, <2>1 DEF DriverTypes
  <2>3. AlertsFit'
    BY <2>1 DEF DriverInv, AlertsFit
  <2>4. ~ clash' => FALSE
    BY <1>2, <1>6, <2>1 DEF PlaceInv
  <2> QED
    BY <2>2, <2>3, <2>4 DEF DriverInv
<1>7. CASE RecoverCore
  <2>1. /\ rec = "core" /\ rec' = "none" /\ UNCHANGED <<ctl, alerts>>
        /\ drv' = [drv EXCEPT !.rx = 0]
    BY <1>7 DEF RecoverCore, core_start
  <2>2. drv' \in Drivers /\ drv'.running = drv.running /\ drv'.busOff = drv.busOff
    BY <1>0, <2>1 DEF Drivers
  <2>3. DriverTypes'
    BY <1>0, <1>1, <2>1, <2>2 DEF DriverTypes
  <2>4. AlertsFit'
    BY <2>1 DEF DriverInv, AlertsFit
  <2>5. ~ clash' => PlaceInv'
    BY <1>2, <2>1, <2>2 DEF PlaceInv
  <2> QED
    BY <2>3, <2>4, <2>5 DEF DriverInv
<1> QED
  BY <1>3, <1>4, <1>5, <1>6, <1>7 DEF Recover

\* The node starts with a running driver.
LEMMA DriverInit ==
  ASSUME Init PROVE DriverInv
<1>1. drv \in Drivers /\ drv.running = TRUE /\ drv.busOff = FALSE
  BY DEF Init, Drivers
<1>2. DriverTypes
  BY <1>1 DEF Init, DriverTypes, Ctls, Places
<1>3. AlertsFit
  BY DEF Init, AlertsFit
<1>4. PlaceInv
  BY <1>1 DEF Init, PlaceInv
<1> QED
  BY <1>2, <1>3, <1>4 DEF DriverInv

LEMMA DriverStep == DriverInv /\ [Next]_vars => DriverInv'
BY DriverFrames, DriverOthers, DriverTime, DriverBus, DriverAlerts,
   DriverHousekeeping, DriverRestart, DriverRecovery DEF Next, CanTask

(***************************************************************************)
(* The driver and its flags stay in step as long as no two tasks are in    *)
(* the driver at once (driver_stop, driver_start, canopen_recover).        *)
(***************************************************************************)
THEOREM DriverStaysInStep == Spec => []DriverInStep
<1>1. Init => DriverInv
  BY DriverInit
<1>2. DriverInv /\ [Next]_vars => DriverInv'
  BY DriverStep
<1>3. DriverInv => DriverInStep
  <2> SUFFICES ASSUME DriverInv, ~ clash, rec = "none", task \in {"top", "emcy"}
               PROVE  DriverInStep
    BY DEF DriverInStep
  <2>1. PlaceInv /\ AlertsFit
    BY DEF DriverInv
  <2> QED
    BY <2>1 DEF PlaceInv, AlertsFit, DriverInStep
<1> QED
  BY <1>1, <1>2, <1>3, PTL DEF Spec

-----------------------------------------------------------------------------
\* The types of the rest: the node and its TPDO.

NodeTypes ==
  /\ nmt \in {"preop", "op", "stopped"} /\ boot \in BOOLEAN
  /\ er \subseteq FaultBits /\ focus \in Focuses

TpdoTypes ==
  /\ tp \in Tpdos
  /\ value \in {0, 1} /\ seen \in {0, 1} /\ txq \in Seq({0, 1})

\* Of the fields of the TPDO only the count is computed: it wraps as the
\* uint8_t does.
LEMMA TpdoFields ==
  ASSUME NEW t \in Tpdos
  PROVE  /\ \A b \in BOOLEAN :
              /\ [t EXCEPT !.have = b] \in Tpdos /\ [t EXCEPT !.hold = b] \in Tpdos
              /\ [t EXCEPT !.timer = b] \in Tpdos
              /\ [t EXCEPT !.valid = b, !.have = FALSE] \in Tpdos
              /\ [t EXCEPT !.mapped = b, !.have = FALSE] \in Tpdos
         /\ \A n \in Types : [t EXCEPT !.type = n, !.count = 0] \in Tpdos
         /\ \A v \in {0, 1} :
              [t EXCEPT !.have = TRUE, !.last = v, !.hold = TRUE, !.count = 0] \in Tpdos
         /\ [t EXCEPT !.count = (@ + 1) % CountMod] \in Tpdos
<1>1. CountMod \in Nat \ {0} /\ 0 \in 0 .. CountMod - 1
  BY NodeAssumption
<1>2. \A b \in BOOLEAN :
        /\ [t EXCEPT !.have = b] \in Tpdos /\ [t EXCEPT !.hold = b] \in Tpdos
        /\ [t EXCEPT !.timer = b] \in Tpdos
  BY DEF Tpdos
<1>3. \A b \in BOOLEAN :
        /\ [t EXCEPT !.valid = b, !.have = FALSE] \in Tpdos
        /\ [t EXCEPT !.mapped = b, !.have = FALSE] \in Tpdos
  <2> TAKE b \in BOOLEAN
  <2>1. [t EXCEPT !.valid = b, !.have = FALSE] \in Tpdos
    BY DEF Tpdos
  <2>2. [t EXCEPT !.mapped = b, !.have = FALSE] \in Tpdos
    BY DEF Tpdos
  <2> QED
    BY <2>1, <2>2
<1>4. \A n \in Types : [t EXCEPT !.type = n, !.count = 0] \in Tpdos
  BY <1>1 DEF Tpdos
<1>5. \A v \in {0, 1} :
        [t EXCEPT !.have = TRUE, !.last = v, !.hold = TRUE, !.count = 0] \in Tpdos
  BY <1>1 DEF Tpdos
<1>6. [t EXCEPT !.count = (@ + 1) % CountMod] \in Tpdos
  <2>1. t.count \in Nat
    BY <1>1 DEF Tpdos
  <2>2. (t.count + 1) % CountMod \in 0 .. CountMod - 1
    BY <1>1, <2>1
  <2> QED
    BY <2>2 DEF Tpdos
<1> QED
  BY <1>2, <1>3, <1>4, <1>5, <1>6

\* The defaults are such a TPDO.
LEMMA TpdoDefaultType ==
  TpdoDefault \in Tpdos
<1>1. 0 \in 0 .. CountMod - 1
  BY NodeAssumption
<1> QED
  BY <1>1 DEF TpdoDefault, Tpdos

\* tpdo_send leaves a TPDO and a queue of its values.
LEMMA SendTypes ==
  ASSUME TpdoTypes, NEW t \in Tpdos, tpdo_send(t)
  PROVE  tp' \in Tpdos /\ txq' \in Seq({0, 1})
<1>1. value \in {0, 1} /\ txq \in Seq({0, 1})
  BY DEF TpdoTypes
<1>2. CASE tp' = t /\ UNCHANGED txq
  BY <1>1, <1>2
<1>3. CASE /\ tx(tpdo_build)
           /\ tp' = [t EXCEPT !.have = TRUE, !.last = tpdo_build, !.hold = TRUE,
                              !.count = 0]
  <2>1. tp' \in Tpdos
    BY <1>1, <1>3, TpdoFields DEF tpdo_build
  <2>2. txq' = Append(txq, value)
    BY <1>3 DEF tx, tpdo_build
  <2>3. Append(txq, value) \in Seq({0, 1})
    BY <1>1, AppendProperties
  <2> QED
    BY <2>1, <2>2, <2>3
<1> QED
  BY <1>2, <1>3 DEF tpdo_send

\* Frames of the master: NMT, SYNC, remote requests, new parameters.
LEMMA TpdoFrames ==
  ASSUME TpdoTypes,
         nmt_rx \/ sync_rx \/ rtr_rx \/ rpdo_rx \/ TpdoWrite \/ RpdoWrite
  PROVE  TpdoTypes'
<1>0. tp \in Tpdos /\ txq \in Seq({0, 1})
  BY DEF TpdoTypes
<1>1. UNCHANGED <<value, seen>>
  BY DEF nmt_rx, sync_rx, rtr_rx, rpdo_rx, TpdoWrite, RpdoWrite
<1>2. tp' \in Tpdos /\ txq' \in Seq({0, 1})
  <2>1. CASE nmt_rx
    <3>1. UNCHANGED txq /\ (tp' = [tp EXCEPT !.have = FALSE] \/ tp' = tp \/ tp' = TpdoDefault)
      BY <2>1 DEF nmt_rx, node_reset, pdo_defaults
    <3> QED
      BY <1>0, <3>1, TpdoFields, TpdoDefaultType
  <2>2. CASE sync_rx
    <3> DEFINE counted == [tp EXCEPT !.count = (@ + 1) % CountMod]
    <3>1. counted \in Tpdos
      BY <1>0, TpdoFields
    <3>2. \/ UNCHANGED <<tp, txq>> \/ tpdo_send(tp) \/ tpdo_send(counted)
          \/ tp' = counted /\ UNCHANGED txq
      BY <2>2, Zenon DEF sync_rx
    <3> HIDE DEF counted
    <3> QED
      BY <1>0, <3>1, <3>2, SendTypes
  <2>3. CASE rtr_rx
    BY <1>0, <2>3, SendTypes DEF rtr_rx
  <2>4. CASE rpdo_rx \/ RpdoWrite
    BY <1>0, <2>4 DEF rpdo_rx, RpdoWrite
  <2>5. CASE TpdoWrite
    <3>1. UNCHANGED txq
      BY <2>5 DEF TpdoWrite
    <3>2. \/ \E v \in BOOLEAN : tp' = [tp EXCEPT !.valid = v, !.have = FALSE]
          \/ \E n \in Types : tp' = [tp EXCEPT !.type = n, !.count = 0]
          \/ \E on \in BOOLEAN : tp' = [tp EXCEPT !.timer = on]
          \/ \E n \in BOOLEAN : tp' = [tp EXCEPT !.mapped = n, !.have = FALSE]
      BY <2>5, Zenon DEF TpdoWrite
    <3> QED
      BY <1>0, <3>1, <3>2, TpdoFields
  <2> QED
    BY <2>1, <2>2, <2>3, <2>4, <2>5
<1> QED
  BY <1>1, <1>2 DEF TpdoTypes

\* The other steps of the TPDO, of the driver and of the queue.
LEMMA TpdoOthers ==
  ASSUME TpdoTypes,
         \/ BootUp \/ tpdo_tick \/ EmcyTake \/ EmcySend \/ PumpFault
         \/ evt_pump_fault \/ ValueChanges \/ Deliver \/ InhibitEnds
         \/ UNCHANGED vars
  PROVE  TpdoTypes'
<1>0. tp \in Tpdos /\ txq \in Seq({0, 1}) /\ value \in {0, 1} /\ seen \in {0, 1}
  BY DEF TpdoTypes
<1>1. CASE BootUp \/ EmcyTake \/ PumpFault \/ evt_pump_fault \/ UNCHANGED vars
  BY <1>0, <1>1 DEF BootUp, EmcyTake, PumpFault, evt_pump_fault, vars, pdoVars, busVars,
                    TpdoTypes
<1>2. CASE tpdo_tick
  BY <1>0, <1>2, SendTypes DEF tpdo_tick, TpdoTypes
<1>3. CASE EmcySend
  BY <1>0, <1>3, TpdoFields DEF EmcySend, busVars, TpdoTypes
<1>4. CASE ValueChanges
  BY <1>0, <1>4 DEF ValueChanges, busVars, TpdoTypes
<1>5. CASE InhibitEnds
  BY <1>0, <1>5, TpdoFields DEF InhibitEnds, busVars, TpdoTypes
<1>6. CASE Deliver
  <2>1. txq # <<>> /\ seen' = Head(txq) /\ txq' = Tail(txq) /\ UNCHANGED <<tp, value>>
    BY <1>6 DEF Deliver
  <2>2. Head(txq) \in {0, 1} /\ Tail(txq) \in Seq({0, 1})
    BY <1>0, <2>1, HeadTailProperties
  <2> QED
    BY <1>0, <2>1, <2>2 DEF TpdoTypes
<1> QED
  BY <1>1, <1>2, <1>3, <1>4, <1>5, <1>6

\* Stopping the driver empties the queue; starting the core sets the defaults.
LEMMA TpdoDriver ==
  ASSUME TpdoTypes,
         \/ HkStart \/ HkStop \/ StopDone \/ Restart \/ CoreStart \/ Recover
         \/ BusOffAlert \/ RecoveredAlert \/ BusOff \/ BusRecovers
         \/ Reconfigure \/ Elapse
  PROVE  TpdoTypes'
<1>0. tp \in Tpdos /\ txq \in Seq({0, 1}) /\ value \in {0, 1} /\ seen \in {0, 1}
      /\ <<>> \in Seq({0, 1})
  BY DEF TpdoTypes
<1>1. CASE HkStart \/ HkStop \/ StopDone \/ Restart \/ CoreStart
  <2>1. /\ UNCHANGED <<value, seen>> /\ (txq' = txq \/ txq' = <<>>)
        /\ (tp' = tp \/ tp' = TpdoDefault)
    BY <1>1 DEF HkStart, HkStop, StopDone, Restart, CoreStart, Elsewhere, pdoVars,
                Install, Uninstall, core_start, node_reset, pdo_defaults
  <2> QED
    BY <1>0, <2>1, TpdoDefaultType DEF TpdoTypes
<1>2. CASE Recover
  <2>1. /\ UNCHANGED <<value, seen>> /\ (txq' = txq \/ txq' = <<>>)
        /\ (tp' = tp \/ tp' = TpdoDefault)
    BY <1>2 DEF Recover, RecoverStop, RecoverDown, RecoverStart, RecoverCore, Elsewhere,
                pdoVars, Install, Uninstall, core_start, node_reset, pdo_defaults
  <2> QED
    BY <1>0, <2>1, TpdoDefaultType DEF TpdoTypes
<1>3. CASE BusOffAlert \/ RecoveredAlert \/ BusOff \/ BusRecovers \/ Reconfigure \/ Elapse
  <2>1. /\ UNCHANGED <<value, seen>> /\ (txq' = txq \/ txq' = <<>>)
        /\ (tp' = tp \/ tp' = [tp EXCEPT !.have = FALSE])
    BY <1>3 DEF BusOffAlert, RecoveredAlert, BusOff, BusRecovers, Reconfigure, Elapse,
                Elsewhere, pdoVars, Uninstall
  <2> QED
    BY <1>0, <2>1, TpdoFields DEF TpdoTypes
<1> QED
  BY <1>1, <1>2, <1>3

\* The error register only holds the bits of faults.
LEMMA NodeStep ==
  ASSUME NodeTypes, [Next]_vars
  PROVE  NodeTypes'
<1>0. nmt \in {"preop", "op", "stopped"} /\ boot \in BOOLEAN /\ er \subseteq FaultBits
      /\ focus \in Focuses
  BY DEF NodeTypes
<1>1. CASE CanTask
  <2>1. CASE nmt_rx
    BY <1>0, <2>1 DEF nmt_rx, NodeTypes, Received, node_reset, LiveBits
  <2>2. CASE sync_rx
    BY <1>0, <2>2 DEF sync_rx, NodeTypes, Received, nodeVars, rpdo_apply, co_emcy, FaultBits
  <2>3. CASE rpdo_rx
    BY <1>0, <2>3 DEF rpdo_rx, NodeTypes, Received, nodeVars, rpdo_apply, co_emcy, FaultBits
  <2>4. CASE rtr_rx \/ TpdoWrite \/ RpdoWrite
    BY <1>0, <2>4 DEF rtr_rx, TpdoWrite, RpdoWrite, NodeTypes, Received, nodeVars, faultVars
  <2>5. CASE BootUp \/ tpdo_tick \/ EmcyTake \/ EmcySend
    BY <1>0, <2>5 DEF BootUp, tpdo_tick, EmcyTake, EmcySend, NodeTypes, nodeVars, faultVars,
                      co_emcy, FaultBits
  <2>6. CASE HkStart \/ HkStop \/ StopDone \/ Restart \/ BusOffAlert
    BY <1>0, <2>6 DEF HkStart, HkStop, StopDone, Restart, BusOffAlert, Elsewhere, NodeTypes,
                      nodeVars, faultVars
  <2>7. CASE CoreStart
    BY <1>0, <2>7 DEF CoreStart, core_start, node_reset, LiveBits, NodeTypes
  <2>8. CASE RecoveredAlert
    BY <1>0, <2>8 DEF RecoveredAlert, NodeTypes, nodeVars, faultVars
  <2> QED
    BY <1>1, <2>1, <2>2, <2>3, <2>4, <2>5, <2>6, <2>7, <2>8 DEF CanTask
<1>2. CASE RecoverStop \/ RecoverDown \/ RecoverStart
  BY <1>0, <1>2 DEF RecoverStop, RecoverDown, RecoverStart, Elsewhere, NodeTypes,
                    nodeVars, faultVars
<1>3. CASE RecoverCore
  BY <1>0, <1>3 DEF RecoverCore, core_start, node_reset, LiveBits, NodeTypes
<1>4. CASE \/ PumpFault \/ evt_pump_fault \/ ValueChanges \/ Deliver \/ InhibitEnds
           \/ BusOff \/ BusRecovers \/ Reconfigure \/ Elapse
  BY <1>0, <1>4 DEF PumpFault, evt_pump_fault, ValueChanges, Deliver, InhibitEnds, BusOff,
                    BusRecovers, Reconfigure, Elapse, Elsewhere, NodeTypes, nodeVars, faultVars
<1>5. CASE UNCHANGED vars
  BY <1>0, <1>5 DEF vars, nodeVars, faultVars, NodeTypes
<1> QED
  BY <1>1, <1>2, <1>3, <1>4, <1>5 DEF Next, Recover

LEMMA TypesInit == Init => NodeTypes /\ TpdoTypes
<1> SUFFICES ASSUME Init PROVE NodeTypes /\ TpdoTypes
  OBVIOUS
<1>1. NodeTypes
  BY DEF Init, NodeTypes
<1>2. txq = <<>> /\ <<>> \in Seq({0, 1})
  BY DEF Init
<1>3. TpdoTypes
  BY <1>2, TpdoDefaultType DEF Init, TpdoTypes
<1> QED
  BY <1>1, <1>3

LEMMA TpdoStep == TpdoTypes /\ [Next]_vars => TpdoTypes'
BY TpdoFrames, TpdoOthers, TpdoDriver DEF Next, CanTask

(***************************************************************************)
(* The node keeps its types: sync_count wraps within its byte, the         *)
(* transmission type stays one of those a master may set, and the three    *)
(* tasks are where the code has a place for them (co_core.c,               *)
(* canopen_task.c).                                                        *)
(***************************************************************************)
THEOREM NodeKeepsTypes == Spec => []TypeOK
<1> DEFINE Inv == FaultInv /\ HeldFull /\ DriverInv /\ NodeTypes /\ TpdoTypes
<1>1. Init => Inv
  BY FaultInit, HeldInit, DriverInit, TypesInit
<1>2. Inv /\ [Next]_vars => Inv'
  BY FaultStep, HeldStep, DriverStep, NodeStep, TpdoStep
<1>3. Inv => TypeOK
  <2> SUFFICES ASSUME Inv PROVE TypeOK
    OBVIOUS
  <2>1. /\ FaultTypes /\ RpdoTypes /\ DriverTypes /\ AlertsFit
        /\ NodeTypes /\ TpdoTypes
    BY DEF FaultInv, HeldFull, DriverInv
  <2>2. alerts \subseteq {"off", "recovered"}
    BY <2>1 DEF AlertsFit, DriverTypes, Ctls
  <2>3. {missed, rude, clash} \subseteq BOOLEAN
    BY <2>1, Zenon DEF FaultTypes, RpdoTypes, DriverTypes
  <2>4. {event, pending, taken} \subseteq {0, 1, 2}
    BY <2>1 DEF FaultTypes
  <2> QED
    BY <2>1, <2>2, <2>3, <2>4
       DEF FaultTypes, RpdoTypes, DriverTypes, NodeTypes, TpdoTypes, TypeOK, Ctls, Places
<1> QED
  BY <1>1, <1>2, <1>3, PTL DEF Spec

-----------------------------------------------------------------------------
(* The queues: a frame is appended or lost, or the first one is taken.     *)
LEMMA QueuedFrame ==
  ASSUME NEW S, NEW q \in Seq(S), NEW f \in S, NEW r \in Queued(q, f)
  PROVE  /\ r \in Seq(S) /\ Len(q) \in Nat /\ Len(r) \in Nat
         /\ \/ r = q
            \/ /\ Len(r) = Len(q) + 1 /\ r[Len(q) + 1] = f
               /\ \A i \in 1 .. Len(q) : r[i] = q[i]
<1>1. Len(q) \in Nat
  BY LenProperties
<1>2. CASE r = q
  BY <1>1, <1>2
<1>3. CASE r = Append(q, f)
  BY <1>1, <1>3, AppendProperties
<1> QED
  BY <1>2, <1>3 DEF Queued

LEMMA TakenFrame ==
  ASSUME NEW S, NEW q \in Seq(S), q # <<>>
  PROVE  /\ Tail(q) \in Seq(S) /\ Head(q) \in S /\ Head(q) = q[1]
         /\ Len(q) \in Nat \ {0} /\ Len(Tail(q)) = Len(q) - 1
         /\ \A i \in 1 .. Len(q) - 1 : Tail(q)[i] = q[i + 1]
<1>1. Len(q) \in Nat \ {0}
  BY EmptySeq
<1>2. Head(q) = q[1]
  BY <1>1
<1> QED
  BY <1>1, <1>2, HeadTailProperties

(* Bytes. *)
LEMMA PartOf ==
  ASSUME NEW S, NEW s \in Seq(S), NEW m \in Nat, NEW n \in Nat, m + n <= Len(s)
  PROVE  /\ SubSeq(s, m + 1, m + n) \in Seq(S)
         /\ Len(SubSeq(s, m + 1, m + n)) = n
         /\ \A i \in 1 .. n : SubSeq(s, m + 1, m + n)[i] = s[m + i]
<1>1. \A i \in m + 1 .. m + n : s[i] \in S
  BY LenProperties
<1>2. m + 1 \in Int /\ m + n \in Int
  OBVIOUS
<1>3. /\ SubSeq(s, m + 1, m + n) \in Seq(S)
      /\ Len(SubSeq(s, m + 1, m + n)) = IF m + 1 <= m + n THEN m + n - (m + 1) + 1 ELSE 0
      /\ \A i \in 1 .. m + n - (m + 1) + 1 :
           SubSeq(s, m + 1, m + n)[i] = s[m + 1 + i - 1]
  BY <1>1, <1>2, SubSeqProperties
<1>4. m + n - (m + 1) + 1 = n /\ (m + 1 <= m + n <=> n # 0)
  OBVIOUS
<1>5. Len(SubSeq(s, m + 1, m + n)) = n
  BY <1>3, <1>4
<1>6. ASSUME NEW i \in 1 .. n
      PROVE  SubSeq(s, m + 1, m + n)[i] = s[m + i]
  <2>1. m + 1 + i - 1 = m + i
    OBVIOUS
  <2>2. SubSeq(s, m + 1, m + n)[i] = s[m + 1 + i - 1]
    BY <1>3, <1>4
  <2> QED
    BY <2>1, <2>2
<1> QED
  BY <1>3, <1>5, <1>6

LEMMA Copied ==
  ASSUME NEW S, NEW b \in Seq(S), NEW at \in Nat, NEW data \in Seq(S), at <= Len(b)
  PROVE  /\ Overlay(b, at, data) \in Seq(S)
         /\ Len(Overlay(b, at, data)) \in {Len(b), at + Len(data)}
         /\ Len(b) <= Len(Overlay(b, at, data))
         /\ at + Len(data) <= Len(Overlay(b, at, data))
         /\ \A i \in 1 .. at : Overlay(b, at, data)[i] = b[i]
         /\ \A i \in 1 .. Len(data) : Overlay(b, at, data)[at + i] = data[i]
<1> DEFINE h == SubSeq(b, 1, at)
           t == SubSeq(b, at + Len(data) + 1, Len(b))
<1>0. Len(b) \in Nat /\ Len(data) \in Nat
  BY LenProperties
<1>1. h \in Seq(S) /\ Len(h) = at /\ \A i \in 1 .. at : h[i] = b[i]
  <2>1. 0 + at <= Len(b) /\ 0 \in Nat /\ 0 + 1 = 1 /\ 0 + at = at
    BY <1>0
  <2>2. /\ SubSeq(b, 0 + 1, 0 + at) \in Seq(S)
        /\ Len(SubSeq(b, 0 + 1, 0 + at)) = at
        /\ \A i \in 1 .. at : SubSeq(b, 0 + 1, 0 + at)[i] = b[0 + i]
    BY <2>1, PartOf
  <2> QED
    BY <2>1, <2>2
<1>2. t \in Seq(S) /\ Len(t) = IF at + Len(data) < Len(b) THEN Len(b) - at - Len(data) ELSE 0
  <2>1. \A i \in at + Len(data) + 1 .. Len(b) : b[i] \in S
    BY <1>0, LenProperties
  <2>2. at + Len(data) + 1 \in Int /\ Len(b) \in Int
    BY <1>0
  <2>3. t \in Seq(S) /\ Len(t) = IF at + Len(data) + 1 <= Len(b)
                                 THEN Len(b) - (at + Len(data) + 1) + 1 ELSE 0
    BY <2>1, <2>2, SubSeqProperties
  <2> QED
    BY <1>0, <2>3
<1> DEFINE hd == h \o data
<1>3. /\ hd \in Seq(S) /\ Len(hd) = at + Len(data)
      /\ \A i \in 1 .. at + Len(data) : hd[i] = IF i <= at THEN b[i] ELSE data[i - at]
  <2>1. /\ h \o data \in Seq(S) /\ Len(h \o data) = Len(h) + Len(data)
        /\ \A i \in 1 .. Len(h) + Len(data) :
             (h \o data)[i] = IF i <= Len(h) THEN h[i] ELSE data[i - Len(h)]
    <3> HIDE DEF h
    <3> QED
      BY <1>1, ConcatProperties
  <2> QED
    BY <1>0, <1>1, <2>1
<1>4. /\ hd \o t \in Seq(S) /\ Len(hd \o t) = Len(hd) + Len(t)
      /\ \A i \in 1 .. Len(hd) + Len(t) :
           (hd \o t)[i] = IF i <= Len(hd) THEN hd[i] ELSE t[i - Len(hd)]
  <2> HIDE DEF hd, t
  <2> QED
    BY <1>2, <1>3, ConcatProperties
<1>5. Overlay(b, at, data) = hd \o t
  BY DEF Overlay
<1> HIDE DEF hd, t
<1>50. Len(hd) = at + Len(data) /\ Len(hd) \in Nat /\ Len(t) \in Nat
  BY <1>2, <1>3, LenProperties
<1>51. Len(t) = Len(b) - Len(hd) \/ (Len(t) = 0 /\ Len(b) <= Len(hd))
  <2>1. CASE at + Len(data) < Len(b)
    BY <1>0, <1>2, <1>50, <2>1
  <2>2. CASE ~ (at + Len(data) < Len(b))
    BY <1>0, <1>2, <1>50, <2>2
  <2> QED
    BY <2>1, <2>2
<1>52. Len(hd \o t) = Len(hd) + Len(t)
  BY <1>4
<1>6. \A i \in 1 .. at : (hd \o t)[i] = b[i]
  BY <1>0, <1>2, <1>3, <1>4
<1>7. ASSUME NEW i \in 1 .. Len(data) PROVE (hd \o t)[at + i] = data[i]
  <2>1. at + i \in 1 .. at + Len(data) /\ ~ (at + i <= at) /\ at + i - at = i
    BY <1>0
  <2>2. at + i \in 1 .. Len(hd) + Len(t) /\ at + i <= Len(hd)
    BY <1>0, <1>50, <2>1
  <2> QED
    BY <1>3, <1>4, <2>1, <2>2
<1>8. /\ Len(hd) + Len(t) \in {Len(b), Len(hd)}
      /\ Len(b) <= Len(hd) + Len(t) /\ Len(hd) <= Len(hd) + Len(t)
  BY <1>0, <1>50, <1>51
<1> QED
  BY <1>4, <1>5, <1>50, <1>52, <1>6, <1>7, <1>8

-----------------------------------------------------------------------------
(* The inductive invariant.                                                *)

Begins  == {"dexp", "dinit", "uinit"}
Segs    == {"dseg", "useg"}
Downloading == sdo.state = "download"
Uploading == sdo.state = "upload"
\* A request that is answered; the client's aborts are not.
Live(i)    == requests[i].k # "abort"
LastAnswer == answers[Len(answers)]
\* The first n bytes of b and v are there and the same.
Agree(b, v, n) == n <= Len(b) /\ n <= Len(v) /\ \A j \in 1 .. n : b[j] = v[j]

\* What the client is about, and the contents of the frames.
ClientInv ==
  /\ client.op \in {"dexp", "dinit", "dseg"} => client.val \in Written(client.obj)
  /\ client.op \in Begins => client.pos = 0 /\ client.toggle = 0
  /\ client.op = "uinit" => client.val = <<>>
  /\ client.op = "dseg" => client.pos <= Len(client.val)
FrameInv ==
  /\ \A i \in 1 .. Len(requests) :
       /\ requests[i].k \in Begins \cup Segs \cup {"abort"}
       /\ requests[i].k = "dexp" => requests[i].data \in Written(requests[i].obj)
  /\ \A i \in 1 .. Len(answers) :
       /\ \A j \in 1 .. Len(answers[i].data) : answers[i].data[j] # "s"
       /\ answers[i].k = "uexp" =>
            /\ answers[i].last
            /\ answers[i].obj = "text" =>
                 \E w \in held : Len(w) <= ExpBytes /\ answers[i].data = Expedited(w)

\* At rest at most one exchange is under way, left from before.
RestShape ==
  Resting =>
    /\ Len(answers) <= 1
    /\ answers # <<>> => \A i \in 1 .. Len(requests) : ~ Live(i)
    /\ \A i, j \in 1 .. Len(requests) : Live(i) /\ Live(j) => i = j

\* At the begin of a transfer: one from before, and behind it the client's own.
OwnBegin(a) ==
  /\ a.k \in IF client.op = "uinit" THEN {"uinit", "uexp", "abort"}
             ELSE {"dok", "abort"}
  /\ a.k # "abort" => a.obj = client.obj
BeginShape ==
  client.op \in Begins =>
    /\ Len(answers) <= 2
    /\ Len(answers) = 2 =>
         OwnBegin(answers[2]) /\ \A i \in 1 .. Len(requests) : ~ Live(i)
    /\ Len(answers) = 1 =>
         /\ \A i \in 1 .. Len(requests) : Live(i) => requests[i] = Request(client)
         /\ \A i, j \in 1 .. Len(requests) : Live(i) /\ Live(j) => i = j
    /\ \A i, j \in 1 .. Len(requests) :
         i < j /\ Live(i) /\ Live(j) => requests[j] = Request(client)
    /\ \A i, j, m \in 1 .. Len(requests) :
         i < j /\ j < m => ~ (Live(i) /\ Live(j) /\ Live(m))

\* In segments: the client's own, and at the first one its begin, the answer
\* of which would end the transfer.
BeginOf == IF client.op = "dseg" THEN "dinit" ELSE "uinit"
AtFirst == /\ client.pos = 0 /\ client.toggle = 0
           /\ client.op = "useg" => client.val = <<>>
SegShape ==
  client.op \in Segs =>
    /\ \A i \in 1 .. Len(requests) :
         /\ requests[i].k \in {"abort", BeginOf, client.op}
         /\ requests[i].k = client.op =>
              /\ i = Len(requests) /\ requests[i] = Request(client)
              /\ answers # <<>> => AtFirst
         /\ requests[i].k = BeginOf =>
              answers = <<>> /\ requests[i].obj = client.obj /\ AtFirst
    /\ \A i, j \in 1 .. Len(requests) :
         requests[i].k = BeginOf /\ requests[j].k = BeginOf => i = j
    /\ Len(answers) <= 2
    /\ Len(answers) = 2 => requests = <<>> /\ answers[2].k \in {client.op, "abort"}
    /\ answers # <<>> /\ answers[1].k = client.op =>
         Len(answers) = 1 /\ requests = <<>>

\* In a segmented download the buffer holds what the client has sent of its
\* value, up to the current segment or with it.
Done == client.pos + Least(SegBytes, Len(client.val) - client.pos)
LoadInv ==
  client.op = "dseg" =>
    /\ Downloading =>
         /\ sdo.obj = client.obj /\ Agree(sdo.buf, client.val, sdo.pos)
         /\ \/ sdo.pos = client.pos /\ sdo.toggle = client.toggle
            \/ sdo.pos = Done /\ sdo.toggle = 1 - client.toggle
    /\ answers # <<>> /\ answers[1].k = "dseg" =>
         /\ Downloading => sdo.pos = Done /\ sdo.toggle = 1 - client.toggle
         /\ Done = Len(client.val) => stored

\* A segment left over from an abandoned download is the first one of a
\* value; it is refused or begins the value of its own object.
LeftInv ==
  client.op # "dseg" =>
    \A i \in 1 .. Len(requests) : requests[i].k = "dseg" =>
      /\ requests[i].toggle = 0
      /\ \E v \in Written(requests[i].obj) :
           /\ Agree(requests[i].data, v, Len(requests[i].data))
           /\ requests[i].last => Len(requests[i].data) = Len(v)
      /\ Downloading /\ sdo.toggle = 0 => sdo.pos = 0 /\ sdo.obj = requests[i].obj

\* The server is where the last answer says, until segments are exchanged.
Begun == sdo.pos = 0 /\ sdo.toggle = 0
Held  == sdo.obj = "text" => SubSeq(sdo.buf, 1, sdo.len) \in held
BegunInv ==
  client.op \notin Segs /\ answers # <<>> =>
    /\ LastAnswer.k = "dok" /\ Downloading =>
         /\ Begun
         /\ \/ sdo.obj = LastAnswer.obj
            \/ Len(answers) = 1 /\ client.op = "dinit" /\ sdo.obj = client.obj
    /\ LastAnswer.k = "uinit" /\ Uploading =>
         /\ Begun /\ Held
         /\ \/ sdo.obj = LastAnswer.obj
            \/ Len(answers) = 1 /\ client.op = "uinit" /\ sdo.obj = client.obj
    /\ Len(answers) = 2 =>
         /\ Downloading => LastAnswer.k = "dok"
         /\ Uploading => LastAnswer.k = "uinit"

\* What an upload sends is in the buffer, and holds no byte of a password.
BufferInv ==
  /\ Downloading => sdo.pos <= Len(sdo.buf)
  /\ Uploading => /\ sdo.pos <= sdo.len /\ sdo.len <= Len(sdo.buf)
                /\ ExpBytes < sdo.len
                /\ \A j \in 1 .. sdo.len : sdo.buf[j] # "s"

\* In a segmented upload the client has a prefix of the snapshot.
Got == client.val \o answers[1].data
ReadInv ==
  client.op = "useg" =>
    /\ Uploading =>
         /\ sdo.obj = client.obj /\ Held
         /\ Len(client.val) <= sdo.len
         /\ Agree(sdo.buf, client.val, Len(client.val))
         /\ \/ sdo.pos = Len(client.val) /\ sdo.toggle = client.toggle
            \/ sdo.toggle = 1 - client.toggle
    /\ answers # <<>> /\ answers[1].k = "useg" =>
         /\ answers[1].last /\ client.obj = "text" =>
              Got \in held /\ ExpBytes < Len(Got)
         /\ ~ answers[1].last /\ Uploading =>
              /\ sdo.pos = Len(Got) /\ sdo.toggle = 1 - client.toggle
              /\ Agree(sdo.buf, Got, Len(Got))

\* The store, and its history while an exchange is under way.
StoreInv ==
  /\ WritesAreWhole /\ dp.state = <<"1">>
  /\ Len(dp.text) <= BufBytes /\ dp.text \in held

ExchangeInv == RestShape /\ BeginShape /\ SegShape
TransferInv == LoadInv /\ LeftInv /\ BegunInv /\ BufferInv /\ ReadInv
SdoInv == /\ SdoTypeOK /\ ClientInv /\ FrameInv /\ ExchangeInv /\ TransferInv
          /\ StoreInv /\ UploadIsSnapshot /\ ConfirmedIsStored

-----------------------------------------------------------------------------
(* Values. *)

LEMMA Sizes ==
  /\ ExpBytes \in Nat \ {0} /\ SegBytes \in Nat \ {0} /\ BufBytes \in Nat \ {0}
  /\ StrMax \in Nat \ {0} /\ MaxQueue \in Nat \ {0}
  /\ ExpBytes < SegBytes /\ SegBytes < BufBytes /\ StrMax <= BufBytes
  /\ 2 < BufBytes
<1>1. /\ ExpBytes \in Nat \ {0} /\ SegBytes \in Nat \ {0} /\ BufBytes \in Nat \ {0}
      /\ StrMax \in Nat \ {0} /\ MaxQueue \in Nat \ {0}
  BY SdoAssumption
<1>2. ExpBytes < SegBytes /\ SegBytes < BufBytes /\ StrMax <= BufBytes
  BY SdoAssumption
<1> QED
  BY <1>1, <1>2

LEMMA TextBytes ==
  ASSUME plan \in Plans, NEW v \in plan.texts \cup {<<"a">>}
  PROVE  v \in Seq(Bytes) /\ \A j \in 1 .. Len(v) : v[j] # "s"
<1>1. CASE v \in plan.texts
  <2>1. v \in Seq(Bytes \ {"s"})
    BY <1>1, SdoAssumption
  <2>2. v \in Seq(Bytes)
    BY <2>1, SeqMonotonic
  <2>3. \A j \in 1 .. Len(v) : v[j] \in Bytes \ {"s"}
    BY <2>1, ElementOfSeq
  <2> QED
    BY <2>2, <2>3
<1>2. CASE v = <<"a">>
  BY <1>2 DEF Bytes
<1> QED
  BY <1>1, <1>2

\* A string is a beginning of the bytes it is taken from.
LEMMA CStringBytes ==
  ASSUME NEW v \in Seq(Bytes)
  PROVE  /\ CString(v) \in Seq(Bytes) /\ Len(CString(v)) <= Len(v)
         /\ \A j \in 1 .. Len(CString(v)) : CString(v)[j] = v[j] /\ j \in 1 .. Len(v)
<1> DEFINE S == {j \in 1 .. Len(v) : \A i \in 1 .. j : v[i] # "0"}
           n == Cardinality(S)
<1>1. Len(v) \in Nat
  BY LenProperties
<1>2. IsFiniteSet(1 .. Len(v)) /\ Cardinality(1 .. Len(v)) = Len(v)
  BY <1>1, FS_Interval
<1>3. S \subseteq 1 .. Len(v)
  OBVIOUS
<1>4. n \in Nat /\ n <= Len(v)
  BY <1>2, <1>3, FS_Subset, FS_CardinalityType
<1>5. CString(v) = SubSeq(v, 1, n)
  BY DEF CString
<1> HIDE DEF n
<1>6. /\ SubSeq(v, 1, n) \in Seq(Bytes) /\ Len(SubSeq(v, 1, n)) = n
      /\ \A j \in 1 .. n : SubSeq(v, 1, n)[j] = v[j]
  BY <1>1, <1>4
<1> QED
  BY <1>1, <1>4, <1>5, <1>6

\* A text as it was sent, and as a datapoint holds it.
LEMMA StoredText ==
  ASSUME plan \in Plans, NEW v \in Texts \cup {<<"a">>}
  PROVE  v \in Seq(Bytes) /\ \A j \in 1 .. Len(v) : v[j] # "s"
<1>1. CASE v \in Texts
  <2>1. PICK t \in plan.texts : v = CString(t)
    BY <1>1 DEF Texts
  <2>2. t \in Seq(Bytes) /\ \A j \in 1 .. Len(t) : t[j] # "s"
    BY TextBytes
  <2> QED
    BY <2>1, <2>2, CStringBytes
<1>2. CASE v = <<"a">>
  BY <1>2, TextBytes
<1> QED
  BY <1>1, <1>2

LEMMA ByteValues ==
  /\ Secret \in Seq(Bytes) /\ <<"1", "1">> \in Seq(Bytes)
  /\ \A v \in {<<"1">>, <<"2">>, <<"3">>, <<"9">>} :
       v \in Seq(Bytes) /\ Len(v) = 1 /\ v[1] # "s"
<1>1. {"s", "1", "2", "3", "9"} \subseteq Bytes
  BY DEF Bytes
<1>2. Secret \in Seq(Bytes) /\ <<"1", "1">> \in Seq(Bytes)
  BY <1>1 DEF Secret
<1>3. <<"1">> \in Seq(Bytes) /\ Len(<<"1">>) = 1 /\ <<"1">>[1] # "s"
  BY <1>1
<1>4. <<"2">> \in Seq(Bytes) /\ Len(<<"2">>) = 1 /\ <<"2">>[1] # "s"
  BY <1>1
<1>5. <<"3">> \in Seq(Bytes) /\ Len(<<"3">>) = 1 /\ <<"3">>[1] # "s"
  BY <1>1
<1>6. <<"9">> \in Seq(Bytes) /\ Len(<<"9">>) = 1 /\ <<"9">>[1] # "s"
  BY <1>1
<1> QED
  BY <1>2, <1>3, <1>4, <1>5, <1>6, Zenon

LEMMA WrittenBytes ==
  ASSUME plan \in Plans, NEW o \in Objects, NEW v \in Written(o)
  PROVE  v \in Seq(Bytes)
<1>1. CASE o = "text"
  <2>1. v \in plan.texts
    BY <1>1 DEF Written
  <2> QED
    BY <2>1, TextBytes
<1>2. CASE o = "secret"
  BY <1>2, ByteValues DEF Written
<1>3. CASE o \in {"low", "high"}
  <2>1. v \in Digits \cup {<<"9">>, <<"1", "1">>}
    BY <1>3 DEF Written
  <2> QED
    BY <2>1, ByteValues, Zenon DEF Digits
<1>4. CASE o \notin {"text", "secret", "low", "high"}
  <2>1. v = <<"1">>
    BY <1>4 DEF Written
  <2> QED
    BY <2>1, ByteValues
<1> QED
  BY <1>1, <1>2, <1>3, <1>4

\* No zero byte ends a password early.
LEMMA SecretString == CString(Secret) = Secret
<1>1. Len(Secret) = 4 /\ \A i \in 1 .. 4 : Secret[i] = "s"
  BY DEF Secret
<1>2. {j \in 1 .. 4 : \A i \in 1 .. j : Secret[i] # "0"} = 1 .. 4
  <2>1. ASSUME NEW j \in 1 .. 4, NEW i \in 1 .. j
        PROVE  Secret[i] # "0"
    <3>1. i \in 1 .. 4
      OBVIOUS
    <3> QED
      BY <1>1, <3>1
  <2> QED
    BY <2>1
<1>3. Cardinality(1 .. 4) = 4
  <2>1. Cardinality(1 .. 4) = IF 1 > 4 THEN 0 ELSE 4 - 1 + 1
    BY FS_Interval, 1 \in Int, 4 \in Int
  <2> QED
    BY <2>1
<1>4. CString(Secret) = SubSeq(Secret, 1, 4)
  BY <1>1, <1>2, <1>3 DEF CString
<1> QED
  BY <1>4 DEF Secret

\* What json_from_raw makes of a value somebody writes.
LEMMA JsonValue ==
  ASSUME plan \in Plans, NEW o \in Objects, NEW data \in Written(o)
  PROVE  /\ json_from_raw(o, data) \in Seq(Bytes)
         /\ o = "text" => json_from_raw(o, data) \in Texts
         /\ o = "secret" => json_from_raw(o, data) = Secret
<1>1. data \in Seq(Bytes)
  BY WrittenBytes
<1>2. CASE o = "text"
  <2>1. json_from_raw(o, data) = CString(data) /\ data \in plan.texts
    BY <1>2 DEF json_from_raw, Strings, Written
  <2> QED
    BY <1>1, <1>2, <2>1, CStringBytes DEF Texts
<1>3. CASE o = "secret"
  <2>1. json_from_raw(o, data) = CString(data) /\ data = Secret
    BY <1>3 DEF json_from_raw, Strings, Written
  <2> QED
    BY <1>1, <1>3, <2>1, SecretString
<1>4. CASE o \notin Strings
  BY <1>1, <1>4 DEF json_from_raw, Strings
<1> QED
  BY <1>2, <1>3, <1>4 DEF Strings

(* What is read of an object. *)
Value(o) == IF o = "name" THEN <<"n", "n", "n">> ELSE dp[o]

LEMMA ReadValue ==
  ASSUME NEW o \in Objects
  PROVE  /\ o = "secret" => od_read(o) = {}
         /\ o # "secret" => od_read(o) = {Value(o)}
BY DEF od_read, od_read_cb, od_internal_read, is_internal_index, Value, Points, Objects

LEMMA ValueBytes ==
  ASSUME SdoTypeOK, StoreInv, NEW o \in Objects, o # "secret"
  PROVE  /\ Value(o) \in Seq(Bytes) /\ Len(Value(o)) <= BufBytes
         /\ \A j \in 1 .. Len(Value(o)) : Value(o)[j] # "s"
         /\ o = "text" => Value(o) \in held
<1>1. CASE o = "name"
  <2>1. Value(o) = <<"n", "n", "n">>
    BY <1>1 DEF Value
  <2>2. Value(o) \in Seq(Bytes) /\ Len(Value(o)) = 3
    BY <2>1 DEF Bytes
  <2>3. \A j \in 1 .. 3 : Value(o)[j] = "n"
    BY <2>1
  <2>4. 3 <= BufBytes
    BY Sizes
  <2> QED
    BY <1>1, <2>2, <2>3, <2>4
<1>2. CASE o = "text"
  <2>1. Value(o) = dp.text
    BY <1>2 DEF Value
  <2>2. dp.text \in Texts \cup {<<"a">>} /\ plan \in Plans
    BY DEF SdoTypeOK, StoreInv, WritesAreWhole
  <2> QED
    BY <2>1, <2>2, StoredText DEF StoreInv
<1>3. CASE o \in {"low", "high", "state"}
  <2>1. Value(o) \in {<<"1">>, <<"2">>, <<"3">>}
    BY <1>3 DEF Value, StoreInv, WritesAreWhole, Digits
  <2>2. Value(o) \in Seq(Bytes) /\ Len(Value(o)) = 1 /\ Value(o)[1] # "s"
    BY <2>1, ByteValues, Zenon
  <2>3. 1 <= BufBytes /\ \A j \in 1 .. 1 : j = 1
    BY Sizes
  <2> QED
    BY <1>3, <2>2, <2>3
<1> QED
  BY <1>1, <1>2, <1>3 DEF Objects
-----------------------------------------------------------------------------
(* The server: each request but an abort has one answer. *)

\* a is the answer to f, and what it says of the server's transfer.
Replied(f, a) ==
  /\ a \in Frames /\ answers' \in Queued(answers, a)
  /\ f.k \in {"dexp", "dinit"} => a.k \in {"dok", "abort"}
  /\ f.k = "uinit" => a.k \in {"uinit", "uexp", "abort"}
  /\ f.k \in Segs => a.k \in {f.k, "abort"}
  /\ f.k \in Begins /\ a.k # "abort" => a.obj = f.obj
Moved(f, a) ==
  /\ f.k = "dexp" \/ a.k \in {"uexp", "abort"} => sdo'.state = "idle"
  /\ f.k \in {"dinit", "dseg"} => sdo'.state # "upload"
  /\ f.k \in {"uinit", "useg"} => sdo'.state # "download"
  /\ f.k \in Begins /\ sdo'.state # "idle" =>
       /\ sdo'.pos = 0 /\ sdo'.toggle = 0 /\ sdo'.obj = f.obj
       /\ sdo'.state = "upload" => Held'
\* An answer may leave the node.
Fit(a) ==
  /\ \A j \in 1 .. Len(a.data) : a.data[j] # "s"
  /\ a.k = "uexp" =>
       /\ a.last
       /\ a.obj = "text" =>
            \E w \in held' : Len(w) <= ExpBytes /\ a.data = Expedited(w)
Servers == [state : {"idle", "upload", "download"}, obj : Objects, toggle : {0, 1},
            len : 0 .. BufBytes, pos : 0 .. BufBytes, buf : Seq(Bytes)]
\* The transfer buffer and the store are in order.
Sound ==
  /\ sdo' \in Servers /\ Len(sdo'.buf) <= BufBytes /\ BufferInv'
  /\ dp' \in [Points -> Seq(Bytes)] /\ held' \subseteq Seq(Bytes) /\ stored' \in BOOLEAN
  /\ StoreInv' /\ held \subseteq held' /\ (stored => stored')
Kept == UNCHANGED <<dp, held, stored, plan>>

LEMMA KeptStore ==
  ASSUME SdoTypeOK, StoreInv, Kept
  PROVE  /\ dp' \in [Points -> Seq(Bytes)] /\ held' \subseteq Seq(Bytes)
         /\ stored' \in BOOLEAN /\ StoreInv' /\ held \subseteq held'
         /\ (stored => stored')
<1>1. dp' = dp /\ held' = held /\ plan' = plan
  BY DEF Kept
<1>2. stored' \in BOOLEAN /\ (stored => stored')
  BY DEF Kept, SdoTypeOK
<1>3. StoreInv'
  BY <1>1 DEF StoreInv, WritesAreWhole, Texts
<1> QED
  BY <1>1, <1>2, <1>3 DEF SdoTypeOK

LEMMA IdleServer ==
  ASSUME NEW b \in Seq(Bytes), Len(b) <= BufBytes, sdo' = Idle([buf |-> b])
  PROVE  sdo' \in Servers /\ sdo'.state = "idle" /\ BufferInv' /\ sdo'.buf = b
<1>1. sdo' = [state |-> "idle", obj |-> "text", toggle |-> 0, len |-> 0, pos |-> 0,
              buf |-> b]
  BY DEF Idle
<1>2. 0 \in 0 .. BufBytes
  BY Sizes
<1>3. sdo' \in Servers
  BY <1>1, <1>2 DEF Servers, Objects
<1> QED
  BY <1>1, <1>3 DEF BufferInv, Downloading, Uploading

\* The transfer ends without an effect on the store.
LEMMA AbortReply ==
  ASSUME SdoTypeOK, StoreInv, NEW f \in Frames, NEW o \in Objects, NEW s,
         s.buf \in Seq(Bytes), Len(s.buf) <= BufBytes,
         sdo_abort(o, s), plan' = plan
  PROVE  /\ Replied(f, Aborted(o)) /\ Moved(f, Aborted(o)) /\ Fit(Aborted(o))
         /\ Sound /\ sdo'.state = "idle" /\ Kept /\ Aborted(o).k = "abort"
<1> DEFINE a == Aborted(o)
<1>1. a \in Frames /\ a.k = "abort" /\ a.data = <<>>
  BY DEF Aborted, Frame, Frames, Kinds
<1>2. answers' \in Queued(answers, a) /\ sdo' = Idle(s) /\ Kept
  BY DEF sdo_abort, Answer, Kept
<1>3. Idle(s) = Idle([buf |-> s.buf])
  BY DEF Idle
<1>4. sdo' \in Servers /\ sdo'.state = "idle" /\ BufferInv' /\ sdo'.buf = s.buf
  BY <1>2, <1>3, IdleServer
<1>5. Sound
  BY <1>2, <1>4, KeptStore DEF Sound
<1>6. Replied(f, a)
  BY <1>1, <1>2 DEF Replied, Begins, Segs
<1>7. Moved(f, a)
  BY <1>4 DEF Moved
<1>8. Fit(a)
  BY <1>1 DEF Fit
<1> QED
  BY <1>1, <1>2, <1>4, <1>5, <1>6, <1>7, <1>8

LEMMA ExpeditedBytes ==
  ASSUME NEW v \in Seq(Bytes), \A j \in 1 .. Len(v) : v[j] # "s"
  PROVE  /\ Expedited(v) \in Seq(Bytes)
         /\ \A j \in 1 .. Len(Expedited(v)) : Expedited(v)[j] # "s"
<1>1. CASE v = <<>>
  <2> DEFINE z == [i \in 1 .. ExpBytes |-> "0"]
  <2>1. z \in Seq(Bytes) /\ Len(z) = ExpBytes
    BY Sizes DEF Bytes
  <2>2. \A j \in 1 .. ExpBytes : z[j] = "0"
    OBVIOUS
  <2>3. Expedited(v) = z
    BY <1>1 DEF Expedited
  <2> HIDE DEF z
  <2> QED
    BY <2>1, <2>2, <2>3
<1>2. CASE v # <<>>
  BY <1>2 DEF Expedited
<1> QED
  BY <1>1, <1>2
LEMMA UploadBegins ==
  ASSUME SdoTypeOK, StoreInv, NEW f \in Frames, f.k = "uinit",
         sdo_upload_initiate(f), plan' = plan
  PROVE  \E a : Replied(f, a) /\ Moved(f, a) /\ Fit(a) /\ Sound /\ Kept
<1> DEFINE v == CHOOSE x \in od_read(f.obj) : TRUE
           b == Overlay(sdo.buf, 0, v)
<1>0. f.obj \in Objects /\ sdo.buf \in Seq(Bytes) /\ Len(sdo.buf) <= BufBytes
  BY DEF Frames, SdoTypeOK
<1>1. CASE f.obj = "secret"
  <2>1. od_read(f.obj) = {}
    BY <1>0, <1>1, ReadValue
  <2>2. sdo_abort(f.obj, sdo)
    BY <2>1 DEF sdo_upload_initiate
  <2> QED
    BY <1>0, <2>2, AbortReply
<1>2. CASE f.obj # "secret"
  <2>0. od_read(f.obj) = {Value(f.obj)}
    BY <1>0, <1>2, ReadValue
  <2>1. od_read(f.obj) # {} /\ v = Value(f.obj)
    BY <2>0
  <2>2. /\ IF Len(v) <= ExpBytes
           THEN Answer(Frame("uexp", f.obj, 0, Expedited(v), 0, TRUE), Idle([buf |-> b]))
           ELSE Answer(Frame("uinit", f.obj, 0, <<>>, Len(v), FALSE),
                       [state |-> "upload", obj |-> f.obj, toggle |-> 0,
                        len |-> Len(v), pos |-> 0, buf |-> b])
        /\ Kept
    BY <2>1 DEF sdo_upload_initiate, Kept
  <2> HIDE DEF v
  <2>3. /\ v \in Seq(Bytes) /\ Len(v) <= BufBytes /\ Len(v) \in Nat
        /\ \A j \in 1 .. Len(v) : v[j] # "s"
        /\ f.obj = "text" => v \in held
    BY <1>0, <1>2, <2>1, ValueBytes, LenProperties
  <2>4. /\ b \in Seq(Bytes) /\ Len(b) <= BufBytes /\ Len(v) <= Len(b) /\ Len(b) \in Nat
        /\ \A j \in 1 .. Len(v) : b[j] = v[j]
    <3>1. /\ b \in Seq(Bytes)
          /\ Len(b) \in {Len(sdo.buf), 0 + Len(v)} /\ 0 + Len(v) <= Len(b)
          /\ \A j \in 1 .. Len(v) : b[0 + j] = v[j]
      <4>1. 0 <= Len(sdo.buf) /\ 0 \in Nat
        BY <1>0, LenProperties
      <4> QED
        BY <1>0, <2>3, <4>1, Copied
    <3> HIDE DEF b
    <3>2. Len(b) \in Nat
      BY <3>1, LenProperties
    <3> QED
      BY <1>0, <2>3, <3>1, <3>2
  <2>5. held' = held /\ Kept
    BY <2>2 DEF Kept
  <2> HIDE DEF b
  <2>6. CASE Len(v) <= ExpBytes
    <3> DEFINE a == Frame("uexp", f.obj, 0, Expedited(v), 0, TRUE)
    <3>1. answers' \in Queued(answers, a) /\ sdo' = Idle([buf |-> b])
      BY <2>2, <2>6 DEF Answer
    <3>2. sdo' \in Servers /\ sdo'.state = "idle" /\ BufferInv' /\ sdo'.buf = b
      BY <2>4, <3>1, IdleServer
    <3>3. /\ Expedited(v) \in Seq(Bytes)
          /\ \A j \in 1 .. Len(Expedited(v)) : Expedited(v)[j] # "s"
      BY <2>3, ExpeditedBytes
    <3>4. /\ a \in Frames /\ a.k = "uexp" /\ a.obj = f.obj /\ a.data = Expedited(v)
          /\ a.last = TRUE
      BY <1>0, <3>3 DEF Frame, Frames, Kinds
    <3> HIDE DEF a
    <3>5. Replied(f, a)
      BY <3>1, <3>4 DEF Replied, Begins, Segs
    <3>6. Moved(f, a)
      BY <3>2 DEF Moved
    <3>7. Fit(a)
      BY <2>3, <2>5, <2>6, <3>3, <3>4 DEF Fit
    <3>8. Sound
      BY <2>4, <2>5, <3>2, KeptStore DEF Sound
    <3> QED
      BY <2>5, <3>5, <3>6, <3>7, <3>8
  <2>7. CASE ~ (Len(v) <= ExpBytes)
    <3> DEFINE a == Frame("uinit", f.obj, 0, <<>>, Len(v), FALSE)
    <3>1. /\ answers' \in Queued(answers, a)
          /\ sdo' = [state |-> "upload", obj |-> f.obj, toggle |-> 0,
                     len |-> Len(v), pos |-> 0, buf |-> b]
      BY <2>2, <2>7 DEF Answer
    <3>2. Len(v) \in 0 .. BufBytes /\ 0 \in 0 .. BufBytes /\ ExpBytes < Len(v)
      BY <2>3, <2>7, Sizes
    <3>3. sdo' \in Servers
      BY <1>0, <2>4, <3>1, <3>2 DEF Servers
    <3>4. BufferInv'
      BY <2>3, <2>4, <3>1, <3>2 DEF BufferInv, Downloading, Uploading
    <3>5. a \in Frames /\ a.k = "uinit" /\ a.obj = f.obj /\ a.data = <<>>
      BY <1>0, <2>3 DEF Frame, Frames, Kinds
    <3>6. SubSeq(b, 1, Len(v)) = v
      <4>1. 0 + Len(v) <= Len(b) /\ 0 \in Nat /\ 0 + 1 = 1 /\ 0 + Len(v) = Len(v)
        BY <2>3, <2>4
      <4>2. /\ SubSeq(b, 0 + 1, 0 + Len(v)) \in Seq(Bytes)
            /\ Len(SubSeq(b, 0 + 1, 0 + Len(v))) = Len(v)
            /\ \A i \in 1 .. Len(v) : SubSeq(b, 0 + 1, 0 + Len(v))[i] = b[0 + i]
        BY <2>3, <2>4, <4>1, PartOf
      <4>3. /\ SubSeq(b, 1, Len(v)) \in Seq(Bytes)
            /\ Len(SubSeq(b, 1, Len(v))) = Len(v)
            /\ \A i \in 1 .. Len(v) : SubSeq(b, 1, Len(v))[i] = v[i]
        BY <2>3, <2>4, <4>1, <4>2
      <4> QED
        BY <2>3, <4>3, SeqEqual
    <3> HIDE DEF a
    <3>7. Held'
      BY <2>3, <2>5, <3>1, <3>6 DEF Held
    <3>8. Replied(f, a)
      BY <3>1, <3>5 DEF Replied, Begins, Segs
    <3>9. Moved(f, a)
      BY <3>1, <3>5, <3>7 DEF Moved
    <3>10. Fit(a)
      BY <3>5 DEF Fit
    <3>11. Sound
      <4>1. Len(sdo'.buf) <= BufBytes
        BY <2>4, <3>1
      <4> QED
        BY <2>5, <3>3, <3>4, <4>1, KeptStore DEF Sound
    <3> QED
      BY <2>5, <3>8, <3>9, <3>10, <3>11
  <2> QED
    BY <2>6, <2>7
<1> QED
  BY <1>1, <1>2
\* a carries the next segment of the snapshot.
SegmentSent(f, a) ==
  LET n == Least(SegBytes, sdo.len - sdo.pos)
  IN  a.k = "useg" =>
        /\ Uploading /\ f.toggle = sdo.toggle
        /\ n \in Nat /\ sdo.pos + n <= sdo.len
        /\ a.data = SubSeq(sdo.buf, sdo.pos + 1, sdo.pos + n)
        /\ a.last => sdo.pos + n = sdo.len /\ sdo'.state = "idle"
        /\ ~ a.last => sdo' = [sdo EXCEPT !.pos = @ + n, !.toggle = 1 - @]

LEMMA UploadSegment ==
  ASSUME SdoTypeOK, StoreInv, BufferInv, NEW f \in Frames, f.k = "useg",
         sdo_upload_segment(f), plan' = plan
  PROVE  \E a : /\ Replied(f, a) /\ Moved(f, a) /\ Fit(a) /\ Sound /\ Kept
                /\ SegmentSent(f, a)
<1> DEFINE remain == sdo.len - sdo.pos
           n == Least(SegBytes, remain)
<1>0. /\ sdo \in Servers /\ sdo.obj \in Objects /\ sdo.buf \in Seq(Bytes)
      /\ Len(sdo.buf) <= BufBytes /\ sdo.len \in 0 .. BufBytes
      /\ sdo.pos \in 0 .. BufBytes /\ sdo.toggle \in {0, 1}
  BY DEF Servers, SdoTypeOK
<1>1. CASE sdo.state # "upload" \/ f.toggle # sdo.toggle
  <2>1. sdo_abort(sdo.obj, sdo)
    BY <1>1 DEF sdo_upload_segment
  <2>2. SegmentSent(f, Aborted(sdo.obj))
    BY DEF SegmentSent, Aborted, Frame
  <2> QED
    BY <1>0, <2>1, <2>2, AbortReply
<1>2. CASE sdo.state = "upload" /\ f.toggle = sdo.toggle
  <2> DEFINE a == Frame("useg", sdo.obj, f.toggle,
                        SubSeq(sdo.buf, sdo.pos + 1, sdo.pos + n), 0, n = remain)
             next == [sdo EXCEPT !.pos = @ + n, !.toggle = 1 - @]
  <2>1. /\ answers' \in Queued(answers, a)
        /\ sdo' = IF n = remain THEN Idle(sdo) ELSE next
        /\ Kept
    BY <1>2 DEF sdo_upload_segment, Answer, Kept
  <2>2. /\ sdo.pos <= sdo.len /\ sdo.len <= Len(sdo.buf) /\ ExpBytes < sdo.len
        /\ \A j \in 1 .. sdo.len : sdo.buf[j] # "s"
    BY <1>2 DEF BufferInv, Uploading
  <2>3. /\ remain \in Nat /\ n \in Nat /\ n <= remain /\ sdo.pos \in Nat
        /\ sdo.pos + n <= sdo.len /\ sdo.pos + n \in 0 .. BufBytes
        /\ (n = remain => sdo.pos + n = sdo.len)
        /\ Len(sdo.buf) \in Nat /\ sdo.pos + n <= Len(sdo.buf)
    <3>1. Len(sdo.buf) \in Nat
      BY <1>0, LenProperties
    <3> QED
      BY <1>0, <2>2, <3>1, Sizes DEF Least
  <2> DEFINE d == SubSeq(sdo.buf, sdo.pos + 1, sdo.pos + n)
  <2>4. /\ d \in Seq(Bytes) /\ Len(d) = n
        /\ \A i \in 1 .. n : d[i] = sdo.buf[sdo.pos + i]
    <3>1. /\ sdo.buf \in Seq(Bytes) /\ sdo.pos \in Nat /\ n \in Nat
          /\ sdo.pos + n <= Len(sdo.buf)
      BY <1>0, <2>3
    <3>2. ASSUME NEW b \in Seq(Bytes), NEW p \in Nat, NEW m \in Nat, p + m <= Len(b)
          PROVE  /\ SubSeq(b, p + 1, p + m) \in Seq(Bytes)
                 /\ Len(SubSeq(b, p + 1, p + m)) = m
                 /\ \A i \in 1 .. m : SubSeq(b, p + 1, p + m)[i] = b[p + i]
      BY <3>2, PartOf
    <3> HIDE DEF n
    <3>3. /\ SubSeq(sdo.buf, sdo.pos + 1, sdo.pos + n) \in Seq(Bytes)
          /\ Len(SubSeq(sdo.buf, sdo.pos + 1, sdo.pos + n)) = n
          /\ \A i \in 1 .. n : SubSeq(sdo.buf, sdo.pos + 1, sdo.pos + n)[i]
                                = sdo.buf[sdo.pos + i]
      BY <3>1, <3>2
    <3> QED
      BY <3>3
  <2> HIDE DEF n, remain
  <2>5. \A j \in 1 .. Len(d) : d[j] # "s"
    <3> SUFFICES ASSUME NEW j \in 1 .. Len(d) PROVE d[j] # "s"
      OBVIOUS
    <3> HIDE DEF d
    <3>1. j \in 1 .. n /\ sdo.pos + j \in 1 .. sdo.len
      BY <1>0, <2>3, <2>4
    <3> QED
      BY <2>2, <2>4, <3>1
  <2>6. /\ a \in Frames /\ a.k = "useg" /\ a.data = d /\ (a.last <=> n = remain)
    <3>1. f.toggle \in {0, 1} /\ (n = remain) \in BOOLEAN
      BY DEF Frames
    <3>2. d \in Seq(Bytes) /\ sdo.obj \in Objects
      BY <1>0, <2>4
    <3> DEFINE e == (n = remain)
    <3>3. e \in BOOLEAN
      OBVIOUS
    <3>4. a = [k |-> "useg", obj |-> sdo.obj, toggle |-> f.toggle, data |-> d, n |-> 0,
               last |-> e]
      BY DEF Frame
    <3>5. e <=> n = remain
      OBVIOUS
    <3> HIDE DEF d, a, e
    <3>6. a \in Frames
      BY <3>1, <3>2, <3>3, <3>4 DEF Frames, Kinds
    <3> QED
      BY <3>4, <3>5, <3>6
  <2>9. /\ sdo' \in Servers /\ BufferInv' /\ sdo'.buf = sdo.buf
        /\ n = remain => sdo'.state = "idle"
        /\ n # remain => sdo' = next /\ sdo'.state = "upload"
    <3>1. CASE n = remain
      <4>1. sdo' = Idle([buf |-> sdo.buf])
        BY <2>1, <3>1 DEF Idle
      <4> QED
        BY <1>0, <3>1, <4>1, IdleServer
    <3>2. CASE n # remain
      <4>1. sdo' = next
        BY <2>1, <3>2
      <4>2. 1 - sdo.toggle \in {0, 1}
        BY <1>0
      <4>3. sdo' \in Servers
        BY <1>0, <2>3, <4>1, <4>2 DEF Servers
      <4>4. /\ sdo'.state = "upload" /\ sdo'.buf = sdo.buf /\ sdo'.len = sdo.len
            /\ sdo'.pos = sdo.pos + n
        BY <1>0, <1>2, <4>1 DEF Servers
      <4>5. BufferInv'
        BY <2>2, <2>3, <4>4 DEF BufferInv, Downloading, Uploading
      <4> QED
        BY <3>2, <4>1, <4>3, <4>4, <4>5
    <3> QED
      BY <3>1, <3>2
  <2> HIDE DEF a, next
  <2>10. Replied(f, a)
    BY <2>1, <2>6 DEF Replied, Begins, Segs
  <2>11. Moved(f, a)
    BY <2>6, <2>9 DEF Moved, Begins
  <2>12. Fit(a)
    BY <2>5, <2>6 DEF Fit
  <2>13. Sound
    BY <1>0, <2>1, <2>9, KeptStore DEF Sound
  <2>14. SegmentSent(f, a)
    BY <1>2, <2>3, <2>6, <2>9 DEF SegmentSent, Uploading, n, remain, next
  <2> QED
    BY <2>1, <2>10, <2>11, <2>12, <2>13, <2>14
<1> QED
  BY <1>1, <1>2

\* A write of a value that the client or another task means as a whole.
LEMMA StoreKeeps ==
  ASSUME SdoTypeOK, StoreInv, requests # <<>>, plan' = plan,
         NEW o \in Objects, NEW data \in Written(o), od_write(o, data), Store(o, data)
  PROVE  /\ dp' \in [Points -> Seq(Bytes)] /\ held' \subseteq Seq(Bytes)
         /\ stored' \in BOOLEAN /\ StoreInv' /\ held \subseteq held'
         /\ (stored => stored')
         /\ o = client.obj /\ data = client.val => stored'
<1> DEFINE v == json_from_raw(o, data)
<1>0. plan \in Plans /\ Texts' = Texts
  BY DEF SdoTypeOK, Texts
<1>1. /\ o \in Points /\ o # "state" /\ dp_value_from_json(o, v)
      /\ dp_constraints_ok(Committed([x \in {o} |-> v]))
  <2>1. o \in Points /\ dp_write_batch([x \in {o} |-> v])
    BY DEF od_write, od_write_cb, is_internal_index
  <2>2. DOMAIN [x \in {o} |-> v] = {o} /\ [x \in {o} |-> v][o] = v
    OBVIOUS
  <2> QED
    BY <2>1, <2>2 DEF dp_write_batch
<1>2. dp' = [p \in Points |-> IF p = o THEN v ELSE dp[p]]
  BY DEF Store, Committed
<1>3. /\ v \in Seq(Bytes) /\ dp \in [Points -> Seq(Bytes)]
      /\ (o = "text" => v \in Texts) /\ (o = "secret" => v = Secret)
  BY <1>0, JsonValue DEF SdoTypeOK
<1> HIDE DEF v
<1>4. dp' \in [Points -> Seq(Bytes)]
  BY <1>2, <1>3
<1>5. held' = held \cup {dp'.text}
  BY DEF Store, Keep, Under, Quiet
<1>6. held' \subseteq Seq(Bytes)
  <2>1. "text" \in Points
    BY DEF Points, Objects
  <2> QED
    BY <1>4, <1>5, <2>1 DEF SdoTypeOK
<1>7. /\ stored' \in BOOLEAN /\ (stored => stored')
      /\ o = client.obj /\ data = client.val => stored'
  <2>1. stored' = (stored \/ (o = client.obj /\ data = client.val))
    BY DEF Store
  <2> QED
    BY <2>1, Zenon
<1>8. dp'.low = dp'["low"] /\ Number(dp'.low) < Number(dp'.high)
  BY <1>1 DEF Store, dp_constraints_ok, v
<1>9. /\ {"text", "secret", "low", "high", "state"} \subseteq Points
      /\ \A p \in Points : dp'[p] = IF p = o THEN v ELSE dp[p]
  BY <1>2 DEF Points, Objects
<1>10. dp'.text \in Texts' \cup {<<"a">>} /\ Len(dp'.text) <= BufBytes
  <2>1. CASE o = "text"
    <3>1. v \in Texts' /\ Len(v) < StrMax
      BY <1>0, <1>1, <1>3, <2>1 DEF dp_value_from_json, Strings
    <3>2. Len(v) \in Nat
      BY <1>3, LenProperties
    <3>3. Len(v) <= BufBytes
      BY <3>1, <3>2, Sizes
    <3> QED
      BY <1>9, <2>1, <3>1, <3>3
  <2>2. CASE o # "text"
    <3>1. dp'.text = dp.text
      BY <1>9, <2>2
    <3> QED
      BY <1>0, <3>1 DEF StoreInv, WritesAreWhole
  <2> QED
    BY <2>1, <2>2
<1>11. dp'.secret = Secret
  BY <1>3, <1>9 DEF StoreInv, WritesAreWhole
<1>12. dp'.low \in Digits /\ dp'.high \in Digits
  <2>1. o \in {"low", "high"} => v \in Digits
    BY <1>1 DEF dp_value_from_json, Strings
  <2> QED
    BY <1>9, <2>1 DEF StoreInv, WritesAreWhole
<1>13. dp'.state = <<"1">>
  BY <1>1, <1>9 DEF StoreInv
<1>14. StoreInv'
  BY <1>5, <1>8, <1>10, <1>11, <1>12, <1>13 DEF StoreInv, WritesAreWhole
<1> QED
  BY <1>4, <1>5, <1>6, <1>7, <1>14

LEMMA DownloadBegins ==
  ASSUME SdoTypeOK, StoreInv, requests # <<>>, plan' = plan, NEW f \in Frames,
         f.k \in {"dexp", "dinit"}, f.k = "dexp" => f.data \in Written(f.obj),
         sdo_download_initiate(f)
  PROVE  \E a : Replied(f, a) /\ Moved(f, a) /\ Fit(a) /\ Sound
<1>0. /\ f.obj \in Objects /\ sdo.buf \in Seq(Bytes) /\ Len(sdo.buf) <= BufBytes
      /\ f.n \in Nat
  BY DEF Frames, SdoTypeOK
<1>1. CASE f.k = "dexp" /\ od_write(f.obj, f.data)
  <2> DEFINE a == Frame("dok", f.obj, 0, <<>>, 0, TRUE)
  <2>1. /\ Store(f.obj, f.data) /\ answers' \in Queued(answers, a)
        /\ sdo' = Idle(sdo)
    BY <1>1 DEF sdo_download_initiate, Answer
  <2>2. sdo' = Idle([buf |-> sdo.buf])
    BY <2>1 DEF Idle
  <2>3. sdo' \in Servers /\ sdo'.state = "idle" /\ BufferInv' /\ sdo'.buf = sdo.buf
    BY <1>0, <2>2, IdleServer
  <2>4. /\ dp' \in [Points -> Seq(Bytes)] /\ held' \subseteq Seq(Bytes)
        /\ stored' \in BOOLEAN /\ StoreInv' /\ held \subseteq held'
        /\ (stored => stored')
    BY <1>0, <1>1, <2>1, StoreKeeps
  <2>5. a \in Frames /\ a.k = "dok" /\ a.obj = f.obj /\ a.data = <<>>
    BY <1>0 DEF Frame, Frames, Kinds
  <2> HIDE DEF a
  <2>6. Replied(f, a)
    BY <1>1, <2>1, <2>5 DEF Replied, Segs
  <2>7. Moved(f, a) /\ Fit(a)
    BY <2>3, <2>5 DEF Moved, Fit
  <2>8. Sound
    BY <1>0, <2>3, <2>4 DEF Sound
  <2> QED
    BY <2>6, <2>7, <2>8
<1>2. CASE f.k = "dinit" /\ f.n <= BufBytes
  <2> DEFINE a == Frame("dok", f.obj, 0, <<>>, 0, FALSE)
  <2>1. /\ answers' \in Queued(answers, a) /\ Kept
        /\ sdo' = [state |-> "download", obj |-> f.obj, toggle |-> 0, len |-> f.n,
                   pos |-> 0, buf |-> sdo.buf]
    <3>1. f.k # "dexp" /\ ~ (f.n > BufBytes)
      BY <1>0, <1>2, Sizes
    <3> QED
      BY <3>1 DEF sdo_download_initiate, Answer, Kept
  <2>2. f.n \in 0 .. BufBytes /\ 0 \in 0 .. BufBytes /\ 0 <= Len(sdo.buf)
    BY <1>0, <1>2, Sizes, LenProperties
  <2>3. sdo' \in Servers
    BY <1>0, <2>1, <2>2 DEF Servers
  <2>4. /\ sdo'.state = "download" /\ sdo'.pos = 0 /\ sdo'.toggle = 0
        /\ sdo'.obj = f.obj /\ sdo'.buf = sdo.buf
    BY <2>1
  <2>5. BufferInv'
    BY <2>2, <2>4 DEF BufferInv, Downloading, Uploading
  <2>6. a \in Frames /\ a.k = "dok" /\ a.obj = f.obj /\ a.data = <<>>
    BY <1>0 DEF Frame, Frames, Kinds
  <2> HIDE DEF a
  <2>7. Replied(f, a)
    BY <1>2, <2>1, <2>6 DEF Replied, Segs
  <2>8. Moved(f, a) /\ Fit(a)
    BY <1>2, <2>4, <2>6 DEF Moved, Fit
  <2>9. Sound
    BY <1>0, <2>1, <2>3, <2>4, <2>5, KeptStore DEF Sound
  <2> QED
    BY <2>7, <2>8, <2>9
<1>3. CASE \/ f.k = "dexp" /\ ~ od_write(f.obj, f.data)
           \/ f.k = "dinit" /\ ~ (f.n <= BufBytes)
  <2>1. f.k # "dexp" => f.n > BufBytes
    BY <1>0, <1>3, Sizes
  <2>2. sdo_abort(f.obj, sdo)
    BY <1>3, <2>1 DEF sdo_download_initiate
  <2> QED
    BY <1>0, <2>2, AbortReply
<1> QED
  BY <1>1, <1>2, <1>3

\* The bytes a download has with segment f.
Loaded(f) == SubSeq(Overlay(sdo.buf, sdo.pos, f.data), 1, sdo.pos + Len(f.data))
\* Segment f completes a value of the object, in the client's own download
\* the one it sends.
Whole(f) ==
  Downloading /\ f.toggle = sdo.toggle /\ f.last =>
    /\ Loaded(f) \in Written(sdo.obj)
    /\ client.op = "dseg" => sdo.obj = client.obj /\ Loaded(f) = client.val
\* The buffer has grown by f, or the transfer is over.
SegmentLoaded(f, a) ==
  /\ a.k = "dseg" /\ f.last /\ client.op = "dseg" => stored'
  /\ a.k = "dseg" /\ sdo'.state # "download" => f.last
  /\ sdo'.state = "download" =>
       /\ Downloading /\ f.toggle = sdo.toggle /\ ~ f.last
       /\ sdo'.obj = sdo.obj /\ sdo'.toggle = 1 - sdo.toggle
       /\ sdo'.pos = sdo.pos + Len(f.data) /\ sdo'.pos <= Len(sdo'.buf)
       /\ \A j \in 1 .. sdo.pos : sdo'.buf[j] = sdo.buf[j]
       /\ \A j \in 1 .. Len(f.data) : sdo'.buf[sdo.pos + j] = f.data[j]

LEMMA DownloadSegment ==
  ASSUME SdoTypeOK, StoreInv, BufferInv, requests # <<>>, plan' = plan,
         NEW f \in Frames, f.k = "dseg", Whole(f), sdo_download_segment(f)
  PROVE  \E a : /\ Replied(f, a) /\ Moved(f, a) /\ Fit(a) /\ Sound
                /\ SegmentLoaded(f, a)
<1> DEFINE end == sdo.pos + Len(f.data)
           b   == Overlay(sdo.buf, sdo.pos, f.data)
           s   == [sdo EXCEPT !.buf = b, !.pos = end, !.toggle = 1 - @]
           ack == Frame("dseg", sdo.obj, f.toggle, <<>>, 0, f.last)
<1>0. /\ sdo \in Servers /\ sdo.obj \in Objects /\ sdo.buf \in Seq(Bytes)
      /\ Len(sdo.buf) <= BufBytes /\ sdo.len \in 0 .. BufBytes
      /\ sdo.pos \in 0 .. BufBytes /\ sdo.toggle \in {0, 1}
  BY DEF Servers, SdoTypeOK
<1>00. f.data \in Seq(Bytes) /\ f.toggle \in {0, 1} /\ f.last \in BOOLEAN
  BY DEF Frames
<1>1. CASE sdo.state # "download" \/ f.toggle # sdo.toggle \/ end > BufBytes
  <2>1. sdo_abort(sdo.obj, sdo)
    BY <1>1 DEF sdo_download_segment
  <2>2. sdo'.state = "idle" => SegmentLoaded(f, Aborted(sdo.obj))
    BY DEF SegmentLoaded, Aborted, Frame
  <2> QED
    BY <1>0, <2>1, <2>2, AbortReply
<1>2. CASE sdo.state = "download" /\ f.toggle = sdo.toggle /\ ~ (end > BufBytes)
  <2>0. sdo.pos <= Len(sdo.buf)
    BY <1>2 DEF BufferInv, Downloading
  <2>1. /\ end \in 0 .. BufBytes /\ Len(f.data) \in Nat /\ Len(sdo.buf) \in Nat
    <3>1. Len(f.data) \in Nat /\ Len(sdo.buf) \in Nat
      BY <1>0, <1>00, LenProperties
    <3> QED
      BY <1>0, <1>2, <3>1, Sizes
  <2>2. /\ b \in Seq(Bytes) /\ Len(b) \in {Len(sdo.buf), end} /\ end <= Len(b)
        /\ \A j \in 1 .. sdo.pos : b[j] = sdo.buf[j]
        /\ \A j \in 1 .. Len(f.data) : b[sdo.pos + j] = f.data[j]
    <3>1. ASSUME NEW x \in Seq(Bytes), NEW p \in Nat, NEW d \in Seq(Bytes), p <= Len(x)
          PROVE  /\ Overlay(x, p, d) \in Seq(Bytes)
                 /\ Len(Overlay(x, p, d)) \in {Len(x), p + Len(d)}
                 /\ p + Len(d) <= Len(Overlay(x, p, d))
                 /\ \A j \in 1 .. p : Overlay(x, p, d)[j] = x[j]
                 /\ \A j \in 1 .. Len(d) : Overlay(x, p, d)[p + j] = d[j]
      BY <3>1, Copied
    <3>2. sdo.buf \in Seq(Bytes) /\ sdo.pos \in Nat /\ f.data \in Seq(Bytes)
      BY <1>0, <1>00
    <3> QED
      BY <2>0, <3>1, <3>2
  <2>3. Len(b) <= BufBytes
    BY <1>0, <2>1, <2>2
  <2> HIDE DEF b
  <2>4. s.buf = b /\ Idle(s) = Idle([buf |-> b])
    BY <1>0 DEF Servers, Idle
  <2>5. ack \in Frames /\ ack.k = "dseg" /\ ack.data = <<>> /\ ack.last = f.last
    BY <1>0, <1>00 DEF Frame, Frames, Kinds
  <2>51. SubSeq(s.buf, 1, end) = Loaded(f)
    BY <2>4 DEF Loaded, b
  <2>6. CASE ~ f.last
    <3>1. answers' \in Queued(answers, ack) /\ sdo' = s /\ Kept
      BY <1>2, <2>6 DEF sdo_download_segment, Answer, Kept, b
    <3>2. 1 - sdo.toggle \in {0, 1}
      BY <1>0
    <3>3. sdo' \in Servers
      BY <1>0, <2>1, <2>2, <3>1, <3>2 DEF Servers
    <3>4. /\ sdo'.state = "download" /\ sdo'.buf = b /\ sdo'.pos = end
          /\ sdo'.toggle = 1 - sdo.toggle /\ sdo'.obj = sdo.obj
      BY <1>0, <1>2, <3>1 DEF Servers
    <3>5. BufferInv'
      BY <2>2, <3>4 DEF BufferInv, Downloading, Uploading
    <3> HIDE DEF ack
    <3>6. Replied(f, ack)
      BY <2>5, <3>1 DEF Replied, Segs, Begins
    <3>7. Moved(f, ack) /\ Fit(ack)
      BY <2>5, <3>4 DEF Moved, Fit, Begins
    <3>8. Sound
      BY <2>3, <3>1, <3>3, <3>4, <3>5, KeptStore DEF Sound
    <3>9. SegmentLoaded(f, ack)
      BY <1>2, <2>2, <2>6, <3>4 DEF SegmentLoaded, Downloading
    <3> QED
      BY <3>6, <3>7, <3>8, <3>9
  <2>7. CASE f.last /\ (sdo.len \notin {0, end} \/ ~ od_write(sdo.obj, Loaded(f)))
    <3>1. sdo_abort(sdo.obj, s)
      <4>1. sdo.len \notin {0, end} \/ ~ od_write(sdo.obj, SubSeq(s.buf, 1, end))
        BY <2>7, <2>51
      <4> QED
        BY <1>2, <2>7, <4>1 DEF sdo_download_segment, b
    <3>2. sdo'.state = "idle" => SegmentLoaded(f, Aborted(sdo.obj))
      BY DEF SegmentLoaded, Aborted, Frame
    <3>3. s.buf \in Seq(Bytes) /\ Len(s.buf) <= BufBytes
      BY <2>2, <2>3, <2>4
    <3> HIDE DEF s
    <3> QED
      BY <1>0, <3>1, <3>2, <3>3, AbortReply
  <2>8. CASE f.last /\ sdo.len \in {0, end} /\ od_write(sdo.obj, Loaded(f))
    <3>1. /\ Store(sdo.obj, Loaded(f))
          /\ answers' \in Queued(answers, ack) /\ sdo' = Idle(s)
      <4>1. ~ (sdo.len \notin {0, end} \/ ~ od_write(sdo.obj, SubSeq(s.buf, 1, end)))
        BY <2>8, <2>51
      <4>2. Store(sdo.obj, SubSeq(s.buf, 1, end)) /\ Answer(ack, Idle(s))
        BY <1>2, <2>8, <4>1 DEF sdo_download_segment, b
      <4> QED
        BY <2>51, <4>2 DEF Answer
    <3>2. sdo' = Idle([buf |-> b])
      BY <2>4, <3>1
    <3>3. sdo' \in Servers /\ sdo'.state = "idle" /\ BufferInv' /\ sdo'.buf = b
      BY <2>2, <2>3, <3>2, IdleServer
    <3>4. /\ Loaded(f) \in Written(sdo.obj)
          /\ client.op = "dseg" => sdo.obj = client.obj /\ Loaded(f) = client.val
      BY <1>2, <2>8 DEF Whole, Downloading
    <3>5. /\ dp' \in [Points -> Seq(Bytes)] /\ held' \subseteq Seq(Bytes)
          /\ stored' \in BOOLEAN /\ StoreInv' /\ held \subseteq held'
          /\ (stored => stored')
          /\ sdo.obj = client.obj /\ Loaded(f) = client.val => stored'
      BY <1>0, <2>8, <3>1, <3>4, StoreKeeps
    <3> HIDE DEF ack
    <3>6. Replied(f, ack)
      BY <2>5, <3>1 DEF Replied, Segs, Begins
    <3>7. Moved(f, ack) /\ Fit(ack)
      BY <2>5, <3>3 DEF Moved, Fit, Begins
    <3>8. Sound
      BY <2>3, <3>3, <3>5 DEF Sound
    <3>9. SegmentLoaded(f, ack)
      BY <2>8, <3>3, <3>4, <3>5 DEF SegmentLoaded
    <3> QED
      BY <3>6, <3>7, <3>8, <3>9
  <2> QED
    BY <1>00, <2>6, <2>7, <2>8
<1> QED
  BY <1>1, <1>2

-----------------------------------------------------------------------------
(* Segments of the client's value. *)

\* d is all that v has behind its first p bytes; the buffer with d behind p.
Completes(d, v, p) == p + Len(d) = Len(v) /\ \A i \in 1 .. Len(d) : d[i] = v[p + i]
Filled(b, p, d)    == SubSeq(Overlay(b, p, d), 1, p + Len(d))

LEMMA PrefixGrows ==
  ASSUME NEW b \in Seq(Bytes), NEW v \in Seq(Bytes), NEW p \in Nat, Agree(b, v, p),
         NEW d \in Seq(Bytes), Completes(d, v, p)
  PROVE  Filled(b, p, d) = v
<1>0. p + Len(d) = Len(v) /\ \A i \in 1 .. Len(d) : d[i] = v[p + i]
  BY DEF Completes
<1> DEFINE o == Overlay(b, p, d)
           e == Len(v)
           u == SubSeq(o, 0 + 1, 0 + e)
<1>1. e \in Nat /\ Len(d) \in Nat /\ p <= Len(b)
  BY LenProperties DEF Agree
<1>2. /\ o \in Seq(Bytes) /\ e <= Len(o)
      /\ \A i \in 1 .. p : o[i] = b[i]
      /\ \A i \in 1 .. Len(d) : o[p + i] = d[i]
  BY <1>0, <1>1, Copied
<1> HIDE DEF o
<1>3. u \in Seq(Bytes) /\ Len(u) = e /\ \A i \in 1 .. e : u[i] = o[0 + i]
  <2>1. 0 + e <= Len(o) /\ 0 \in Nat
    BY <1>1, <1>2
  <2> HIDE DEF e
  <2> QED
    BY <1>1, <1>2, <2>1, PartOf
<1>4. ASSUME NEW i \in 1 .. e PROVE o[0 + i] = v[i]
  <2>1. CASE i <= p
    <3>1. i \in 1 .. p
      BY <1>1, <2>1
    <3> QED
      BY <1>2, <3>1 DEF Agree
  <2>2. CASE ~ (i <= p)
    <3>1. i - p \in 1 .. Len(d) /\ p + (i - p) = i
      BY <1>0, <1>1, <2>2
    <3>2. o[p + (i - p)] = d[i - p] /\ d[i - p] = v[p + (i - p)]
      BY <1>0, <1>2, <3>1
    <3> QED
      BY <3>1, <3>2
  <2> QED
    BY <2>1, <2>2
<1>5. u = v
  <2> HIDE DEF u
  <2> QED
    BY <1>3, <1>4, SeqEqual
<1>6. 0 + 1 = 1 /\ 0 + e = p + Len(d)
  BY <1>0, <1>1
<1> QED
  BY <1>5, <1>6 DEF o, Filled

(* The segment the client sends carries its value on from its position.    *)
LEMMA OwnSegment ==
  ASSUME SdoTypeOK, ClientInv, client.op = "dseg", NEW f, f = Request(client)
  PROVE  /\ f \in Frames /\ f.k = "dseg" /\ f.obj = client.obj
         /\ f.toggle = client.toggle
         /\ Len(f.data) \in Nat /\ Done = client.pos + Len(f.data)
         /\ Done \in Nat /\ Done <= Len(client.val)
         /\ (f.last <=> Done = Len(client.val))
         /\ \A i \in 1 .. Len(f.data) : f.data[i] = client.val[client.pos + i]
<1>0. /\ client.val \in Seq(Bytes) /\ client.pos \in Nat /\ client.obj \in Objects
      /\ client.toggle \in {0, 1} /\ Len(client.val) \in Nat
      /\ client.pos <= Len(client.val)
  BY LenProperties DEF SdoTypeOK, ClientInv
<1> DEFINE n == Least(SegBytes, Len(client.val) - client.pos)
           d == SubSeq(client.val, client.pos + 1, client.pos + n)
           e == (client.pos + n = Len(client.val))
<1>1. n \in Nat /\ client.pos + n <= Len(client.val)
  BY <1>0, Sizes DEF Least
<1>2. f = [k |-> "dseg", obj |-> client.obj, toggle |-> client.toggle, data |-> d,
           n |-> 0, last |-> e]
  BY DEF Request, Frame
<1>3. Done = client.pos + n /\ e \in BOOLEAN /\ (e <=> Done = Len(client.val))
  BY DEF Done
<1> HIDE DEF n
<1>4. d \in Seq(Bytes) /\ Len(d) = n /\ \A i \in 1 .. n : d[i] = client.val[client.pos + i]
  <2>1. ASSUME NEW b \in Seq(Bytes), NEW p \in Nat, NEW m \in Nat, p + m <= Len(b)
        PROVE  /\ SubSeq(b, p + 1, p + m) \in Seq(Bytes)
               /\ Len(SubSeq(b, p + 1, p + m)) = m
               /\ \A i \in 1 .. m : SubSeq(b, p + 1, p + m)[i] = b[p + i]
    BY <2>1, PartOf
  <2> QED
    BY <1>0, <1>1, <2>1
<1> HIDE DEF d, e
<1>5. f \in Frames
  BY <1>0, <1>2, <1>3, <1>4 DEF Frames, Kinds
<1>6. f.data = d /\ (f.last <=> e)
  BY <1>2
<1> QED
  BY <1>0, <1>1, <1>2, <1>3, <1>4, <1>5, <1>6

LEMMA SegmentIsWhole ==
  ASSUME SdoInv, requests # <<>>, requests[1].k = "dseg"
  PROVE  Whole(requests[1])
<1> DEFINE f == requests[1]
<1>0. /\ requests \in Seq(Frames) /\ Len(requests) \in Nat \ {0} /\ f \in Frames
      /\ 1 \in 1 .. Len(requests) /\ f.data \in Seq(Bytes) /\ f.toggle \in {0, 1}
      /\ sdo.buf \in Seq(Bytes) /\ sdo.pos \in Nat /\ plan \in Plans
      /\ client.val \in Seq(Bytes) /\ sdo.toggle \in {0, 1} /\ f.obj \in Objects
      /\ client.toggle \in {0, 1} /\ f.last \in BOOLEAN
  <2>1. requests \in Seq(Frames)
    BY DEF SdoInv, SdoTypeOK
  <2>2. Len(requests) \in Nat \ {0}
    BY <2>1, EmptySeq
  <2>3. 1 \in 1 .. Len(requests)
    BY <2>2
  <2>4. f \in Frames
    BY <2>1, <2>3, ElementOfSeq
  <2> QED
    BY <2>1, <2>2, <2>3, <2>4 DEF SdoInv, SdoTypeOK, Frames
<1> SUFFICES ASSUME Downloading, f.toggle = sdo.toggle, f.last
             PROVE  /\ Loaded(f) \in Written(sdo.obj)
                    /\ client.op = "dseg" => sdo.obj = client.obj /\ Loaded(f) = client.val
  BY DEF Whole
<1>1. CASE client.op = "dseg"
  <2>1. f = Request(client)
    BY <1>0, <1>1 DEF SdoInv, ExchangeInv, SegShape, Segs
  <2>2. /\ f.toggle = client.toggle /\ Len(f.data) \in Nat
        /\ Done = client.pos + Len(f.data) /\ Done <= Len(client.val)
        /\ (f.last <=> Done = Len(client.val))
        /\ \A i \in 1 .. Len(f.data) : f.data[i] = client.val[client.pos + i]
    BY <1>1, <2>1, OwnSegment DEF SdoInv
  <2>3. /\ sdo.obj = client.obj /\ Agree(sdo.buf, client.val, sdo.pos)
        /\ \/ sdo.pos = client.pos /\ sdo.toggle = client.toggle
           \/ sdo.pos = Done /\ sdo.toggle = 1 - client.toggle
    BY <1>1 DEF SdoInv, TransferInv, LoadInv
  <2>4. sdo.pos = client.pos
    BY <1>0, <2>2, <2>3
  <2>5. Loaded(f) = client.val
    <3>1. sdo.pos + Len(f.data) = Len(client.val)
      BY <2>2, <2>4
    <3>2. \A i \in 1 .. Len(f.data) : f.data[i] = client.val[sdo.pos + i]
      BY <2>2, <2>4
    <3>3. /\ sdo.buf \in Seq(Bytes) /\ client.val \in Seq(Bytes)
          /\ sdo.pos \in Nat /\ f.data \in Seq(Bytes)
      BY <1>0
    <3>4. Completes(f.data, client.val, sdo.pos)
      BY <3>1, <3>2 DEF Completes
    <3> HIDE DEF f
    <3>5. Filled(sdo.buf, sdo.pos, f.data) = client.val
      BY <2>3, <3>3, <3>4, PrefixGrows
    <3> QED
      BY <3>5 DEF Loaded, Filled
  <2> QED
    BY <1>1, <2>3, <2>5 DEF SdoInv, ClientInv
<1>2. CASE client.op # "dseg"
  <2>1. /\ f.toggle = 0 /\ Downloading /\ sdo.toggle = 0 => sdo.pos = 0 /\ sdo.obj = f.obj
        /\ \E v \in Written(f.obj) : /\ Agree(f.data, v, Len(f.data))
                                     /\ f.last => Len(f.data) = Len(v)
    BY <1>0, <1>2 DEF SdoInv, TransferInv, LeftInv
  <2>2. PICK v \in Written(f.obj) : /\ Agree(f.data, v, Len(f.data))
                                    /\ f.last => Len(f.data) = Len(v)
    BY <2>1
  <2>3. sdo.pos = 0 /\ sdo.obj = f.obj
    BY <1>0, <1>2 DEF SdoInv, TransferInv, LeftInv
  <2>4. v \in Seq(Bytes)
    BY <1>0, WrittenBytes
  <2>5. Loaded(f) = v
    <3>1. 0 \in Nat /\ Len(f.data) \in Nat /\ Len(v) \in Nat /\ 0 <= Len(sdo.buf)
      BY <1>0, <2>4, LenProperties
    <3>2. Agree(sdo.buf, v, 0)
      BY <3>1 DEF Agree
    <3>3. 0 + Len(f.data) = Len(v)
      BY <2>2, <3>1
    <3>4. \A i \in 1 .. Len(f.data) : f.data[i] = v[0 + i]
      BY <2>2, <3>1 DEF Agree
    <3>5. sdo.buf \in Seq(Bytes) /\ f.data \in Seq(Bytes)
      BY <1>0
    <3>6. Completes(f.data, v, 0)
      BY <3>3, <3>4 DEF Completes
    <3> HIDE DEF f
    <3>7. Filled(sdo.buf, 0, f.data) = v
      BY <2>4, <3>1, <3>2, <3>5, <3>6, PrefixGrows
    <3> QED
      BY <2>3, <3>7 DEF Loaded, Filled
  <2> QED
    BY <1>2, <2>3, <2>5
<1> QED
  BY <1>1, <1>2

-----------------------------------------------------------------------------
(* A request is served. *)

\* The first request is taken.
TakenRequest ==
  /\ requests \in Seq(Frames) /\ Len(requests) \in Nat \ {0}
  /\ requests' \in Seq(Frames) /\ Len(requests') = Len(requests) - 1
  /\ \A i \in 1 .. Len(requests') :
       i + 1 \in 1 .. Len(requests) /\ requests'[i] = requests[i + 1]
  /\ requests[1] \in Frames /\ requests[1].k \in Begins \cup Segs \cup {"abort"}
  /\ 1 \in 1 .. Len(requests)

LEMMA TakesRequest ==
  ASSUME SdoInv, Serve
  PROVE  TakenRequest /\ Head(requests) = requests[1] /\ requests # <<>>
<1>1. requests # <<>> /\ requests' = Tail(requests) /\ requests \in Seq(Frames)
  BY DEF Serve, SdoInv, SdoTypeOK
<1>2. /\ requests' \in Seq(Frames) /\ Head(requests) \in Frames
      /\ Head(requests) = requests[1] /\ Len(requests) \in Nat \ {0}
      /\ Len(requests') = Len(requests) - 1
      /\ \A i \in 1 .. Len(requests) - 1 : requests'[i] = requests[i + 1]
  BY <1>1, TakenFrame
<1>3. /\ 1 \in 1 .. Len(requests)
      /\ \A i \in 1 .. Len(requests) - 1 : i + 1 \in 1 .. Len(requests)
  BY <1>2
<1>4. requests[1].k \in Begins \cup Segs \cup {"abort"}
  BY <1>3 DEF SdoInv, FrameInv
<1> QED
  BY <1>1, <1>2, <1>3, <1>4 DEF TakenRequest

\* All a proof needs to know of the answer a to request f.
Handled(f, a) ==
  /\ Replied(f, a) /\ Moved(f, a) /\ Fit(a)
  /\ f.k = "dseg" => SegmentLoaded(f, a)
  /\ f.k = "useg" => SegmentSent(f, a) /\ Kept

LEMMA ServeEffect ==
  ASSUME SdoInv, Serve, plan' = plan
  PROVE  /\ Sound /\ client' = client
         /\ requests[1].k = "abort" =>
              sdo'.state = "idle" /\ answers' = answers /\ Kept
         /\ requests[1].k # "abort" => \E a : Handled(requests[1], a)
<1> DEFINE f == requests[1]
<1>0. /\ f \in Frames /\ f.k \in Begins \cup Segs \cup {"abort"} /\ requests # <<>>
      /\ sdo_rx(f) /\ client' = client
  BY TakesRequest DEF Serve, TakenRequest
<1>1. SdoTypeOK /\ StoreInv /\ BufferInv
  BY DEF SdoInv, TransferInv
<1>2. f.k = "dexp" => f.data \in Written(f.obj)
  BY TakesRequest DEF SdoInv, FrameInv, TakenRequest
<1>3. f.k = "dseg" => Whole(f)
  BY <1>0, SegmentIsWhole
<1> HIDE DEF f
<1>4. CASE f.k = "abort"
  <2>1. sdo' = Idle(sdo) /\ answers' = answers /\ Kept
    BY <1>0, <1>4 DEF sdo_rx, Kept
  <2>2. sdo' = Idle([buf |-> sdo.buf])
    BY <2>1 DEF Idle
  <2>3. sdo.buf \in Seq(Bytes) /\ Len(sdo.buf) <= BufBytes
    BY <1>1 DEF SdoTypeOK
  <2>4. sdo' \in Servers /\ sdo'.state = "idle" /\ BufferInv' /\ sdo'.buf = sdo.buf
    BY <2>2, <2>3, IdleServer
  <2>5. Sound
    BY <1>1, <2>1, <2>3, <2>4, KeptStore DEF Sound
  <2> QED
    BY <1>0, <1>4, <2>1, <2>4, <2>5 DEF f
<1>5. CASE f.k \in {"dexp", "dinit"}
  <2>1. sdo_download_initiate(f)
    BY <1>0, <1>5 DEF sdo_rx
  <2>2. PICK a : Replied(f, a) /\ Moved(f, a) /\ Fit(a) /\ Sound
    BY <1>0, <1>1, <1>2, <1>5, <2>1, DownloadBegins
  <2>3. Handled(f, a)
    BY <1>5, <2>2 DEF Handled
  <2> QED
    BY <1>0, <1>5, <2>2, <2>3 DEF f
<1>6. CASE f.k = "uinit"
  <2>1. sdo_upload_initiate(f)
    BY <1>0, <1>6 DEF sdo_rx
  <2>2. PICK a : Replied(f, a) /\ Moved(f, a) /\ Fit(a) /\ Sound /\ Kept
    BY <1>0, <1>1, <1>6, <2>1, UploadBegins
  <2>3. Handled(f, a)
    BY <1>6, <2>2 DEF Handled
  <2> QED
    BY <1>0, <1>6, <2>2, <2>3 DEF f
<1>7. CASE f.k = "dseg"
  <2>1. sdo_download_segment(f)
    BY <1>0, <1>7 DEF sdo_rx
  <2>2. PICK a : /\ Replied(f, a) /\ Moved(f, a) /\ Fit(a) /\ Sound
                 /\ SegmentLoaded(f, a)
    BY <1>0, <1>1, <1>3, <1>7, <2>1, DownloadSegment
  <2>3. Handled(f, a)
    BY <1>7, <2>2 DEF Handled
  <2> QED
    BY <1>0, <1>7, <2>2, <2>3 DEF f
<1>8. CASE f.k = "useg"
  <2>1. sdo_upload_segment(f)
    BY <1>0, <1>8 DEF sdo_rx
  <2>2. PICK a : /\ Replied(f, a) /\ Moved(f, a) /\ Fit(a) /\ Sound /\ Kept
                 /\ SegmentSent(f, a)
    BY <1>0, <1>1, <1>8, <2>1, UploadSegment
  <2>3. Handled(f, a)
    BY <1>8, <2>2 DEF Handled
  <2> QED
    BY <1>0, <1>8, <2>2, <2>3 DEF f
<1> QED
  BY <1>0, <1>4, <1>5, <1>6, <1>7, <1>8 DEF Begins, Segs

\* The answers behind a request: one more, or the answer is lost.
AnswersAfter(a) ==
  /\ answers \in Seq(Frames) /\ answers' \in Seq(Frames)
  /\ Len(answers) \in Nat /\ Len(answers') \in Nat
  /\ \/ answers' = answers
     \/ /\ Len(answers') = Len(answers) + 1 /\ answers'[Len(answers) + 1] = a
        /\ \A i \in 1 .. Len(answers) : answers'[i] = answers[i]
  /\ (answers = <<>> <=> Len(answers) = 0) /\ (answers' = <<>> <=> Len(answers') = 0)

LEMMA EmptyLen ==
  ASSUME NEW S, NEW q \in Seq(S)
  PROVE  Len(q) \in Nat /\ (q = <<>> <=> Len(q) = 0)
<1>1. Len(q) \in Nat /\ (q # <<>> => Len(q) \in Nat \ {0}) /\ Len(<<>>) = 0
  BY EmptySeq, LenProperties
<1> QED
  BY <1>1

LEMMA AnswersGrow ==
  ASSUME SdoTypeOK, NEW a \in Frames, answers' \in Queued(answers, a)
  PROVE  AnswersAfter(a)
<1>1. answers \in Seq(Frames)
  BY DEF SdoTypeOK
<1>2. /\ answers' \in Seq(Frames) /\ Len(answers) \in Nat /\ Len(answers') \in Nat
      /\ \/ answers' = answers
         \/ /\ Len(answers') = Len(answers) + 1 /\ answers'[Len(answers) + 1] = a
            /\ \A i \in 1 .. Len(answers) : answers'[i] = answers[i]
  BY <1>1, QueuedFrame
<1>3. (answers = <<>> <=> Len(answers) = 0) /\ (answers' = <<>> <=> Len(answers') = 0)
  BY <1>1, <1>2, EmptyLen
<1> QED
  BY <1>1, <1>2, <1>3 DEF AnswersAfter

\* The shapes of the exchange, when the first request is served.
LEMMA ServeRestShape ==
  ASSUME SdoInv, Serve, plan' = plan
  PROVE  RestShape'
<1>0. TakenRequest /\ client' = client
  BY TakesRequest, ServeEffect
<1>1. answers \in Seq(Frames) /\ (answers = <<>> <=> Len(answers) = 0) /\ Len(answers) \in Nat
  BY EmptyLen DEF SdoInv, SdoTypeOK
<1> SUFFICES ASSUME Resting
             PROVE  /\ Len(answers') <= 1
                    /\ answers' # <<>> =>
                         \A i \in 1 .. Len(requests') : ~ (requests'[i].k # "abort")
                    /\ \A i, j \in 1 .. Len(requests') :
                         requests'[i].k # "abort" /\ requests'[j].k # "abort" => i = j
  BY <1>0 DEF RestShape, Resting, Live
<1>2. /\ Len(answers) <= 1
      /\ answers # <<>> => \A i \in 1 .. Len(requests) : ~ (requests[i].k # "abort")
      /\ \A i, j \in 1 .. Len(requests) :
           requests[i].k # "abort" /\ requests[j].k # "abort" => i = j
  BY DEF SdoInv, ExchangeInv, RestShape, Live
<1>3. CASE requests[1].k = "abort"
  <2>1. answers' = answers
    BY <1>3, ServeEffect
  <2>2. ASSUME NEW i \in 1 .. Len(requests'), NEW j \in 1 .. Len(requests'),
               requests'[i].k # "abort", requests'[j].k # "abort"
        PROVE  i = j
    <3>1. i + 1 = j + 1
      BY <1>0, <1>2, <2>2 DEF TakenRequest
    <3> QED
      BY <1>0, <3>1 DEF TakenRequest
  <2> QED
    BY <1>0, <1>2, <2>1, <2>2 DEF TakenRequest
<1>4. CASE requests[1].k # "abort"
  <2>1. PICK a : Handled(requests[1], a)
    BY <1>4, ServeEffect
  <2>2. AnswersAfter(a)
    BY <2>1, AnswersGrow DEF Handled, Replied, SdoInv
  <2>3. Len(answers) = 0
    BY <1>0, <1>1, <1>2, <1>4 DEF TakenRequest
  <2>4. Len(answers') <= 1
    BY <2>2, <2>3 DEF AnswersAfter
  <2>5. ASSUME NEW i \in 1 .. Len(requests') PROVE requests'[i].k = "abort"
    <3>1. i + 1 \in 1 .. Len(requests) /\ requests'[i] = requests[i + 1] /\ i + 1 # 1
      BY <1>0 DEF TakenRequest
    <3> QED
      BY <1>0, <1>2, <1>4, <3>1 DEF TakenRequest
  <2> QED
    BY <2>4, <2>5
<1> QED
  BY <1>3, <1>4

LEMMA BeginRequest ==
  ASSUME SdoTypeOK, client.op \in Begins
  PROVE  /\ Request(client).k = client.op /\ Request(client).obj = client.obj
         /\ Request(client) \in Frames
<1>0. client.obj \in Objects /\ client.val \in Seq(Bytes) /\ client.size \in Nat
  BY DEF SdoTypeOK
<1>1. CASE client.op \in {"dexp", "uinit"}
  <2>1. Request(client) = Frame(client.op, client.obj, 0, client.val, 0, TRUE)
    BY <1>1 DEF Request
  <2> QED
    BY <1>0, <1>1, <2>1 DEF Frame, Frames, Kinds
<1>2. CASE client.op = "dinit"
  <2>1. Request(client) = Frame("dinit", client.obj, 0, <<>>, client.size, FALSE)
    BY <1>2 DEF Request
  <2> QED
    BY <1>0, <1>2, <2>1 DEF Frame, Frames, Kinds
<1> QED
  BY <1>1, <1>2 DEF Begins

LEMMA ServeBeginShape ==
  ASSUME SdoInv, Serve, plan' = plan
  PROVE  BeginShape'
<1>0. TakenRequest /\ client' = client
  BY TakesRequest, ServeEffect
<1>00. answers \in Seq(Frames) /\ (answers = <<>> <=> Len(answers) = 0) /\ Len(answers) \in Nat
  BY EmptyLen DEF SdoInv, SdoTypeOK
<1> DEFINE own == Request(client)
           Live1(i) == requests'[i].k # "abort"
<1>01. own' = own
  BY <1>0
<1> HIDE DEF own
<1> SUFFICES ASSUME client.op \in Begins
             PROVE  /\ Len(answers') <= 2
                    /\ Len(answers') = 2 =>
                         OwnBegin(answers'[2]) /\ \A i \in 1 .. Len(requests') : ~ Live1(i)
                    /\ Len(answers') = 1 =>
                         /\ \A i \in 1 .. Len(requests') : Live1(i) => requests'[i] = own
                         /\ \A i, j \in 1 .. Len(requests') : Live1(i) /\ Live1(j) => i = j
                    /\ \A i, j \in 1 .. Len(requests') :
                         i < j /\ Live1(i) /\ Live1(j) => requests'[j] = own
                    /\ \A i, j, m \in 1 .. Len(requests') :
                         i < j /\ j < m => ~ (Live1(i) /\ Live1(j) /\ Live1(m))
  <2>1. BeginShape' =
          (client.op \in Begins =>
             /\ Len(answers') <= 2
             /\ Len(answers') = 2 =>
                  OwnBegin(answers'[2]) /\ \A i \in 1 .. Len(requests') : ~ Live1(i)
             /\ Len(answers') = 1 =>
                  /\ \A i \in 1 .. Len(requests') : Live1(i) => requests'[i] = own
                  /\ \A i, j \in 1 .. Len(requests') : Live1(i) /\ Live1(j) => i = j
             /\ \A i, j \in 1 .. Len(requests') :
                  i < j /\ Live1(i) /\ Live1(j) => requests'[j] = own
             /\ \A i, j, m \in 1 .. Len(requests') :
                  i < j /\ j < m => ~ (Live1(i) /\ Live1(j) /\ Live1(m)))
    BY <1>0, <1>01 DEF BeginShape, OwnBegin, Live, own
  <2> QED
    BY <2>1
<1>1. /\ Len(answers) <= 2
      /\ Len(answers) = 2 =>
           OwnBegin(answers[2]) /\ \A i \in 1 .. Len(requests) : requests[i].k = "abort"
      /\ Len(answers) = 1 =>
           /\ \A i \in 1 .. Len(requests) : requests[i].k # "abort" => requests[i] = own
           /\ \A i, j \in 1 .. Len(requests) :
                requests[i].k # "abort" /\ requests[j].k # "abort" => i = j
      /\ \A i, j \in 1 .. Len(requests) :
           i < j /\ requests[i].k # "abort" /\ requests[j].k # "abort" => requests[j] = own
      /\ \A i, j, m \in 1 .. Len(requests) :
           i < j /\ j < m => ~ (requests[i].k # "abort" /\ requests[j].k # "abort"
                                /\ requests[m].k # "abort")
  BY DEF SdoInv, ExchangeInv, BeginShape, Live, own
<1>2. /\ \A i, j \in 1 .. Len(requests') :
           i < j /\ Live1(i) /\ Live1(j) => requests'[j] = own
      /\ \A i, j, m \in 1 .. Len(requests') :
           i < j /\ j < m => ~ (Live1(i) /\ Live1(j) /\ Live1(m))
  <2>1. ASSUME NEW i \in 1 .. Len(requests'), NEW j \in 1 .. Len(requests'),
               i < j, Live1(i), Live1(j)
        PROVE  requests'[j] = own
    <3>1. /\ i + 1 \in 1 .. Len(requests) /\ requests'[i] = requests[i + 1]
          /\ j + 1 \in 1 .. Len(requests) /\ requests'[j] = requests[j + 1]
          /\ i + 1 < j + 1
      BY <1>0, <2>1 DEF TakenRequest
    <3> QED
      BY <1>1, <2>1, <3>1
  <2>2. ASSUME NEW i \in 1 .. Len(requests'), NEW j \in 1 .. Len(requests'),
               NEW m \in 1 .. Len(requests'), i < j, j < m
        PROVE  ~ (Live1(i) /\ Live1(j) /\ Live1(m))
    <3>0. i + 1 < j + 1 /\ j + 1 < m + 1
      BY <2>2
    <3>1. /\ i + 1 \in 1 .. Len(requests) /\ requests'[i] = requests[i + 1]
          /\ j + 1 \in 1 .. Len(requests) /\ requests'[j] = requests[j + 1]
          /\ m + 1 \in 1 .. Len(requests) /\ requests'[m] = requests[m + 1]
      BY <1>0 DEF TakenRequest
    <3> QED
      BY <1>1, <3>0, <3>1
  <2> QED
    BY <2>1, <2>2
<1>3. CASE requests[1].k = "abort"
  <2>1. answers' = answers
    BY <1>3, ServeEffect
  <2>2. ASSUME NEW i \in 1 .. Len(requests'), NEW j \in 1 .. Len(requests'),
               Live1(i), Live1(j), Len(answers) = 1
        PROVE  i = j
    <3>1. /\ i + 1 \in 1 .. Len(requests) /\ requests'[i] = requests[i + 1]
          /\ j + 1 \in 1 .. Len(requests) /\ requests'[j] = requests[j + 1]
      BY <1>0 DEF TakenRequest
    <3>2. i + 1 = j + 1
      BY <1>1, <2>2, <3>1
    <3> QED
      BY <1>0, <3>2 DEF TakenRequest
  <2>3. ASSUME NEW i \in 1 .. Len(requests'), Live1(i), Len(answers) = 1
        PROVE  requests'[i] = own
    BY <1>0, <1>1, <2>3 DEF TakenRequest
  <2>4. ASSUME NEW i \in 1 .. Len(requests'), Len(answers) = 2 PROVE ~ Live1(i)
    BY <1>0, <1>1, <2>4 DEF TakenRequest
  <2> QED
    BY <1>1, <1>2, <2>1, <2>2, <2>3, <2>4
<1>4. CASE requests[1].k # "abort"
  <2>1. PICK a : Handled(requests[1], a)
    BY <1>4, ServeEffect
  <2>2. AnswersAfter(a)
    BY <2>1, AnswersGrow DEF Handled, Replied, SdoInv
  <2>3. Len(answers) \in {0, 1}
    <3>1. Len(answers) # 2
      BY <1>0, <1>1, <1>4 DEF TakenRequest
    <3>2. Len(answers) <= 2
      BY <1>1
    <3>3. Len(answers) \in Nat
      BY <1>00
    <3>4. \A n \in Nat : n # 2 /\ n <= 2 => n \in {0, 1}
      OBVIOUS
    <3> QED
      BY <3>1, <3>2, <3>3, <3>4, Zenon
  <2>4. ASSUME NEW i \in 1 .. Len(requests'), Live1(i) PROVE requests'[i] = own
    <3>1. i + 1 \in 1 .. Len(requests) /\ requests'[i] = requests[i + 1] /\ 1 < i + 1
      BY <1>0 DEF TakenRequest
    <3> QED
      BY <1>0, <1>1, <1>4, <2>4, <3>1 DEF TakenRequest
  <2>5. ASSUME NEW i \in 1 .. Len(requests'), NEW j \in 1 .. Len(requests'),
               Live1(i), Live1(j)
        PROVE  i = j
    <3>1. /\ i + 1 \in 1 .. Len(requests) /\ requests'[i] = requests[i + 1]
          /\ j + 1 \in 1 .. Len(requests) /\ requests'[j] = requests[j + 1]
          /\ 1 < i + 1 /\ 1 < j + 1
      BY <1>0 DEF TakenRequest
    <3>2. ~ (i + 1 < j + 1) /\ ~ (j + 1 < i + 1)
      BY <1>0, <1>1, <1>4, <2>5, <3>1 DEF TakenRequest
    <3> QED
      BY <1>0, <3>1, <3>2 DEF TakenRequest
  <2>6. CASE Len(answers) = 0
    <3>1. Len(answers') \in {0, 1}
      BY <2>2, <2>6 DEF AnswersAfter
    <3>2. \A n \in {0, 1} : n <= 2 /\ n # 2
      OBVIOUS
    <3>3. Len(answers') <= 2 /\ Len(answers') # 2
      BY <3>1, <3>2, Zenon
    <3> QED
      BY <1>2, <2>4, <2>5, <3>3
  <2>7. CASE Len(answers) = 1
    <3>1. Len(answers') \in {1, 2} /\ (Len(answers') = 2 => answers'[2] = a)
      BY <2>2, <2>7 DEF AnswersAfter
    <3>2. requests[1] = own
      BY <1>0, <1>1, <1>4, <2>7 DEF TakenRequest
    <3>3. OwnBegin(a)
      BY <2>1, <3>2, BeginRequest DEF Handled, Replied, OwnBegin, own, SdoInv, Begins
    <3>4. ASSUME NEW i \in 1 .. Len(requests') PROVE ~ Live1(i)
      <4>1. i + 1 \in 1 .. Len(requests) /\ requests'[i] = requests[i + 1] /\ i + 1 # 1
        BY <1>0 DEF TakenRequest
      <4> QED
        BY <1>0, <1>1, <1>4, <2>7, <4>1 DEF TakenRequest
    <3>5. CASE Len(answers') = 1
      BY <1>2, <2>4, <2>5, <3>5
    <3>6. CASE Len(answers') = 2
      <4>1. OwnBegin(answers'[2])
        BY <3>1, <3>3, <3>6
      <4> QED
        BY <1>2, <3>4, <3>6, <4>1
    <3> QED
      BY <3>1, <3>5, <3>6
  <2> QED
    BY <2>3, <2>6, <2>7
<1> QED
  BY <1>3, <1>4

LEMMA ServeSegShape ==
  ASSUME SdoInv, Serve, plan' = plan
  PROVE  SegShape'
<1>0. TakenRequest /\ client' = client /\ Len(requests) \in Nat \ {0}
  BY TakesRequest, ServeEffect DEF TakenRequest
<1>00. answers \in Seq(Frames) /\ (answers = <<>> <=> Len(answers) = 0) /\ Len(answers) \in Nat
  BY EmptyLen DEF SdoInv, SdoTypeOK
<1>000. requests' = <<>> <=> Len(requests') = 0
  BY <1>0, EmptyLen DEF TakenRequest
<1> DEFINE own == Request(client)
           op  == client.op
           B   == BeginOf
           F   == AtFirst
<1>01. own' = own /\ B' = B /\ F' = F
  BY <1>0 DEF BeginOf, AtFirst
<1> DEFINE Goal ==
      /\ \A i \in 1 .. Len(requests') :
           /\ requests'[i].k \in {"abort", B, op}
           /\ requests'[i].k = op =>
                /\ i = Len(requests') /\ requests'[i] = own
                /\ answers' # <<>> => F
           /\ requests'[i].k = B =>
                answers' = <<>> /\ requests'[i].obj = client.obj /\ F
      /\ \A i, j \in 1 .. Len(requests') :
           requests'[i].k = B /\ requests'[j].k = B => i = j
      /\ Len(answers') <= 2
      /\ Len(answers') = 2 => requests' = <<>> /\ answers'[2].k \in {op, "abort"}
      /\ answers' # <<>> /\ answers'[1].k = op =>
           Len(answers') = 1 /\ requests' = <<>>
<1> SUFFICES ASSUME op \in Segs PROVE Goal
  BY <1>0, <1>01 DEF SegShape
<1>1. /\ (\A i \in 1 .. Len(requests) :
             /\ requests[i].k \in {"abort", B, op}
             /\ requests[i].k = op =>
                  /\ i = Len(requests) /\ requests[i] = own
                  /\ answers # <<>> => F
             /\ requests[i].k = B =>
                  answers = <<>> /\ requests[i].obj = client.obj /\ F)
      /\ (\A i, j \in 1 .. Len(requests) :
             requests[i].k = B /\ requests[j].k = B => i = j)
      /\ Len(answers) <= 2
      /\ (Len(answers) = 2 => requests = <<>> /\ answers[2].k \in {op, "abort"})
      /\ (answers # <<>> /\ answers[1].k = op =>
             Len(answers) = 1 /\ requests = <<>>)
  BY DEF SdoInv, ExchangeInv, SegShape
<1>2. B # op /\ B # "abort" /\ op # "abort" /\ B \in {"dinit", "uinit"}
  BY DEF BeginOf, Segs
<1>3. requests # <<>> /\ 1 \in 1 .. Len(requests)
  BY TakesRequest DEF TakenRequest
<1> HIDE DEF own, B, F
<1>4. ASSUME NEW i \in 1 .. Len(requests'), NEW j \in 1 .. Len(requests'),
             requests'[i].k = B, requests'[j].k = B
      PROVE  i = j
  <2>1. /\ i + 1 \in 1 .. Len(requests) /\ requests'[i] = requests[i + 1]
        /\ j + 1 \in 1 .. Len(requests) /\ requests'[j] = requests[j + 1]
    BY <1>0 DEF TakenRequest
  <2>2. i + 1 = j + 1
    BY <1>1, <1>4, <2>1
  <2> QED
    BY <1>0, <2>2 DEF TakenRequest
<1>5. ASSUME NEW i \in 1 .. Len(requests')
      PROVE  /\ requests'[i].k \in {"abort", B, op}
             /\ requests'[i].k = op => i = Len(requests') /\ requests'[i] = own
                                       /\ (answers # <<>> => F)
             /\ requests'[i].k = B =>
                  answers = <<>> /\ requests'[i].obj = client.obj /\ F
  <2>1. i + 1 \in 1 .. Len(requests) /\ requests'[i] = requests[i + 1]
    BY <1>0 DEF TakenRequest
  <2>2. i + 1 = Len(requests) => i = Len(requests')
    BY <1>0, <2>1 DEF TakenRequest
  <2> QED
    BY <1>1, <2>1, <2>2
<1>6. CASE requests[1].k = "abort"
  <2>1. answers' = answers
    BY <1>6, ServeEffect
  <2> QED
    BY <1>1, <1>3, <1>4, <1>5, <2>1
<1>7. CASE requests[1].k = B
  <2>1. PICK a : Handled(requests[1], a)
    BY <1>2, <1>7, ServeEffect
  <2>2. AnswersAfter(a)
    BY <2>1, AnswersGrow DEF Handled, Replied, SdoInv
  <2>3. answers = <<>> /\ F
    BY <1>1, <1>3, <1>7
  <2>4. Len(answers') \in {0, 1} /\ (Len(answers') = 1 => answers'[1] = a)
    BY <2>2, <2>3 DEF AnswersAfter
  <2>5. a.k # op
    BY <1>2, <1>7, <2>1 DEF Handled, Replied, Segs
  <2>6. ASSUME NEW i \in 1 .. Len(requests') PROVE requests'[i].k # B
    <3>1. i + 1 \in 1 .. Len(requests) /\ requests'[i] = requests[i + 1] /\ i + 1 # 1
      BY <1>0 DEF TakenRequest
    <3> QED
      BY <1>1, <1>3, <1>7, <3>1
  <2>7. Len(answers') = 1 \/ answers' = <<>>
    BY <2>2, <2>4 DEF AnswersAfter
  <2> QED
    <3>1. /\ Len(answers') <= 2 /\ Len(answers') # 2
          /\ answers' # <<>> => answers'[1].k # op
      <4>1. Len(answers') <= 2 /\ Len(answers') # 2
        BY <2>4
      <4> QED
        BY <2>4, <2>5, <2>7, <4>1, Zenon
    <3>2. \A i \in 1 .. Len(requests') :
            /\ requests'[i].k \in {"abort", B, op} /\ requests'[i].k # B
            /\ requests'[i].k = op => i = Len(requests') /\ requests'[i] = own
      BY <1>5, <2>6
    <3> QED
      BY <2>3, <3>1, <3>2
<1>8. CASE requests[1].k = op
  <2>1. PICK a : Handled(requests[1], a)
    BY <1>2, <1>8, ServeEffect
  <2>2. AnswersAfter(a)
    BY <2>1, AnswersGrow DEF Handled, Replied, SdoInv
  <2>3. 1 = Len(requests)
    BY <1>1, <1>3, <1>8
  <2>4. Len(requests') = 0
    BY <1>0, <2>3 DEF TakenRequest
  <2>5. requests' = <<>> /\ \A i \in 1 .. Len(requests') : FALSE
    BY <1>000, <2>4
  <2>6. Len(answers) # 2 /\ (answers # <<>> => answers[1].k # op)
    BY <1>1, <1>3
  <2>7. Len(answers) \in {0, 1}
    <3>1. Len(answers) \in Nat /\ Len(answers) <= 2
      BY <1>00, <1>1
    <3>2. \A n \in Nat : n # 2 /\ n <= 2 => n \in {0, 1}
      OBVIOUS
    <3> QED
      BY <2>6, <3>1, <3>2, Zenon
  <2>8. a.k \in {op, "abort"}
    BY <1>8, <2>1 DEF Handled, Replied
  <2>9. CASE Len(answers) = 0
    <3>1. Len(answers') \in {0, 1}
      BY <2>2, <2>9 DEF AnswersAfter
    <3>2. Len(answers') = 0 => answers' = <<>>
      BY <2>2 DEF AnswersAfter
    <3>3. /\ Len(answers') <= 2 /\ Len(answers') # 2
          /\ answers' # <<>> => Len(answers') = 1
      <4>1. Len(answers') <= 2 /\ Len(answers') # 2
        <5>1. \A n \in {0, 1} : n <= 2 /\ n # 2
          OBVIOUS
        <5> QED
          BY <3>1, <5>1, Zenon
      <4> QED
        BY <3>1, <3>2, <4>1, Zenon
    <3> HIDE DEF op
    <3> QED
      BY <2>5, <3>3
  <2>10. CASE Len(answers) = 1
    <3>1. /\ Len(answers') \in {1, 2} /\ (Len(answers') = 2 => answers'[2] = a)
          /\ answers'[1] = answers[1]
      BY <2>2, <2>10 DEF AnswersAfter
    <3>2. answers # <<>>
      BY <1>00, <2>10
    <3>3. answers'[1].k # op
      BY <2>6, <3>1, <3>2
    <3>4. Len(answers') <= 2 /\ (Len(answers') = 2 => answers'[2].k \in {op, "abort"})
      <4>1. Len(answers') <= 2
        <5>1. \A n \in {1, 2} : n <= 2
          OBVIOUS
        <5> QED
          BY <3>1, <5>1, Zenon
      <4> QED
        BY <2>8, <3>1, <4>1, Zenon
    <3> HIDE DEF op
    <3> QED
      BY <2>5, <3>3, <3>4
  <2> QED
    BY <2>7, <2>9, <2>10
<1> QED
  BY <1>1, <1>3, <1>6, <1>7, <1>8

\* The transfers, when the first request is served.
LEMMA ServeLoadInv ==
  ASSUME SdoInv, Serve, plan' = plan
  PROVE  LoadInv'
<1>0. TakenRequest /\ client' = client /\ Sound
  BY TakesRequest, ServeEffect
<1>01. Done' = Done
  BY <1>0 DEF Done
<1> DEFINE f == requests[1]
           Goal ==
      /\ sdo'.state = "download" =>
           /\ sdo'.obj = client.obj /\ Agree(sdo'.buf, client.val, sdo'.pos)
           /\ \/ sdo'.pos = client.pos /\ sdo'.toggle = client.toggle
              \/ sdo'.pos = Done /\ sdo'.toggle = 1 - client.toggle
      /\ answers' # <<>> /\ answers'[1].k = "dseg" =>
           /\ sdo'.state = "download" => sdo'.pos = Done /\ sdo'.toggle = 1 - client.toggle
           /\ Done = Len(client.val) => stored'
<1> SUFFICES ASSUME client.op = "dseg" PROVE Goal
  BY <1>0, <1>01 DEF LoadInv, Downloading
<1>1. /\ Downloading =>
           /\ sdo.obj = client.obj /\ Agree(sdo.buf, client.val, sdo.pos)
           /\ \/ sdo.pos = client.pos /\ sdo.toggle = client.toggle
              \/ sdo.pos = Done /\ sdo.toggle = 1 - client.toggle
      /\ answers # <<>> /\ answers[1].k = "dseg" => (Done = Len(client.val) => stored)
  BY DEF SdoInv, TransferInv, LoadInv
<1>2. /\ f.k \in {"abort", "dinit", "dseg"}
      /\ f.k = "dseg" => f = Request(client)
      /\ f.k = "dinit" => answers = <<>> /\ f.obj = client.obj /\ AtFirst
      /\ answers # <<>> => answers[1].k # "dseg"
  <2>1. 1 \in 1 .. Len(requests) /\ requests # <<>>
    BY TakesRequest DEF TakenRequest
  <2> QED
    BY <2>1 DEF SdoInv, ExchangeInv, SegShape, Segs, BeginOf
<1>3. CASE f.k = "abort"
  BY <1>2, <1>3, ServeEffect
<1>4. CASE f.k # "abort"
  <2>1. PICK a : Handled(f, a)
    BY <1>4, ServeEffect
  <2>2. AnswersAfter(a)
    BY <2>1, AnswersGrow DEF Handled, Replied, SdoInv
  <2>3. answers' # <<>> /\ answers'[1].k = "dseg" => a.k = "dseg"
    <3>1. CASE answers = <<>>
      <4>1. answers' # <<>> => answers'[1] = a
        BY <2>2, <3>1 DEF AnswersAfter
      <4> QED
        BY <4>1
    <3>2. CASE answers # <<>>
      <4>1. answers'[1] = answers[1]
        <5>1. Len(answers) \in Nat \ {0}
          BY <2>2, <3>2 DEF AnswersAfter
        <5>2. 1 \in 1 .. Len(answers)
          BY <5>1
        <5> QED
          BY <2>2, <5>2 DEF AnswersAfter
      <4> QED
        BY <1>2, <3>2, <4>1
    <3> QED
      BY <3>1, <3>2
  <2>4. CASE f.k = "dinit"
    <3>1. a.k # "dseg"
      BY <2>1, <2>4 DEF Handled, Replied
    <3>2. sdo'.state = "download" =>
            sdo'.pos = 0 /\ sdo'.toggle = 0 /\ sdo'.obj = client.obj
      BY <1>2, <2>1, <2>4 DEF Handled, Moved, Begins
    <3>3. client.pos = 0 /\ client.toggle = 0
      BY <1>2, <2>4 DEF AtFirst
    <3>4. Agree(sdo'.buf, client.val, 0)
      <4>1. sdo'.buf \in Seq(Bytes) /\ client.val \in Seq(Bytes)
        BY <1>0 DEF Sound, Servers, SdoInv, SdoTypeOK
      <4>2. Len(sdo'.buf) \in Nat /\ Len(client.val) \in Nat
        BY <4>1, LenProperties
      <4> QED
        BY <4>2 DEF Agree
    <3> QED
      BY <2>3, <3>1, <3>2, <3>3, <3>4
  <2>5. CASE f.k = "dseg"
    <3>1. SegmentLoaded(f, a)
      BY <2>1, <2>5 DEF Handled
    <3>2. /\ f.toggle = client.toggle
          /\ Len(f.data) \in Nat /\ Done = client.pos + Len(f.data)
          /\ Done \in Nat /\ Done <= Len(client.val)
          /\ (f.last <=> Done = Len(client.val))
          /\ \A i \in 1 .. Len(f.data) : f.data[i] = client.val[client.pos + i]
      BY <1>2, <2>5, OwnSegment DEF SdoInv
    <3>3. client.toggle \in {0, 1} /\ sdo.toggle \in {0, 1} /\ client.pos \in Nat
      BY DEF SdoInv, SdoTypeOK
    <3>4. ASSUME sdo'.state = "download"
          PROVE  /\ sdo'.obj = client.obj /\ sdo'.pos = Done
                 /\ sdo'.toggle = 1 - client.toggle
                 /\ Agree(sdo'.buf, client.val, sdo'.pos)
      <4>1. /\ Downloading /\ f.toggle = sdo.toggle
            /\ sdo'.obj = sdo.obj /\ sdo'.toggle = 1 - sdo.toggle
            /\ sdo'.pos = sdo.pos + Len(f.data) /\ sdo'.pos <= Len(sdo'.buf)
            /\ \A j \in 1 .. sdo.pos : sdo'.buf[j] = sdo.buf[j]
            /\ \A j \in 1 .. Len(f.data) : sdo'.buf[sdo.pos + j] = f.data[j]
        BY <3>1, <3>4 DEF SegmentLoaded
      <4>2. /\ sdo.obj = client.obj /\ Agree(sdo.buf, client.val, sdo.pos)
            /\ sdo.pos = client.pos
        BY <1>1, <3>2, <3>3, <4>1
      <4>3. sdo'.pos = Done /\ sdo'.toggle = 1 - client.toggle /\ sdo'.obj = client.obj
        BY <3>2, <4>1, <4>2
      <4>4. ASSUME NEW j \in 1 .. Done PROVE sdo'.buf[j] = client.val[j]
        <5>1. CASE j <= client.pos
          <6>1. j \in 1 .. sdo.pos
            BY <3>3, <4>2, <5>1
          <6> QED
            BY <4>1, <4>2, <6>1 DEF Agree
        <5>2. CASE ~ (j <= client.pos)
          <6>1. j - client.pos \in 1 .. Len(f.data) /\ client.pos + (j - client.pos) = j
            BY <3>2, <3>3, <5>2
          <6>2. sdo'.buf[client.pos + (j - client.pos)] = f.data[j - client.pos]
            BY <4>1, <4>2, <6>1
          <6>3. f.data[j - client.pos] = client.val[client.pos + (j - client.pos)]
            BY <3>2, <6>1
          <6> QED
            BY <6>1, <6>2, <6>3
        <5> QED
          BY <5>1, <5>2
      <4>5. Agree(sdo'.buf, client.val, Done)
        BY <3>2, <4>1, <4>3, <4>4 DEF Agree
      <4> QED
        BY <4>3, <4>5
    <3>5. a.k = "dseg" /\ Done = Len(client.val) => stored'
      BY <3>1, <3>2 DEF SegmentLoaded
    <3> QED
      BY <2>3, <3>4, <3>5
  <2> QED
    BY <1>2, <1>4, <2>4, <2>5
<1> QED
  BY <1>3, <1>4

LEMMA ServeLeftInv ==
  ASSUME SdoInv, Serve, plan' = plan
  PROVE  LeftInv'
<1>0. TakenRequest /\ client' = client /\ Sound
  BY TakesRequest, ServeEffect
<1>01. \A o : Written(o)' = Written(o)
  BY DEF Written
<1> SUFFICES ASSUME client.op # "dseg", NEW i \in 1 .. Len(requests'),
                    requests'[i].k = "dseg"
             PROVE  /\ requests'[i].toggle = 0
                    /\ \E v \in Written(requests'[i].obj) :
                         /\ Agree(requests'[i].data, v, Len(requests'[i].data))
                         /\ requests'[i].last => Len(requests'[i].data) = Len(v)
                    /\ sdo'.state # "download"
  BY <1>0, <1>01 DEF LeftInv, Downloading
<1>1. /\ i + 1 \in 1 .. Len(requests) /\ requests'[i] = requests[i + 1] /\ 1 < i + 1
      /\ 1 \in 1 .. Len(requests)
  BY <1>0 DEF TakenRequest
<1>2. /\ requests'[i].toggle = 0
      /\ \E v \in Written(requests'[i].obj) :
           /\ Agree(requests'[i].data, v, Len(requests'[i].data))
           /\ requests'[i].last => Len(requests'[i].data) = Len(v)
  BY <1>1 DEF SdoInv, TransferInv, LeftInv
<1>3. requests[1].k = "abort"
  <2>1. SUFFICES ASSUME requests[1].k # "abort" PROVE FALSE
    OBVIOUS
  <2>2. CASE Resting
    BY <1>1, <2>1, <2>2 DEF SdoInv, ExchangeInv, RestShape, Live
  <2>3. CASE client.op \in Begins
    <3>1. requests[i + 1] = Request(client)
      BY <1>1, <2>1, <2>3 DEF SdoInv, ExchangeInv, BeginShape, Live
    <3> QED
      BY <1>1, <2>3, <3>1, BeginRequest DEF Begins, SdoInv
  <2>4. CASE client.op \in Segs
    BY <1>1, <2>4 DEF SdoInv, ExchangeInv, SegShape, Segs, BeginOf
  <2> QED
    BY <2>2, <2>3, <2>4 DEF SdoInv, SdoTypeOK, Resting, Begins, Segs
<1>4. sdo'.state = "idle"
  BY <1>3, ServeEffect
<1> QED
  BY <1>2, <1>4

LEMMA ServeBegunInv ==
  ASSUME SdoInv, Serve, plan' = plan
  PROVE  BegunInv'
<1>0. TakenRequest /\ client' = client /\ Sound
  BY TakesRequest, ServeEffect
<1> DEFINE f == requests[1]
           l == answers'[Len(answers')]
           Goal ==
      /\ l.k = "dok" /\ sdo'.state = "download" =>
           /\ sdo'.pos = 0 /\ sdo'.toggle = 0
           /\ \/ sdo'.obj = l.obj
              \/ Len(answers') = 1 /\ client.op = "dinit" /\ sdo'.obj = client.obj
      /\ l.k = "uinit" /\ sdo'.state = "upload" =>
           /\ sdo'.pos = 0 /\ sdo'.toggle = 0 /\ Held'
           /\ \/ sdo'.obj = l.obj
              \/ Len(answers') = 1 /\ client.op = "uinit" /\ sdo'.obj = client.obj
      /\ Len(answers') = 2 =>
           /\ sdo'.state = "download" => l.k = "dok"
           /\ sdo'.state = "upload" => l.k = "uinit"
<1> SUFFICES ASSUME client.op \notin Segs, answers' # <<>> PROVE Goal
  BY <1>0 DEF BegunInv, Downloading, Uploading, Begun, LastAnswer
<1>1. CASE f.k = "abort"
  BY <1>1, ServeEffect
<1>2. CASE f.k # "abort"
  <2>1. PICK a : Handled(f, a)
    BY <1>2, ServeEffect
  <2>2. AnswersAfter(a)
    BY <2>1, AnswersGrow DEF Handled, Replied, SdoInv
  <2>3. /\ f.k \in {"dexp", "dinit"} => a.k \in {"dok", "abort"}
        /\ f.k = "uinit" => a.k \in {"uinit", "uexp", "abort"}
        /\ f.k \in {"dseg", "useg"} => a.k \in {f.k, "abort"}
        /\ f.k \in {"dexp", "dinit", "uinit"} /\ a.k # "abort" => a.obj = f.obj
        /\ f.k = "dexp" \/ a.k \in {"uexp", "abort"} => sdo'.state = "idle"
        /\ f.k \in {"dinit", "dseg"} => sdo'.state # "upload"
        /\ f.k \in {"uinit", "useg"} => sdo'.state # "download"
        /\ f.k \in {"dexp", "dinit", "uinit"} /\ sdo'.state # "idle" =>
             /\ sdo'.pos = 0 /\ sdo'.toggle = 0 /\ sdo'.obj = f.obj
             /\ sdo'.state = "upload" => Held'
        /\ f.k \in {"dexp", "dinit", "uinit", "dseg", "useg"}
    <3>1. f.k \in Begins \cup Segs
      BY <1>0, <1>2 DEF TakenRequest
    <3> QED
      BY <2>1, <3>1 DEF Handled, Replied, Moved, Begins, Segs
  <2>4. answers # <<>> => /\ client.op \in Begins /\ Len(answers) = 1
                          /\ f.k = client.op /\ f.obj = client.obj
    <3> SUFFICES ASSUME answers # <<>>
                 PROVE  /\ client.op \in Begins /\ Len(answers) = 1
                        /\ f.k = client.op /\ f.obj = client.obj
      OBVIOUS
    <3>1. 1 \in 1 .. Len(requests)
      BY <1>0 DEF TakenRequest
    <3>2. ~ Resting
      BY <1>2, <3>1 DEF SdoInv, ExchangeInv, RestShape, Live
    <3>3. client.op \in Begins
      BY <3>2 DEF SdoInv, SdoTypeOK, Resting, Begins, Segs
    <3>4. Len(answers) # 2 /\ Len(answers) <= 2
      BY <1>2, <3>1, <3>3 DEF SdoInv, ExchangeInv, BeginShape, Live
    <3>5. Len(answers) = 1
      <4>1. Len(answers) \in Nat \ {0}
        BY <2>2 DEF AnswersAfter
      <4>2. \A n \in Nat \ {0} : n # 2 /\ n <= 2 => n = 1
        OBVIOUS
      <4> QED
        BY <3>4, <4>1, <4>2, Zenon
    <3>6. f = Request(client)
      BY <1>2, <3>1, <3>3, <3>5 DEF SdoInv, ExchangeInv, BeginShape, Live
    <3> QED
      BY <3>3, <3>5, <3>6, BeginRequest DEF SdoInv
  <2>5. CASE answers' = answers
    <3>1. /\ client.op \in {"dexp", "dinit", "uinit"} /\ Len(answers') = 1
          /\ f.k = client.op /\ f.obj = client.obj
      BY <2>4, <2>5 DEF Begins
    <3> HIDE DEF f, l
    <3> QED
      BY <2>3, <3>1
  <2>6. CASE /\ Len(answers') = Len(answers) + 1
             /\ answers'[Len(answers) + 1] = a
    <3>1. l = a
      BY <2>6
    <3>2. Len(answers') = 2 => f.k \in {"dexp", "dinit", "uinit"}
      <4>1. Len(answers') = 2 => Len(answers) # 0
        BY <2>2, <2>6 DEF AnswersAfter
      <4>2. Len(answers) # 0 => answers # <<>>
        BY <2>2 DEF AnswersAfter
      <4> QED
        BY <2>4, <4>1, <4>2 DEF Begins
    <3> HIDE DEF f, l
    <3> QED
      BY <2>3, <3>1, <3>2
  <2> QED
    BY <2>2, <2>5, <2>6 DEF AnswersAfter
<1> QED
  BY <1>1, <1>2

(* What the client has of a snapshot grows by a segment of it.             *)
LEMMA SnapshotGrows ==
  ASSUME NEW b \in Seq(Bytes), NEW v \in Seq(Bytes), Agree(b, v, Len(v)),
         NEW n \in Nat, Len(v) + n <= Len(b),
         NEW d, d = SubSeq(b, Len(v) + 1, Len(v) + n)
  PROVE  /\ Len(v \o d) = Len(v) + n /\ v \o d \in Seq(Bytes)
         /\ v \o d = SubSeq(b, 1, Len(v) + n)
         /\ Agree(b, v \o d, Len(v \o d))
<1>0. Len(v) \in Nat
  BY LenProperties
<1>1. d \in Seq(Bytes) /\ Len(d) = n /\ \A i \in 1 .. n : d[i] = b[Len(v) + i]
  BY <1>0, PartOf
<1> DEFINE g == v \o d
<1>2. /\ g \in Seq(Bytes) /\ Len(g) = Len(v) + Len(d)
      /\ \A i \in 1 .. Len(v) + Len(d) :
           g[i] = IF i <= Len(v) THEN v[i] ELSE d[i - Len(v)]
  BY <1>1, ConcatProperties
<1> HIDE DEF g
<1>3. ASSUME NEW i \in 1 .. Len(v) + n PROVE g[i] = b[i]
  <2>1. CASE i <= Len(v)
    <3>1. i \in 1 .. Len(v)
      BY <1>0, <2>1
    <3>2. g[i] = v[i]
      BY <1>1, <1>2, <2>1
    <3> QED
      BY <3>1, <3>2 DEF Agree
  <2>2. CASE ~ (i <= Len(v))
    <3>1. i - Len(v) \in 1 .. n /\ Len(v) + (i - Len(v)) = i
      BY <1>0, <2>2
    <3>2. g[i] = d[i - Len(v)]
      BY <1>1, <1>2, <2>2
    <3>3. d[i - Len(v)] = b[Len(v) + (i - Len(v))]
      BY <1>1, <3>1
    <3> QED
      BY <3>1, <3>2, <3>3
  <2> QED
    BY <2>1, <2>2
<1>4. Len(g) = Len(v) + n
  BY <1>1, <1>2
<1>5. Agree(b, g, Len(g))
  <2>1. Len(g) <= Len(g)
    BY <1>0, <1>4
  <2> QED
    BY <1>3, <1>4, <2>1 DEF Agree
<1>6. g = SubSeq(b, 1, Len(v) + n)
  <2> DEFINE e == Len(v) + n
             u == SubSeq(b, 0 + 1, 0 + e)
  <2>1. e \in Nat /\ 0 + e <= Len(b) /\ 0 \in Nat /\ 0 + e = e /\ 0 + 1 = 1
    BY <1>0
  <2> HIDE DEF e
  <2>2. u \in Seq(Bytes) /\ Len(u) = e /\ \A i \in 1 .. e : u[i] = b[0 + i]
    BY <2>1, PartOf
  <2>3. \A i \in 1 .. e : u[i] = b[i]
    BY <2>1, <2>2
  <2>4. u = SubSeq(b, 1, e)
    BY <2>1
  <2> HIDE DEF u
  <2>5. Len(g) = e /\ \A i \in 1 .. e : g[i] = b[i]
    BY <1>3, <1>4 DEF e
  <2>6. g = u
    BY <1>2, <2>2, <2>3, <2>5, SeqEqual
  <2> QED
    BY <2>4, <2>6 DEF e
<1> QED
  BY <1>2, <1>4, <1>5, <1>6 DEF g

LEMMA ServeReadInv ==
  ASSUME SdoInv, Serve, plan' = plan
  PROVE  ReadInv'
<1>0. TakenRequest /\ client' = client /\ Sound
  BY TakesRequest, ServeEffect
<1> DEFINE f == requests[1]
           v == client.val
           g == v \o answers'[1].data
           Goal ==
      /\ sdo'.state = "upload" =>
           /\ sdo'.obj = client.obj /\ Held' /\ Len(v) <= sdo'.len
           /\ Agree(sdo'.buf, v, Len(v))
           /\ \/ sdo'.pos = Len(v) /\ sdo'.toggle = client.toggle
              \/ sdo'.toggle = 1 - client.toggle
      /\ answers' # <<>> /\ answers'[1].k = "useg" =>
           /\ answers'[1].last /\ client.obj = "text" => g \in held' /\ ExpBytes < Len(g)
           /\ ~ answers'[1].last /\ sdo'.state = "upload" =>
                /\ sdo'.pos = Len(g) /\ sdo'.toggle = 1 - client.toggle
                /\ Agree(sdo'.buf, g, Len(g))
<1> SUFFICES ASSUME client.op = "useg" PROVE Goal
  BY <1>0 DEF ReadInv, Uploading, Got
<1>1. Uploading =>
           /\ sdo.obj = client.obj /\ Held /\ Len(v) <= sdo.len
           /\ Agree(sdo.buf, v, Len(v))
           /\ \/ sdo.pos = Len(v) /\ sdo.toggle = client.toggle
              \/ sdo.toggle = 1 - client.toggle
  BY DEF SdoInv, TransferInv, ReadInv
<1>2. /\ f.k \in {"abort", "uinit", "useg"}
      /\ f.k = "useg" => f = Request(client)
      /\ f.k = "uinit" => answers = <<>> /\ f.obj = client.obj /\ AtFirst
      /\ answers # <<>> => answers[1].k # "useg"
  <2>1. 1 \in 1 .. Len(requests) /\ requests # <<>>
    BY TakesRequest DEF TakenRequest
  <2> QED
    BY <2>1 DEF SdoInv, ExchangeInv, SegShape, Segs, BeginOf
<1>3. CASE f.k = "abort"
  BY <1>2, <1>3, ServeEffect
<1>4. CASE f.k # "abort"
  <2>1. PICK a : Handled(f, a)
    BY <1>4, ServeEffect
  <2>2. AnswersAfter(a)
    BY <2>1, AnswersGrow DEF Handled, Replied, SdoInv
  <2>3. answers' # <<>> /\ answers'[1].k = "useg" => answers'[1] = a
    <3>1. CASE answers = <<>>
      BY <2>2, <3>1 DEF AnswersAfter
    <3>2. CASE answers # <<>>
      <4>1. answers'[1] = answers[1]
        <5>1. Len(answers) \in Nat \ {0}
          BY <2>2, <3>2 DEF AnswersAfter
        <5>2. 1 \in 1 .. Len(answers)
          BY <5>1
        <5> QED
          BY <2>2, <5>2 DEF AnswersAfter
      <4> QED
        BY <1>2, <3>2, <4>1
    <3> QED
      BY <3>1, <3>2
  <2>4. CASE f.k = "uinit"
    <3>1. a.k # "useg"
      BY <2>1, <2>4 DEF Handled, Replied
    <3>2. sdo'.state = "upload" =>
            sdo'.pos = 0 /\ sdo'.toggle = 0 /\ sdo'.obj = client.obj /\ Held'
      BY <1>2, <2>1, <2>4 DEF Handled, Moved, Begins
    <3>3. v = <<>> /\ client.toggle = 0
      BY <1>2, <2>4 DEF AtFirst
    <3>4. Len(v) = 0 /\ Len(v) <= sdo'.len /\ Agree(sdo'.buf, v, Len(v))
      <4>1. sdo'.buf \in Seq(Bytes) /\ v \in Seq(Bytes) /\ sdo'.len \in 0 .. BufBytes
        BY <1>0 DEF Sound, Servers, SdoInv, SdoTypeOK
      <4>2. Len(sdo'.buf) \in Nat /\ Len(v) = 0 /\ 0 <= sdo'.len
        BY <3>3, <4>1, LenProperties, Sizes
      <4> QED
        BY <4>2 DEF Agree
    <3> QED
      BY <2>3, <3>1, <3>2, <3>3, <3>4
  <2>5. CASE f.k = "useg"
    <3>1. SegmentSent(f, a) /\ held' = held /\ (a.k \in {"useg", "abort"})
          /\ (a.k = "abort" => sdo'.state = "idle")
      BY <2>1, <2>5 DEF Handled, Kept, Replied, Moved, Segs
    <3>2. f.toggle = client.toggle
      <4>1. Request(client) = Frame("useg", client.obj, client.toggle, <<>>, 0, FALSE)
        BY DEF Request
      <4> QED
        BY <1>2, <2>5, <4>1 DEF Frame
    <3>3. /\ client.toggle \in {0, 1} /\ sdo.toggle \in {0, 1} /\ v \in Seq(Bytes)
          /\ sdo.buf \in Seq(Bytes) /\ sdo \in Servers /\ Len(v) \in Nat
      BY LenProperties DEF SdoInv, SdoTypeOK, Servers
    <3>4. CASE a.k = "useg"
      <4> DEFINE n == Least(SegBytes, sdo.len - sdo.pos)
      <4>1. /\ Uploading /\ f.toggle = sdo.toggle
            /\ n \in Nat /\ sdo.pos + n <= sdo.len
            /\ a.data = SubSeq(sdo.buf, sdo.pos + 1, sdo.pos + n)
            /\ a.last => sdo.pos + n = sdo.len /\ sdo'.state = "idle"
            /\ ~ a.last => sdo' = [sdo EXCEPT !.pos = @ + n, !.toggle = 1 - @]
        BY <3>1, <3>4 DEF SegmentSent
      <4> HIDE DEF n
      <4>2. /\ sdo.pos = Len(v) /\ sdo.obj = client.obj /\ Held
            /\ Agree(sdo.buf, v, Len(v)) /\ Len(v) <= sdo.len
        BY <1>1, <3>2, <3>3, <4>1
      <4>3. sdo.len <= Len(sdo.buf) /\ ExpBytes < sdo.len
        BY <4>1 DEF SdoInv, TransferInv, BufferInv
      <4>4. Len(v) + n <= Len(sdo.buf)
        <5>1. sdo.len \in Nat /\ Len(sdo.buf) \in Nat
          BY <3>3, LenProperties, Sizes DEF Servers
        <5> QED
          BY <3>3, <4>1, <4>2, <4>3, <5>1
      <4> DEFINE h == v \o a.data
      <4>5. /\ Len(h) = Len(v) + n /\ h = SubSeq(sdo.buf, 1, Len(v) + n)
            /\ Agree(sdo.buf, h, Len(h))
        <5>1. a.data = SubSeq(sdo.buf, Len(v) + 1, Len(v) + n)
          BY <4>1, <4>2
        <5>2. /\ v \in Seq(Bytes) /\ sdo.buf \in Seq(Bytes) /\ n \in Nat
              /\ Agree(sdo.buf, v, Len(v))
          BY <3>3, <4>1, <4>2
        <5> HIDE DEF v
        <5> QED
          BY <4>4, <5>1, <5>2, SnapshotGrows, ZenonT(30)
      <4> HIDE DEF h
      <4>6. CASE a.last
        <5>1. sdo'.state = "idle" /\ Len(v) + n = sdo.len
          BY <4>1, <4>2, <4>6
        <5>2. h \in held \/ client.obj # "text"
          BY <4>2, <4>5, <5>1 DEF Held
        <5>3. ExpBytes < Len(h)
          BY <4>3, <4>5, <5>1
        <5>4. answers' # <<>> /\ answers'[1].k = "useg" => g = h /\ answers'[1].last
          BY <2>3, <4>6 DEF h
        <5> QED
          BY <3>1, <5>1, <5>2, <5>3, <5>4
      <4>7. CASE ~ a.last
        <5>1. /\ sdo'.state = "upload" /\ sdo'.obj = sdo.obj /\ sdo'.buf = sdo.buf
              /\ sdo'.len = sdo.len /\ sdo'.pos = sdo.pos + n
              /\ sdo'.toggle = 1 - sdo.toggle
          BY <3>3, <4>1, <4>7 DEF Servers, Uploading
        <5>2. Held'
          BY <3>1, <4>2, <5>1 DEF Held
        <5>3. sdo'.toggle = 1 - client.toggle /\ sdo'.pos = Len(h)
          BY <3>2, <4>1, <4>2, <4>5, <5>1
        <5>4. answers' # <<>> /\ answers'[1].k = "useg" => g = h /\ ~ answers'[1].last
          BY <2>3, <4>7 DEF h
        <5> QED
          BY <4>2, <4>5, <5>1, <5>2, <5>3, <5>4
      <4> QED
        BY <4>6, <4>7
    <3>5. CASE a.k = "abort"
      BY <2>3, <3>1, <3>5
    <3> QED
      BY <3>1, <3>4, <3>5
  <2> QED
    BY <1>2, <1>4, <2>4, <2>5
<1> QED
  BY <1>3, <1>4

LEMMA OldAnswers ==
  ASSUME SdoInv, held \subseteq held', NEW i \in 1 .. Len(answers)
  PROVE  Fit(answers[i])
BY DEF SdoInv, FrameInv, Fit

LEMMA AnswersStayFit ==
  ASSUME SdoInv, held \subseteq held', NEW a \in Frames, AnswersAfter(a), Fit(a)
  PROVE  \A i \in 1 .. Len(answers') : Fit(answers'[i])
<1> SUFFICES ASSUME NEW i \in 1 .. Len(answers') PROVE Fit(answers'[i])
  OBVIOUS
<1>1. CASE answers' = answers
  <2>1. i \in 1 .. Len(answers) /\ answers'[i] = answers[i]
    BY <1>1
  <2> QED
    BY <2>1, OldAnswers
<1>2. CASE /\ Len(answers') = Len(answers) + 1 /\ answers'[Len(answers) + 1] = a
           /\ \A j \in 1 .. Len(answers) : answers'[j] = answers[j]
  <2>1. i = Len(answers) + 1 \/ i \in 1 .. Len(answers)
    BY <1>2 DEF AnswersAfter
  <2>2. CASE i = Len(answers) + 1
    BY <1>2, <2>2
  <2>3. CASE i \in 1 .. Len(answers)
    <3>1. answers'[i] = answers[i]
      BY <1>2, <2>3
    <3> QED
      BY <2>3, <3>1, OldAnswers
  <2> QED
    BY <2>1, <2>2, <2>3
<1> QED
  BY <1>1, <1>2 DEF AnswersAfter

\* The frames, from what is known of each.
LEMMA FramesFit ==
  ASSUME plan' = plan, \A i \in 1 .. Len(answers') : Fit(answers'[i]),
         \A i \in 1 .. Len(requests') :
           /\ requests'[i].k \in Begins \cup Segs \cup {"abort"}
           /\ requests'[i].k = "dexp" => requests'[i].data \in Written(requests'[i].obj)
  PROVE  FrameInv'
<1>1. \A o : Written(o)' = Written(o)
  BY DEF Written
<1>2. \A w : Expedited(w)' = Expedited(w)
  BY DEF Expedited
<1> QED
  BY <1>1, <1>2 DEF FrameInv, Fit

\* What the server did to the buffer and the store keeps what the client knows.
LEMMA ClientKept ==
  ASSUME SdoInv, client' = client, plan' = plan, held \subseteq held', stored => stored'
  PROVE  ClientInv' /\ UploadIsSnapshot' /\ ConfirmedIsStored'
<1>1. \A o : Written(o)' = Written(o)
  BY DEF Written
<1>2. ClientInv'
  BY <1>1 DEF SdoInv, ClientInv
<1>3. UploadIsSnapshot'
  BY DEF SdoInv, UploadIsSnapshot, Expedited
<1>4. ConfirmedIsStored'
  BY DEF SdoInv, ConfirmedIsStored
<1> QED
  BY <1>2, <1>3, <1>4

LEMMA TypesKept ==
  ASSUME SdoTypeOK, Sound, plan' = plan, requests' \in Seq(Frames),
         answers' \in Seq(Frames), client' = client
  PROVE  SdoTypeOK'
BY DEF SdoTypeOK, Sound, Servers

LEMMA ServeStep ==
  ASSUME SdoInv, Serve, plan' = plan
  PROVE  SdoInv'
<1>0. TakenRequest /\ client' = client /\ Sound
  BY TakesRequest, ServeEffect
<1>1. held \subseteq held' /\ (stored => stored') /\ StoreInv' /\ BufferInv'
  BY <1>0 DEF Sound
<1>2. answers' \in Seq(Frames) /\ \A i \in 1 .. Len(answers') : Fit(answers'[i])
  <2>1. CASE requests[1].k = "abort"
    <3>1. answers' = answers /\ answers \in Seq(Frames)
      BY <2>1, ServeEffect DEF SdoInv, SdoTypeOK
    <3> QED
      BY <1>1, <3>1, OldAnswers
  <2>2. CASE requests[1].k # "abort"
    <3>1. PICK a : Handled(requests[1], a)
      BY <2>2, ServeEffect
    <3>2. AnswersAfter(a) /\ a \in Frames /\ Fit(a)
      BY <3>1, AnswersGrow DEF Handled, Replied, SdoInv
    <3> QED
      BY <1>1, <3>2, AnswersStayFit DEF AnswersAfter
  <2> QED
    BY <2>1, <2>2
<1>3. \A i \in 1 .. Len(requests') :
           /\ requests'[i].k \in Begins \cup Segs \cup {"abort"}
           /\ requests'[i].k = "dexp" => requests'[i].data \in Written(requests'[i].obj)
  BY <1>0 DEF TakenRequest, SdoInv, FrameInv
<1>4. FrameInv'
  BY <1>2, <1>3, FramesFit
<1>5. ClientInv' /\ UploadIsSnapshot' /\ ConfirmedIsStored'
  BY <1>0, <1>1, ClientKept
<1>6. SdoTypeOK'
  BY <1>0, <1>2, TypesKept DEF TakenRequest, SdoInv
<1>7. ExchangeInv'
  BY ServeRestShape, ServeBeginShape, ServeSegShape DEF ExchangeInv
<1>8. TransferInv'
  BY <1>1, ServeLoadInv, ServeLeftInv, ServeBegunInv, ServeReadInv DEF TransferInv
<1> QED
  BY <1>1, <1>4, <1>5, <1>6, <1>7, <1>8 DEF SdoInv

-----------------------------------------------------------------------------
(* The other steps of the node and of the tasks beside it. *)

\* Where neither the queues nor the client change, the exchange has its shape.
LEMMA ExchangeKept ==
  ASSUME SdoInv, requests' = requests, answers' = answers, client' = client
  PROVE  ExchangeInv'
<1>1. /\ \A i : Live(i)' <=> Live(i)
      /\ Request(client)' = Request(client) /\ BeginOf' = BeginOf
      /\ (AtFirst' <=> AtFirst) /\ (Resting' <=> Resting)
  BY DEF Live, Request, BeginOf, AtFirst, Resting
<1>2. \A i : OwnBegin(answers[i])' <=> OwnBegin(answers[i])
  BY DEF OwnBegin
<1>3. RestShape'
  BY <1>1 DEF SdoInv, ExchangeInv, RestShape
<1>4. BeginShape'
  BY <1>1, <1>2 DEF SdoInv, ExchangeInv, BeginShape
<1>5. SegShape'
  BY <1>1 DEF SdoInv, ExchangeInv, SegShape
<1> QED
  BY <1>3, <1>4, <1>5 DEF ExchangeInv

LEMMA NodeStopsStep ==
  ASSUME SdoInv, NodeStops, plan' = plan
  PROVE  SdoInv'
<1>1. /\ dp' = dp /\ requests' = requests /\ answers' = answers /\ client' = client
      /\ held' = held /\ Kept /\ sdo' = Idle([buf |-> sdo.buf])
  BY DEF NodeStops, Kept, Idle
<1>2. sdo.buf \in Seq(Bytes) /\ Len(sdo.buf) <= BufBytes
  BY DEF SdoInv, SdoTypeOK
<1>3. sdo' \in Servers /\ sdo'.state = "idle" /\ BufferInv' /\ sdo'.buf = sdo.buf
  BY <1>1, <1>2, IdleServer
<1>4. Sound /\ (stored <=> stored')
  BY <1>1, <1>2, <1>3, KeptStore DEF Sound, SdoInv, Kept
<1>5. SdoTypeOK'
  BY <1>1, <1>4, TypesKept DEF SdoInv, SdoTypeOK
<1>6. held \subseteq held' /\ (stored => stored') /\ StoreInv'
  BY <1>4 DEF Sound
<1>7. ClientInv' /\ UploadIsSnapshot' /\ ConfirmedIsStored'
  BY <1>1, <1>6, ClientKept
<1>8. FrameInv'
  <2>1. \A i \in 1 .. Len(answers') : Fit(answers'[i])
    BY <1>1, <1>6, OldAnswers
  <2> QED
    BY <1>1, <2>1, FramesFit DEF SdoInv, FrameInv
<1>9. ExchangeInv'
  BY <1>1, ExchangeKept
<1>10. ~ Downloading' /\ ~ Uploading'
  BY <1>3 DEF Downloading, Uploading
<1>11. LoadInv'
  BY <1>1, <1>4, <1>10 DEF SdoInv, TransferInv, LoadInv, Done
<1>12. LeftInv'
  <2>1. \A o : Written(o)' = Written(o)
    BY DEF Written
  <2> QED
    BY <1>1, <1>10, <2>1 DEF SdoInv, TransferInv, LeftInv, Agree
<1>13. BegunInv'
  BY <1>10 DEF BegunInv
<1>14. ReadInv'
  BY <1>1, <1>10 DEF SdoInv, TransferInv, ReadInv, Got
<1> QED
  BY <1>3, <1>5, <1>6, <1>7, <1>8, <1>9, <1>11, <1>12, <1>13, <1>14 DEF SdoInv, TransferInv

\* Nothing is under way but what was just queued: a request of the client, an
\* abort of either side, or nothing.
LEMMA SdoTimeoutStep ==
  ASSUME SdoInv, SdoTimeout, plan' = plan
  PROVE  SdoInv'
<1>1. /\ requests = <<>> /\ answers = <<>> /\ requests' = requests /\ client' = client
      /\ sdo_abort(sdo.obj, sdo)
  BY DEF SdoTimeout, Quiet
<1>2. /\ sdo.buf \in Seq(Bytes) /\ Len(sdo.buf) <= BufBytes /\ sdo.obj \in Objects
      /\ SdoTypeOK /\ StoreInv
  BY DEF SdoInv, SdoTypeOK
<1> DEFINE a == Aborted(sdo.obj)
<1>3. a \in Frames
  BY <1>2 DEF Aborted, Frame, Frames, Kinds
<1>4. /\ Replied(a, a) /\ Fit(a) /\ Sound /\ sdo'.state = "idle" /\ Kept /\ a.k = "abort"
  BY <1>1, <1>2, <1>3, AbortReply
<1> HIDE DEF a
<1>5. AnswersAfter(a)
  BY <1>2, <1>3, <1>4, AnswersGrow DEF Replied
<1>6. /\ Len(answers) = 0 /\ Len(requests') = 0 /\ requests' = <<>>
      /\ (answers' = <<>> \/ (Len(answers') = 1 /\ answers'[1].k = "abort"))
      /\ Len(answers') <= 1 /\ Len(answers') # 2 /\ Len(answers') <= 2
  <2>1. Len(answers) = 0 /\ Len(requests') = 0 /\ requests' = <<>>
    BY <1>1
  <2>2. CASE answers' = answers
    BY <1>1, <2>1, <2>2
  <2>3. CASE answers' # answers
    <3>1. Len(answers') = 1 /\ answers'[1] = a
      BY <1>5, <2>1, <2>3 DEF AnswersAfter
    <3> QED
      BY <1>4, <2>1, <3>1
  <2> QED
    BY <2>2, <2>3
<1>7. SdoTypeOK'
  BY <1>1, <1>2, <1>4, <1>5, TypesKept DEF SdoTypeOK, AnswersAfter
<1>8. held \subseteq held' /\ (stored => stored') /\ StoreInv' /\ BufferInv'
  BY <1>4 DEF Sound
<1>9. ClientInv' /\ UploadIsSnapshot' /\ ConfirmedIsStored'
  BY <1>1, <1>8, ClientKept
<1>10. \A i \in 1 .. Len(requests') : FALSE
  BY <1>6
<1>11. FrameInv'
  <2>1. \A i \in 1 .. Len(answers') : Fit(answers'[i])
    BY <1>3, <1>4, <1>5, <1>8, AnswersStayFit
  <2> QED
    BY <1>10, <2>1, FramesFit
<1>12. RestShape'
  BY <1>6, <1>10 DEF RestShape
<1>13. BeginShape'
  BY <1>6, <1>10 DEF BeginShape
<1>14. SegShape'
  BY <1>6, <1>10 DEF SegShape, Segs
<1>15. ~ Downloading' /\ ~ Uploading'
  BY <1>4 DEF Downloading, Uploading
<1>16. LoadInv' /\ LeftInv' /\ BegunInv' /\ ReadInv'
  BY <1>6, <1>10, <1>15 DEF LoadInv, LeftInv, BegunInv, ReadInv
<1> QED
  BY <1>7, <1>8, <1>9, <1>11, <1>12, <1>13, <1>14, <1>16 DEF SdoInv, ExchangeInv, TransferInv

\* Where the queues and both transfers stay, a longer history changes nothing.
LEMMA TransfersKept ==
  ASSUME SdoInv, UNCHANGED <<sdo, requests, answers, client, stored, plan>>,
         held \subseteq held' \/ (client.op = "rest" /\ answers = <<>>)
  PROVE  ExchangeInv' /\ TransferInv' /\ ClientInv' /\ FrameInv'
         /\ UploadIsSnapshot' /\ ConfirmedIsStored'
<1>0. \A o : Written(o)' = Written(o)
  BY DEF Written
<1>1. ExchangeInv'
  BY ExchangeKept
<1>2. LoadInv' /\ BufferInv'
  BY DEF SdoInv, TransferInv, LoadInv, BufferInv, Done, Downloading, Uploading
<1>3. LeftInv'
  BY <1>0 DEF SdoInv, TransferInv, LeftInv, Downloading, Agree
<1>4. held \subseteq held' => (Held => Held')
  BY DEF Held
<1>5. BegunInv'
  BY <1>4 DEF SdoInv, TransferInv, BegunInv, Begun, LastAnswer, Downloading, Uploading
<1>6. ReadInv'
  BY <1>4 DEF SdoInv, TransferInv, ReadInv, Got, Uploading, Agree
<1>7. ClientInv'
  BY <1>0 DEF SdoInv, ClientInv
<1>8. FrameInv'
  <2>1. \A i \in 1 .. Len(answers') : Fit(answers'[i])
    <3>1. CASE held \subseteq held'
      BY <3>1, OldAnswers
    <3>2. CASE answers = <<>>
      BY <3>2
    <3> QED
      BY <3>1, <3>2
  <2> QED
    BY <2>1, FramesFit DEF SdoInv, FrameInv
<1>9. UploadIsSnapshot' /\ ConfirmedIsStored'
  BY DEF SdoInv, UploadIsSnapshot, ConfirmedIsStored, Expedited
<1> QED
  BY <1>1, <1>2, <1>3, <1>5, <1>6, <1>7, <1>8, <1>9 DEF TransferInv

LEMMA CloudWriteStep ==
  ASSUME SdoInv, CloudWrite, plan' = plan
  PROVE  SdoInv'
<1>1. PICK b \in Batches : dp_write_batch(b) /\ dp' = Committed(b)
  BY DEF CloudWrite
<1>2. UNCHANGED <<sdo, requests, answers, client, stored, plan>> /\ Keep(dp')
  BY DEF CloudWrite
<1>3. /\ DOMAIN b \subseteq {"text", "low", "high"}
      /\ "text" \in DOMAIN b => b.text \in Texts
      /\ \A o \in DOMAIN b : dp_value_from_json(o, b[o])
      /\ dp_constraints_ok(dp')
  <2>1. \/ b \in [{"text"} -> Texts]
        \/ \E os \in SUBSET (plan.objects \cap {"low", "high"}) : b \in [os -> Digits]
    BY DEF Batches
  <2>2. DOMAIN b \subseteq {"text", "low", "high"} /\ ("text" \in DOMAIN b => b.text \in Texts)
    BY <2>1
  <2> QED
    BY <1>1, <2>2 DEF dp_write_batch
<1>4. /\ {"text", "secret", "low", "high", "state"} = Points
      /\ dp' = [p \in Points |-> IF p \in DOMAIN b THEN b[p] ELSE dp[p]]
  BY <1>1 DEF Committed, Points, Objects
<1>5. SdoTypeOK /\ StoreInv /\ dp \in [Points -> Seq(Bytes)] /\ plan \in Plans
  BY DEF SdoInv, SdoTypeOK
<1>6. /\ dp'.text = IF "text" \in DOMAIN b THEN b["text"] ELSE dp["text"]
      /\ dp'.secret = dp.secret /\ dp'.state = dp.state
      /\ dp'.low = IF "low" \in DOMAIN b THEN b["low"] ELSE dp["low"]
      /\ dp'.high = IF "high" \in DOMAIN b THEN b["high"] ELSE dp["high"]
  BY <1>3, <1>4
<1>7. dp'.text \in Texts \cup {<<"a">>} /\ Len(dp'.text) <= BufBytes
  <2>1. CASE "text" \in DOMAIN b
    <3>1. dp'.text = b.text /\ b.text \in Texts
      BY <1>3, <1>6, <2>1
    <3>2. Len(b["text"]) < StrMax
      BY <1>3, <2>1 DEF dp_value_from_json, Strings
    <3>3. Len(dp'.text) \in Nat
      BY <1>5, <3>1, StoredText, LenProperties
    <3> QED
      BY <3>1, <3>2, <3>3, Sizes
  <2>2. CASE "text" \notin DOMAIN b
    BY <1>5, <1>6, <2>2 DEF StoreInv, WritesAreWhole
  <2> QED
    BY <2>1, <2>2
<1>8. dp'.low \in Digits /\ dp'.high \in Digits
  <2>1. /\ "low" \in DOMAIN b => b["low"] \in Digits
        /\ "high" \in DOMAIN b => b["high"] \in Digits
    BY <1>3 DEF dp_value_from_json, Strings
  <2> QED
    BY <1>5, <1>6, <2>1 DEF StoreInv, WritesAreWhole
<1>9. WritesAreWhole' /\ dp'.state = <<"1">>
  <2>1. Number(dp'.low) < Number(dp'.high)
    BY <1>3 DEF dp_constraints_ok
  <2>2. plan' = plan /\ Texts' = Texts
    BY <1>2 DEF Texts
  <2>3. dp'.secret = Secret /\ dp'.state = <<"1">>
    BY <1>5, <1>6 DEF StoreInv, WritesAreWhole
  <2> QED
    BY <1>7, <1>8, <2>1, <2>2, <2>3 DEF WritesAreWhole
<1>10. dp' \in [Points -> Seq(Bytes)]
  <2>1. dp'.text \in Seq(Bytes)
    BY <1>5, <1>7, StoredText
  <2>2. \A p \in {"low", "high"} : dp'[p] \in Seq(Bytes)
    BY <1>8, ByteValues, Zenon DEF Digits
  <2>3. dp'["secret"] \in Seq(Bytes) /\ dp'["state"] \in Seq(Bytes)
    BY <1>9, ByteValues, Zenon DEF WritesAreWhole
  <2>4. \A p \in Points : dp'[p] \in Seq(Bytes)
    BY <1>4, <2>1, <2>2, <2>3
  <2> QED
    BY <1>4, <2>4
<1>11. /\ held' \subseteq Seq(Bytes) /\ dp'.text \in held'
       /\ held \subseteq held' \/ (client.op = "rest" /\ answers = <<>>)
  <2>1. dp'.text \in Seq(Bytes)
    BY <1>4, <1>10
  <2>2. held' = (IF Under THEN held ELSE {}) \cup {dp'.text}
    BY <1>2 DEF Keep
  <2>3. held \subseteq Seq(Bytes)
    BY <1>5 DEF SdoTypeOK
  <2>4. ~ Under => client.op = "rest" /\ answers = <<>>
    BY DEF Under, Quiet
  <2> QED
    BY <2>1, <2>2, <2>3, <2>4
<1>12. StoreInv'
  BY <1>7, <1>9, <1>11 DEF StoreInv
<1>13. SdoTypeOK'
  BY <1>2, <1>5, <1>10, <1>11 DEF SdoTypeOK
<1>14. /\ ExchangeInv' /\ TransferInv' /\ ClientInv' /\ FrameInv'
       /\ UploadIsSnapshot' /\ ConfirmedIsStored'
  BY <1>2, <1>11, TransfersKept
<1> QED
  BY <1>12, <1>13, <1>14 DEF SdoInv

-----------------------------------------------------------------------------
(* The steps of the client. *)

Clients == [op : {"rest", "read", "stored", "dexp", "dinit", "dseg", "uinit", "useg"},
            obj : Objects, val : Seq(Bytes), size : Nat, pos : Nat, toggle : {0, 1}]

LEMMA AtRest ==
  /\ Rest \in Clients /\ Rest.op = "rest" /\ Rest.val = <<>> /\ Rest.pos = 0
  /\ Rest.toggle = 0
BY DEF Rest, Clients, Objects

\* The frame that belongs to state c of a transfer.
LEMMA RequestFrame ==
  ASSUME NEW c \in Clients, c.op \in Begins \cup Segs,
         c.op = "dseg" => c.pos <= Len(c.val)
  PROVE  /\ Request(c) \in Frames /\ Request(c).k = c.op /\ Request(c).obj = c.obj
         /\ c.op = "dexp" => Request(c).data = c.val
<1>0. /\ c.obj \in Objects /\ c.val \in Seq(Bytes) /\ c.size \in Nat /\ c.pos \in Nat
      /\ c.toggle \in {0, 1} /\ Len(c.val) \in Nat
  BY LenProperties DEF Clients
<1>1. CASE c.op \in {"dexp", "uinit"}
  <2>1. Request(c) = Frame(c.op, c.obj, 0, c.val, 0, TRUE)
    BY <1>1 DEF Request
  <2> QED
    BY <1>0, <1>1, <2>1 DEF Frame, Frames, Kinds
<1>2. CASE c.op = "dinit"
  <2>1. Request(c) = Frame("dinit", c.obj, 0, <<>>, c.size, FALSE)
    BY <1>2 DEF Request
  <2> QED
    BY <1>0, <1>2, <2>1 DEF Frame, Frames, Kinds
<1>3. CASE c.op = "useg"
  <2>1. Request(c) = Frame("useg", c.obj, c.toggle, <<>>, 0, FALSE)
    BY <1>3 DEF Request
  <2> QED
    BY <1>0, <1>3, <2>1 DEF Frame, Frames, Kinds
<1>4. CASE c.op = "dseg"
  <2> DEFINE n == Least(SegBytes, Len(c.val) - c.pos)
             d == SubSeq(c.val, c.pos + 1, c.pos + n)
             e == (c.pos + n = Len(c.val))
  <2>1. n \in Nat /\ c.pos + n <= Len(c.val)
    BY <1>0, <1>4, Sizes DEF Least
  <2>2. Request(c) = [k |-> "dseg", obj |-> c.obj, toggle |-> c.toggle, data |-> d,
                      n |-> 0, last |-> e]
    BY <1>4 DEF Request, Frame
  <2>3. e \in BOOLEAN
    OBVIOUS
  <2> HIDE DEF n
  <2>4. d \in Seq(Bytes)
    <3>1. ASSUME NEW b \in Seq(Bytes), NEW p \in Nat, NEW m \in Nat, p + m <= Len(b)
          PROVE  SubSeq(b, p + 1, p + m) \in Seq(Bytes)
      BY <3>1, PartOf
    <3> QED
      BY <1>0, <2>1, <3>1
  <2> HIDE DEF d, e
  <2> QED
    BY <1>0, <1>4, <2>2, <2>3, <2>4 DEF Frames, Kinds
<1> QED
  BY <1>1, <1>2, <1>3, <1>4 DEF Begins, Segs

\* The requests behind one more of the client, which may be lost.
RequestsAfter(f) ==
  /\ requests \in Seq(Frames) /\ requests' \in Seq(Frames)
  /\ Len(requests) \in Nat /\ Len(requests') \in Nat
  /\ \/ requests' = requests
     \/ /\ Len(requests') = Len(requests) + 1 /\ requests'[Len(requests) + 1] = f
        /\ \A i \in 1 .. Len(requests) : requests'[i] = requests[i]

LEMMA RequestsGrow ==
  ASSUME SdoInv, NEW f \in Frames, requests' \in Queued(requests, f)
  PROVE  RequestsAfter(f)
<1>1. requests \in Seq(Frames)
  BY DEF SdoInv, SdoTypeOK
<1> QED
  BY <1>1, QueuedFrame DEF RequestsAfter

\* Each request is an old one in its place, or the new one behind them.
LEMMA OldOrNew ==
  ASSUME NEW f, RequestsAfter(f), NEW i \in 1 .. Len(requests')
  PROVE  \/ i \in 1 .. Len(requests) /\ requests'[i] = requests[i]
         \/ i = Len(requests) + 1 /\ i = Len(requests') /\ requests'[i] = f
<1>1. CASE requests' = requests
  BY <1>1
<1>2. CASE /\ Len(requests') = Len(requests) + 1 /\ requests'[Len(requests) + 1] = f
           /\ \A j \in 1 .. Len(requests) : requests'[j] = requests[j]
  <2>1. i \in 1 .. Len(requests) \/ i = Len(requests) + 1
    BY <1>2 DEF RequestsAfter
  <2> QED
    BY <1>2, <2>1
<1> QED
  BY <1>1, <1>2 DEF RequestsAfter

\* What a step of the client leaves alone.
ClientMoves ==
  /\ UNCHANGED <<sdo, dp, plan>> /\ client' \in Clients
  /\ requests' \in Seq(Frames) /\ answers' \in Seq(Frames)
  /\ dp.text \in held' /\ held' \subseteq Seq(Bytes) /\ stored' \in BOOLEAN

LEMMA MovesKeep ==
  ASSUME SdoInv, ClientMoves
  PROVE  SdoTypeOK' /\ BufferInv' /\ StoreInv' /\ \A o : Written(o)' = Written(o)
<1>1. sdo' = sdo /\ dp' = dp /\ plan' = plan
  BY DEF ClientMoves
<1>2. SdoTypeOK'
  BY <1>1 DEF SdoInv, SdoTypeOK, ClientMoves, Clients
<1>3. BufferInv'
  BY <1>1 DEF SdoInv, TransferInv, BufferInv, Downloading, Uploading
<1>4. StoreInv'
  BY <1>1 DEF SdoInv, StoreInv, WritesAreWhole, Texts, ClientMoves
<1>5. \A o : Written(o)' = Written(o)
  BY <1>1 DEF Written
<1> QED
  BY <1>2, <1>3, <1>4, <1>5

\* A segment of an abandoned download that is refused or begins a value.
LeftOver(f) ==
  /\ f.toggle = 0
  /\ \E v \in Written(f.obj) : /\ Agree(f.data, v, Len(f.data))
                               /\ f.last => Len(f.data) = Len(v)
  /\ Downloading /\ sdo.toggle = 0 => sdo.pos = 0 /\ sdo.obj = f.obj

\* It stays so as long as the server does not move.
LEMMA LeftKept ==
  ASSUME sdo' = sdo, plan' = plan,
         \A i \in 1 .. Len(requests) : requests[i].k = "dseg" => LeftOver(requests[i]),
         \A i \in 1 .. Len(requests') : requests'[i].k = "dseg" =>
           i \in 1 .. Len(requests) /\ requests'[i] = requests[i]
  PROVE  LeftInv'
<1>1. (Downloading' <=> Downloading) /\ \A o : Written(o)' = Written(o)
  BY DEF Downloading, Written
<1>2. ASSUME NEW i \in 1 .. Len(requests'), requests'[i].k = "dseg"
      PROVE  LeftOver(requests[i])'
  <2>1. requests'[i] = requests[i] /\ LeftOver(requests[i])
    BY <1>2
  <2> QED
    BY <1>1, <2>1 DEF LeftOver, Agree
<1> QED
  BY <1>2 DEF LeftInv, LeftOver

LEMMA OldLeft ==
  ASSUME SdoInv, client.op # "dseg"
  PROVE  \A i \in 1 .. Len(requests) : requests[i].k = "dseg" => LeftOver(requests[i])
BY DEF SdoInv, TransferInv, LeftInv, LeftOver

\* A transfer begins: what is still under way is left from before.
LEMMA BeginStep ==
  ASSUME SdoInv, Resting, NEW c \in Clients, c.op \in Begins, c.pos = 0, c.toggle = 0,
         c.op = "uinit" => c.val = <<>>, c.op # "uinit" => c.val \in Written(c.obj),
         Send(c), UNCHANGED <<sdo, dp, answers, plan>>, stored' \in BOOLEAN,
         dp.text \in held', held' \subseteq Seq(Bytes),
         held \subseteq held' \/ answers = <<>>
  PROVE  SdoInv'
<1> DEFINE f == Request(c)
<1>0. client' = c /\ requests' \in Queued(requests, f) /\ answers' = answers
  BY DEF Send
<1>1. f \in Frames /\ f.k = c.op /\ (c.op = "dexp" => f.data = c.val) /\ f.obj = c.obj
  BY RequestFrame DEF Begins
<1>2. Request(client)' = f
  BY <1>0
<1> HIDE DEF f
<1>3. RequestsAfter(f)
  BY <1>0, <1>1, RequestsGrow
<1>4. ClientMoves
  BY <1>0, <1>3 DEF ClientMoves, RequestsAfter, SdoInv, SdoTypeOK
<1>5. SdoTypeOK' /\ BufferInv' /\ StoreInv' /\ \A o : Written(o)' = Written(o)
  BY <1>4, MovesKeep
<1>6. /\ client'.op = c.op /\ client'.op \in Begins /\ client'.op \notin Segs
      /\ client'.op \notin {"rest", "read", "stored", "dseg", "useg"}
      /\ client.op \notin Segs /\ client.op \notin Begins /\ client.op # "dseg"
  BY <1>0 DEF Begins, Segs, Resting
<1>7. ClientInv'
  BY <1>0, <1>5, <1>6 DEF ClientInv, Begins
<1>8. FrameInv'
  <2>1. \A i \in 1 .. Len(answers') : Fit(answers'[i])
    <3>1. CASE held \subseteq held'
      BY <1>0, <3>1, OldAnswers
    <3>2. CASE answers = <<>>
      BY <1>0, <3>2
    <3> QED
      BY <3>1, <3>2
  <2>2. ASSUME NEW i \in 1 .. Len(requests')
        PROVE  /\ requests'[i].k \in Begins \cup Segs \cup {"abort"}
               /\ requests'[i].k = "dexp" =>
                    requests'[i].data \in Written(requests'[i].obj)
    <3>1. CASE i \in 1 .. Len(requests) /\ requests'[i] = requests[i]
      BY <3>1 DEF SdoInv, FrameInv
    <3>2. CASE requests'[i] = f
      BY <1>1, <3>2 DEF Begins
    <3> QED
      BY <1>3, <3>1, <3>2, OldOrNew
  <2> QED
    BY <1>4, <2>1, <2>2, FramesFit DEF ClientMoves
<1>9. RestShape' /\ SegShape' /\ LoadInv' /\ ReadInv' /\ UploadIsSnapshot' /\ ConfirmedIsStored'
  BY <1>6 DEF RestShape, Resting, SegShape, LoadInv, ReadInv, UploadIsSnapshot,
              ConfirmedIsStored
<1>10. /\ Len(answers) <= 1
       /\ answers # <<>> => \A i \in 1 .. Len(requests) : requests[i].k = "abort"
       /\ \A i, j \in 1 .. Len(requests) :
            requests[i].k # "abort" /\ requests[j].k # "abort" => i = j
  BY DEF SdoInv, ExchangeInv, RestShape, Live
<1>11. answers \in Seq(Frames) /\ Len(answers) \in Nat /\ (answers = <<>> <=> Len(answers) = 0)
  BY EmptyLen DEF SdoInv, SdoTypeOK
<1>12. Len(answers') <= 2 /\ Len(answers') # 2 /\ (Len(answers') = 1 => answers # <<>>)
  <2>1. \A n \in Nat : n <= 1 => n <= 2 /\ n # 2 /\ (n = 1 => n # 0)
    OBVIOUS
  <2> QED
    BY <1>0, <1>10, <1>11, <2>1, Zenon
<1>13. BeginShape'
  <2>1. ASSUME NEW i \in 1 .. Len(requests'), requests'[i].k # "abort", answers # <<>>
        PROVE  requests'[i] = f /\ i = Len(requests')
    BY <1>3, <1>10, <2>1, OldOrNew
  <2>2. ASSUME NEW i \in 1 .. Len(requests'), NEW j \in 1 .. Len(requests'), i < j,
               requests'[i].k # "abort", requests'[j].k # "abort"
        PROVE  requests'[j] = f /\ j = Len(requests) + 1 /\ i \in 1 .. Len(requests)
    <3>1. i # j
      BY <2>2
    <3>2. i # Len(requests) + 1
      <4>1. i = Len(requests) + 1 => i = Len(requests')
        BY <1>3, OldOrNew DEF RequestsAfter
      <4> QED
        BY <2>2, <4>1 DEF RequestsAfter
    <3>3. i \in 1 .. Len(requests) /\ requests'[i] = requests[i]
      BY <1>3, <3>2, OldOrNew
    <3>4. ~ (j \in 1 .. Len(requests) /\ requests'[j] = requests[j])
      BY <1>10, <2>2, <3>1, <3>3
    <3> QED
      BY <1>3, <3>3, <3>4, OldOrNew
  <2>3. ASSUME NEW i \in 1 .. Len(requests'), NEW j \in 1 .. Len(requests'),
               NEW m \in 1 .. Len(requests'), i < j, j < m, requests'[i].k # "abort",
               requests'[j].k # "abort", requests'[m].k # "abort"
        PROVE  FALSE
    <3>1. j = Len(requests) + 1 /\ j \in 1 .. Len(requests)
      BY <2>2, <2>3
    <3> QED
      BY <1>3, <3>1 DEF RequestsAfter
  <2>4. \A i \in 1 .. Len(requests') : Live(i)' <=> requests'[i].k # "abort"
    BY DEF Live
  <2>5. \A i, j \in 1 .. Len(requests') :
          Len(answers') = 1 /\ Live(i)' /\ Live(j)' => i = j /\ requests'[i] = f
    BY <1>12, <2>1, <2>4
  <2>6. \A i, j \in 1 .. Len(requests') : i < j /\ Live(i)' /\ Live(j)' => requests'[j] = f
    BY <2>2, <2>4
  <2>7. \A i, j, m \in 1 .. Len(requests') :
          i < j /\ j < m => ~ (Live(i)' /\ Live(j)' /\ Live(m)')
    BY <2>3, <2>4
  <2> QED
    BY <1>2, <1>12, <2>5, <2>6, <2>7 DEF BeginShape
<1>14. LeftInv'
  <2>1. ASSUME NEW i \in 1 .. Len(requests'), requests'[i].k = "dseg"
        PROVE  i \in 1 .. Len(requests) /\ requests'[i] = requests[i]
    <3>1. requests'[i] # f
      BY <1>1, <2>1 DEF Begins
    <3> QED
      BY <1>3, <3>1, OldOrNew
  <2> QED
    BY <1>4, <1>6, <2>1, OldLeft, LeftKept DEF ClientMoves
<1>15. BegunInv'
  <2> SUFFICES ASSUME answers # <<>> PROVE BegunInv'
    BY <1>0 DEF BegunInv
  <2>1. sdo' = sdo /\ LastAnswer' = LastAnswer /\ held \subseteq held'
    BY <1>0, <1>4 DEF ClientMoves, LastAnswer
  <2>2. /\ (Downloading' <=> Downloading) /\ (Uploading' <=> Uploading)
        /\ (Begun' <=> Begun) /\ (Held => Held')
    BY <2>1 DEF Downloading, Uploading, Begun, Held
  <2>3. /\ LastAnswer.k = "dok" /\ Downloading => Begun /\ sdo.obj = LastAnswer.obj
        /\ LastAnswer.k = "uinit" /\ Uploading =>
             Begun /\ Held /\ sdo.obj = LastAnswer.obj
    BY <1>6 DEF SdoInv, TransferInv, BegunInv, Begins
  <2> QED
    BY <1>12, <2>1, <2>2, <2>3 DEF BegunInv
<1> QED
  BY <1>5, <1>7, <1>8, <1>9, <1>13, <1>14, <1>15 DEF SdoInv, ExchangeInv, TransferInv

LEMMA DownloadStep ==
  ASSUME SdoInv, Download, plan' = plan
  PROVE  SdoInv'
<1>1. /\ Resting /\ stored' \in BOOLEAN /\ held' = held /\ UNCHANGED <<sdo, dp, answers, plan>>
  BY DEF Download
<1>2. PICK o \in plan.objects : \E v \in Written(o) :
        IF Len(v) \in 1 .. ExpBytes
        THEN Send([Rest EXCEPT !.op = "dexp", !.obj = o, !.val = v])
        ELSE \E size \in {0, Len(v)} :
               Send([Rest EXCEPT !.op = "dinit", !.obj = o, !.val = v, !.size = size])
  BY DEF Download
<1>3. PICK v \in Written(o) :
        IF Len(v) \in 1 .. ExpBytes
        THEN Send([Rest EXCEPT !.op = "dexp", !.obj = o, !.val = v])
        ELSE \E size \in {0, Len(v)} :
               Send([Rest EXCEPT !.op = "dinit", !.obj = o, !.val = v, !.size = size])
  BY <1>2
<1>4. plan \in Plans /\ o \in Objects
  BY SdoAssumption DEF SdoInv, SdoTypeOK
<1>5. v \in Seq(Bytes) /\ Len(v) \in Nat
  BY <1>4, WrittenBytes, LenProperties
<1>6. dp.text \in held' /\ held' \subseteq Seq(Bytes) /\ held \subseteq held'
  BY <1>1 DEF SdoInv, SdoTypeOK, StoreInv
<1>7. PICK c : /\ Send(c) /\ c.op \in {"dexp", "dinit"} /\ c.obj = o /\ c.val = v
               /\ c.pos = 0 /\ c.toggle = 0 /\ c \in Clients
  <2>1. CASE Len(v) \in 1 .. ExpBytes
    <3> DEFINE r == [Rest EXCEPT !.op = "dexp", !.obj = o, !.val = v]
    <3>1. Send(r)
      BY <1>3, <2>1
    <3>2. /\ r \in Clients /\ r.op = "dexp" /\ r.obj = o /\ r.val = v /\ r.pos = 0
          /\ r.toggle = 0
      BY <1>4, <1>5, AtRest DEF Clients
    <3> QED
      BY <3>1, <3>2
  <2>2. CASE Len(v) \notin 1 .. ExpBytes
    <3>1. PICK s \in {0, Len(v)} :
            Send([Rest EXCEPT !.op = "dinit", !.obj = o, !.val = v, !.size = s])
      BY <1>3, <2>2
    <3> DEFINE r == [Rest EXCEPT !.op = "dinit", !.obj = o, !.val = v, !.size = s]
    <3>2. s \in Nat
      BY <1>5
    <3>3. /\ r \in Clients /\ r.op = "dinit" /\ r.obj = o /\ r.val = v /\ r.pos = 0
          /\ r.toggle = 0
      BY <1>4, <1>5, <3>2, AtRest DEF Clients
    <3> QED
      BY <3>1, <3>3
  <2> QED
    BY <2>1, <2>2
<1>8. c.op \in Begins /\ c.op # "uinit"
  BY <1>7 DEF Begins
<1> QED
  BY <1>1, <1>6, <1>7, <1>8, BeginStep

LEMMA UploadStep ==
  ASSUME SdoInv, Upload, plan' = plan
  PROVE  SdoInv'
<1>1. /\ Resting /\ stored' = stored /\ UNCHANGED <<sdo, dp, answers, plan>>
      /\ held' = (IF Under THEN held ELSE {}) \cup {dp.text}
  BY DEF Upload
<1>2. PICK o \in plan.objects : Send([Rest EXCEPT !.op = "uinit", !.obj = o])
  BY DEF Upload
<1>3. plan \in Plans /\ o \in Objects
  BY SdoAssumption DEF SdoInv, SdoTypeOK
<1>4. dp.text \in held' /\ held' \subseteq Seq(Bytes)
  BY <1>1 DEF SdoInv, SdoTypeOK, StoreInv
<1>5. held \subseteq held' \/ answers = <<>>
  BY <1>1 DEF Under, Quiet
<1> DEFINE c == [Rest EXCEPT !.op = "uinit", !.obj = o]
<1>6. Send(c)
  BY <1>2
<1>7. c \in Clients /\ c.op = "uinit" /\ c.pos = 0 /\ c.toggle = 0 /\ c.val = <<>>
  BY <1>3, AtRest DEF Clients
<1>8. "uinit" \in Begins /\ stored' \in BOOLEAN
  BY <1>1 DEF Begins, SdoInv, SdoTypeOK
<1> HIDE DEF c
<1> QED
  BY <1>1, <1>4, <1>5, <1>6, <1>7, <1>8, BeginStep

\* Nothing was under way: the request is the only frame, or lost.
LEMMA OnlyRequest ==
  ASSUME SdoInv, NEW f \in Frames, requests' \in Queued(requests, f), requests = <<>>
  PROVE  /\ requests' \in Seq(Frames)
         /\ \A i \in 1 .. Len(requests') : i = 1 /\ i = Len(requests') /\ requests'[i] = f
<1>1. RequestsAfter(f)
  BY RequestsGrow
<1>2. Len(requests) = 0 /\ Len(requests) + 1 = 1 /\ \A i : i \notin 1 .. Len(requests)
  OBVIOUS
<1> QED
  BY <1>1, <1>2, OldOrNew DEF RequestsAfter

LEMMA RepeatStep ==
  ASSUME SdoInv, Repeat, plan' = plan
  PROVE  SdoInv'
<1> DEFINE f == Request(client)
<1>0. /\ ~ Resting /\ requests = <<>> /\ answers = <<>> /\ client' = client
      /\ requests' \in Queued(requests, f)
      /\ UNCHANGED <<sdo, dp, answers, held, stored, plan>>
  BY DEF Repeat, Overdue, Quiet, Send
<1>1. client.op \in Begins \cup Segs /\ client \in Clients
  BY <1>0 DEF Resting, SdoInv, SdoTypeOK, Clients, Begins, Segs
<1>2. f \in Frames /\ f.k = client.op /\ (client.op = "dexp" => f.data = client.val)
      /\ f.obj = client.obj
  BY <1>1, RequestFrame DEF SdoInv, ClientInv
<1>3. Request(client)' = f
  BY <1>0
<1> HIDE DEF f
<1>4. /\ requests' \in Seq(Frames)
      /\ \A i \in 1 .. Len(requests') : i = 1 /\ i = Len(requests') /\ requests'[i] = f
  BY <1>0, <1>2, OnlyRequest
<1>5. ClientMoves
  BY <1>0, <1>1, <1>4 DEF ClientMoves, SdoInv, SdoTypeOK, StoreInv
<1>6. SdoTypeOK' /\ BufferInv' /\ StoreInv' /\ \A o : Written(o)' = Written(o)
  BY <1>5, MovesKeep
<1>7. ClientInv'
  BY <1>0, <1>6 DEF SdoInv, ClientInv
<1>8. /\ answers' = <<>> /\ Len(answers') = 0 /\ Len(answers') <= 2 /\ Len(answers') # 1
      /\ Len(answers') # 2 /\ \A i : i \notin 1 .. Len(answers')
  BY <1>0
<1>9. FrameInv'
  <2>1. \A i \in 1 .. Len(requests') :
          /\ requests'[i].k \in Begins \cup Segs \cup {"abort"}
          /\ requests'[i].k = "dexp" => requests'[i].data \in Written(requests'[i].obj)
    BY <1>1, <1>2, <1>4 DEF SdoInv, ClientInv
  <2> QED
    BY <1>0, <1>8, <2>1, FramesFit
<1>10. RestShape'
  BY <1>0 DEF RestShape, Resting
<1>11. BeginShape'
  <2>1. \A i, j \in 1 .. Len(requests') : i = j /\ ~ (i < j) /\ requests'[j] = f
    <3>1. ~ (1 < 1)
      OBVIOUS
    <3> QED
      BY <1>4, <3>1, Zenon
  <2> QED
    BY <1>3, <1>8, <2>1 DEF BeginShape
<1>12. SegShape'
  <2> SUFFICES ASSUME client.op \in Segs PROVE SegShape'
    BY <1>0 DEF SegShape
  <2>1. client.op # BeginOf' /\ BeginOf' = BeginOf
    BY <1>0 DEF BeginOf, Segs
  <2>2. \A i \in 1 .. Len(requests') :
          requests'[i].k = client.op /\ i = Len(requests') /\ requests'[i] = f
    BY <1>2, <1>4
  <2> QED
    BY <1>0, <1>3, <1>8, <2>1, <2>2 DEF SegShape
<1>13. LoadInv'
  BY <1>0 DEF SdoInv, TransferInv, LoadInv, Downloading, Done
<1>14. LeftInv'
  BY <1>0, <1>2, <1>4 DEF LeftInv
<1>15. BegunInv'
  BY <1>8 DEF BegunInv
<1>16. ReadInv'
  <2>1. Held' <=> Held
    BY <1>0 DEF Held
  <2> QED
    BY <1>0, <1>8, <2>1 DEF SdoInv, TransferInv, ReadInv, Uploading, Agree
<1>17. UploadIsSnapshot' /\ ConfirmedIsStored'
  BY <1>0 DEF UploadIsSnapshot, ConfirmedIsStored, Resting
<1> QED
  BY <1>6, <1>7, <1>9, <1>10, <1>11, <1>12, <1>13, <1>14, <1>15, <1>16, <1>17
     DEF SdoInv, ExchangeInv, TransferInv

\* The abort with which the client ends its transfer.
LEMMA AbortFrame ==
  ASSUME SdoInv
  PROVE  Aborted(client.obj) \in Frames /\ Aborted(client.obj).k = "abort"
BY DEF SdoInv, SdoTypeOK, Aborted, Frame, Frames, Kinds

LEMMA GiveUpStep ==
  ASSUME SdoInv, GiveUp, plan' = plan
  PROVE  SdoInv'
<1> DEFINE f == Aborted(client.obj)
<1>0. /\ requests = <<>> /\ answers = <<>> /\ client' = Rest
      /\ requests' \in Queued(requests, f)
      /\ UNCHANGED <<sdo, dp, answers, held, stored, plan>>
  BY DEF GiveUp, Overdue, Quiet
<1>1. f \in Frames /\ f.k = "abort"
  BY AbortFrame
<1> HIDE DEF f
<1>2. /\ requests' \in Seq(Frames)
      /\ \A i \in 1 .. Len(requests') : requests'[i].k = "abort"
  BY <1>0, <1>1, OnlyRequest
<1>3. client'.op = "rest" /\ client' \in Clients
  BY <1>0, AtRest
<1>4. ClientMoves
  BY <1>0, <1>2, <1>3 DEF ClientMoves, SdoInv, SdoTypeOK, StoreInv
<1>5. SdoTypeOK' /\ BufferInv' /\ StoreInv'
  BY <1>4, MovesKeep
<1>6. answers' = <<>> /\ Len(answers') <= 1 /\ \A i : i \notin 1 .. Len(answers')
  BY <1>0
<1>7. FrameInv'
  <2>1. \A i \in 1 .. Len(requests') : requests'[i].k # "dexp"
    BY <1>2
  <2> QED
    BY <1>0, <1>2, <1>6, <2>1, FramesFit
<1>8. RestShape'
  BY <1>2, <1>6 DEF RestShape, Live
<1>9. LeftInv'
  BY <1>2 DEF LeftInv
<1>10. BegunInv'
  BY <1>6 DEF BegunInv
<1>11. /\ ClientInv' /\ BeginShape' /\ SegShape' /\ LoadInv' /\ ReadInv'
       /\ UploadIsSnapshot' /\ ConfirmedIsStored'
  BY <1>3 DEF ClientInv, BeginShape, SegShape, LoadInv, ReadInv, UploadIsSnapshot,
              ConfirmedIsStored, Begins, Segs
<1> QED
  BY <1>5, <1>7, <1>8, <1>9, <1>10, <1>11 DEF SdoInv, ExchangeInv, TransferInv

\* The client takes the first of at most two answers.
TakenAnswer ==
  /\ answers' \in Seq(Frames) /\ answers[1] \in Frames /\ Len(answers) \in {1, 2}
  /\ Len(answers) = 1 => answers' = <<>>
  /\ Len(answers) = 2 => Len(answers') = 1 /\ answers'[1] = answers[2]
  /\ answers # <<>>

LEMMA TakesAnswer ==
  ASSUME SdoInv, answers # <<>>, answers' = Tail(answers)
  PROVE  TakenAnswer /\ Head(answers) = answers[1]
<1>1. answers \in Seq(Frames)
  BY DEF SdoInv, SdoTypeOK
<1>2. /\ answers' \in Seq(Frames) /\ Head(answers) \in Frames
      /\ Head(answers) = answers[1] /\ Len(answers) \in Nat \ {0}
      /\ Len(answers') = Len(answers) - 1
      /\ \A i \in 1 .. Len(answers) - 1 : answers'[i] = answers[i + 1]
  BY <1>1, TakenFrame
<1>3. Len(answers) <= 2
  <2>1. Resting \/ client.op \in Begins \/ client.op \in Segs
    BY DEF Resting, Begins, Segs, SdoInv, SdoTypeOK
  <2>2. Resting => Len(answers) <= 1
    BY DEF SdoInv, ExchangeInv, RestShape
  <2>3. client.op \in Begins \cup Segs => Len(answers) <= 2
    BY DEF SdoInv, ExchangeInv, BeginShape, SegShape
  <2> QED
    BY <1>2, <2>1, <2>2, <2>3
<1>4. Len(answers) \in {1, 2}
  BY <1>2, <1>3
<1>5. Len(answers) = 1 => answers' = <<>>
  BY <1>2, EmptySeq
<1>6. Len(answers) = 2 => Len(answers') = 1 /\ answers'[1] = answers[2]
  BY <1>2
<1> QED
  BY <1>2, <1>4, <1>5, <1>6 DEF TakenAnswer

\* The frames that stay are fit.
LEMMA FramesStay ==
  ASSUME SdoInv, TakenAnswer, held' = held, plan' = plan,
         NEW f, RequestsAfter(f), f.k \in Segs \cup {"abort"}
  PROVE  FrameInv'
<1>1. \A i \in 1 .. Len(answers') : Fit(answers'[i])
  <2>1. CASE Len(answers) = 1
    BY <2>1 DEF TakenAnswer
  <2>2. CASE Len(answers) = 2
    <3>1. 2 \in 1 .. Len(answers)
      BY <2>2
    <3>2. Fit(answers[2])
      BY <3>1, OldAnswers
    <3>3. \A i \in 1 .. Len(answers') : i = 1
      <4>1. \A i \in 1 .. 1 : i = 1
        OBVIOUS
      <4> QED
        BY <2>2, <4>1, Zenon DEF TakenAnswer
    <3> QED
      BY <2>2, <3>2, <3>3 DEF TakenAnswer
  <2> QED
    BY <2>1, <2>2 DEF TakenAnswer
<1>2. ASSUME NEW i \in 1 .. Len(requests')
      PROVE  /\ requests'[i].k \in Begins \cup Segs \cup {"abort"}
             /\ requests'[i].k = "dexp" =>
                  requests'[i].data \in Written(requests'[i].obj)
  <2>1. CASE i \in 1 .. Len(requests) /\ requests'[i] = requests[i]
    BY <2>1 DEF SdoInv, FrameInv
  <2>2. CASE requests'[i] = f
    BY <2>2 DEF Segs
  <2> QED
    BY <2>1, <2>2, OldOrNew
<1> QED
  BY <1>1, <1>2, FramesFit

\* The first segment of a download that is abandoned.
LEMMA LeftSegment ==
  ASSUME SdoInv, client.op = "dseg", answers # <<>>, NEW i \in 1 .. Len(requests),
         requests[i].k = "dseg"
  PROVE  LeftOver(requests[i])
<1> DEFINE f == requests[i]
<1>1. f = Request(client) /\ AtFirst
  BY DEF SdoInv, ExchangeInv, SegShape, Segs
<1> HIDE DEF f
<1>2. /\ f.obj = client.obj /\ f.toggle = client.toggle
      /\ Len(f.data) \in Nat /\ Done = client.pos + Len(f.data)
      /\ Done <= Len(client.val) /\ (f.last <=> Done = Len(client.val))
      /\ \A j \in 1 .. Len(f.data) : f.data[j] = client.val[client.pos + j]
  BY <1>1, OwnSegment DEF SdoInv
<1>3. client.pos = 0 /\ client.toggle = 0
  BY <1>1 DEF AtFirst
<1>4. Done = Len(f.data) /\ \A j \in 1 .. Len(f.data) : f.data[j] = client.val[j]
  BY <1>2, <1>3
<1>5. Agree(f.data, client.val, Len(f.data))
  BY <1>2, <1>4 DEF Agree
<1>6. client.val \in Written(f.obj)
  BY <1>2 DEF SdoInv, ClientInv
<1>7. f.last => Len(f.data) = Len(client.val)
  BY <1>2, <1>4
<1>8. ASSUME Downloading, sdo.toggle = 0 PROVE sdo.pos = 0 /\ sdo.obj = f.obj
  <2>1. /\ sdo.obj = client.obj
        /\ \/ sdo.pos = client.pos /\ sdo.toggle = client.toggle
           \/ sdo.pos = Done /\ sdo.toggle = 1 - client.toggle
    BY <1>8 DEF SdoInv, TransferInv, LoadInv
  <2> QED
    BY <1>2, <1>3, <1>8, <2>1
<1> QED
  BY <1>2, <1>3, <1>5, <1>6, <1>7, <1>8 DEF f, LeftOver

\* The transfer ends, done or not: what is still under way is left behind.
LEMMA RestStep ==
  ASSUME SdoInv, answers # <<>>, answers' = Tail(answers), client' \in Clients,
         client'.op \in {"rest", "read", "stored"},
         requests' \in Queued(requests, Aborted(client.obj)),
         UNCHANGED <<sdo, dp, held, stored, plan>>, UploadIsSnapshot', ConfirmedIsStored'
  PROVE  SdoInv'
<1> DEFINE f == Aborted(client.obj)
<1>0. TakenAnswer /\ f \in Frames /\ f.k = "abort"
  BY TakesAnswer, AbortFrame
<1> HIDE DEF f
<1>1. RequestsAfter(f)
  BY <1>0, RequestsGrow DEF f
<1>2. ClientMoves
  BY <1>0, <1>1 DEF ClientMoves, SdoInv, SdoTypeOK, StoreInv, TakenAnswer, RequestsAfter
<1>3. SdoTypeOK' /\ BufferInv' /\ StoreInv' /\ \A o : Written(o)' = Written(o)
  BY <1>2, MovesKeep
<1>4. FrameInv'
  BY <1>0, <1>1, FramesStay
<1>5. ClientInv' /\ BeginShape' /\ SegShape' /\ LoadInv' /\ ReadInv'
  BY DEF ClientInv, BeginShape, SegShape, LoadInv, ReadInv, Begins, Segs
<1>6. ASSUME NEW i \in 1 .. Len(requests'), requests'[i].k # "abort"
      PROVE  i \in 1 .. Len(requests) /\ requests'[i] = requests[i]
  BY <1>0, <1>1, <1>6, OldOrNew
<1>7. Resting \/ client.op \in Begins \/ client.op \in Segs
  BY DEF Resting, Begins, Segs, SdoInv, SdoTypeOK
<1>8. /\ Len(answers) = 2 => \A i \in 1 .. Len(requests) : requests[i].k = "abort"
      /\ \A i, j \in 1 .. Len(requests) :
           requests[i].k # "abort" /\ requests[j].k # "abort" => i = j
  <2>1. CASE Resting
    <3>1. /\ Len(answers) <= 1
          /\ \A i, j \in 1 .. Len(requests) :
               requests[i].k # "abort" /\ requests[j].k # "abort" => i = j
      BY <2>1 DEF SdoInv, ExchangeInv, RestShape, Live
    <3>2. Len(answers) # 2
      <4>1. ~ (2 <= 1)
        OBVIOUS
      <4> QED
        BY <3>1, <4>1, Zenon
    <3> QED
      BY <3>1, <3>2
  <2>2. CASE client.op \in Begins
    BY <1>0, <2>2 DEF SdoInv, ExchangeInv, BeginShape, Live, TakenAnswer
  <2>3. CASE client.op \in Segs
    <3>1. Len(answers) = 2 => requests = <<>>
      BY <2>3 DEF SdoInv, ExchangeInv, SegShape
    <3>2. \A i \in 1 .. Len(requests) : requests[i].k # "abort" => i = Len(requests)
      BY <2>3 DEF SdoInv, ExchangeInv, SegShape
    <3> QED
      BY <3>1, <3>2
  <2> QED
    BY <1>7, <2>1, <2>2, <2>3
<1>9. RestShape'
  <2>1. Len(answers') <= 1 /\ (answers' # <<>> => Len(answers) = 2)
    <3>1. Len(<<>>) = 0 /\ 0 <= 1 /\ 1 <= 1
      OBVIOUS
    <3> QED
      BY <1>0, <3>1, Zenon DEF TakenAnswer
  <2>2. \A i \in 1 .. Len(requests') : Live(i)' <=> requests'[i].k # "abort"
    BY DEF Live
  <2>3. answers' # <<>> => \A i \in 1 .. Len(requests') : ~ Live(i)'
    BY <1>6, <1>8, <2>1, <2>2
  <2>4. \A i, j \in 1 .. Len(requests') : Live(i)' /\ Live(j)' => i = j
    BY <1>6, <1>8, <2>2
  <2> QED
    BY <2>1, <2>3, <2>4 DEF RestShape
<1>10. LeftInv'
  <2>1. \A i \in 1 .. Len(requests) : requests[i].k = "dseg" => LeftOver(requests[i])
    BY OldLeft, LeftSegment
  <2>2. \A i \in 1 .. Len(requests') : requests'[i].k = "dseg" =>
          i \in 1 .. Len(requests) /\ requests'[i] = requests[i]
    BY <1>6
  <2> QED
    BY <2>1, <2>2, LeftKept
<1>11. BegunInv'
  <2> SUFFICES ASSUME Len(answers) = 2 PROVE BegunInv'
    BY <1>0 DEF BegunInv, TakenAnswer
  <2>1. Len(answers') = 1 /\ LastAnswer' = answers[2] /\ LastAnswer = answers[2]
    BY <1>0 DEF TakenAnswer, LastAnswer
  <2>2. /\ sdo' = sdo /\ (Downloading' <=> Downloading) /\ (Uploading' <=> Uploading)
        /\ (Begun' <=> Begun) /\ (Held' <=> Held) /\ Len(answers') # 2 /\ Len(answers) # 1
    BY <2>1 DEF Downloading, Uploading, Begun, Held
  <2>3. CASE client.op \in Segs
    <3>1. answers[2].k \in {"dseg", "useg", "abort"}
      BY <2>3 DEF SdoInv, ExchangeInv, SegShape, Segs
    <3>2. LastAnswer'.k \notin {"dok", "uinit"}
      BY <2>1, <3>1
    <3> QED
      BY <2>2, <3>2 DEF BegunInv
  <2>4. CASE client.op \notin Segs
    <3>1. /\ answers[2].k = "dok" /\ Downloading => Begun /\ sdo.obj = answers[2].obj
          /\ answers[2].k = "uinit" /\ Uploading =>
               Begun /\ Held /\ sdo.obj = answers[2].obj
      BY <2>1, <2>2, <2>4 DEF SdoInv, TransferInv, BegunInv
    <3> QED
      BY <2>1, <2>2, <3>1 DEF BegunInv
  <2> QED
    BY <2>3, <2>4
<1> QED
  BY <1>3, <1>4, <1>5, <1>9, <1>10, <1>11 DEF SdoInv, ExchangeInv, TransferInv

\* The answer to the begin of a segmented transfer.
BeginAnswered ==
  \/ client.op = "dinit" /\ answers[1].k = "dok" /\ answers[1].obj = client.obj
  \/ client.op = "uinit" /\ answers[1].k = "uinit" /\ answers[1].obj = client.obj

\* The server is at the begin of the same transfer, unless it dropped it.
LEMMA ServerBegun ==
  ASSUME SdoInv, TakenAnswer, BeginAnswered
  PROVE  /\ client.op = "dinit" /\ Downloading => Begun /\ sdo.obj = client.obj
         /\ client.op = "uinit" /\ Uploading => Begun /\ Held /\ sdo.obj = client.obj
<1>0. answers # <<>> /\ client.op \notin Segs /\ client.op \in Begins
  BY DEF BeginAnswered, TakenAnswer, Segs, Begins
<1>1. /\ LastAnswer.k = "dok" /\ Downloading =>
           /\ Begun
           /\ \/ sdo.obj = LastAnswer.obj
              \/ Len(answers) = 1 /\ client.op = "dinit" /\ sdo.obj = client.obj
      /\ LastAnswer.k = "uinit" /\ Uploading =>
           /\ Begun /\ Held
           /\ \/ sdo.obj = LastAnswer.obj
              \/ Len(answers) = 1 /\ client.op = "uinit" /\ sdo.obj = client.obj
      /\ Len(answers) = 2 =>
           /\ Downloading => LastAnswer.k = "dok"
           /\ Uploading => LastAnswer.k = "uinit"
  BY <1>0 DEF SdoInv, TransferInv, BegunInv
<1>2. CASE Len(answers) = 1
  <2>1. LastAnswer = answers[1]
    BY <1>2 DEF LastAnswer
  <2> QED
    BY <1>1, <2>1 DEF BeginAnswered
<1>3. CASE Len(answers) = 2
  <2>1. LastAnswer = answers[2] /\ OwnBegin(answers[2]) /\ Len(answers) # 1
    BY <1>0, <1>3 DEF LastAnswer, SdoInv, ExchangeInv, BeginShape
  <2>2. answers[2].k # "abort" => answers[2].obj = client.obj
    BY <2>1 DEF OwnBegin
  <2> QED
    BY <1>1, <1>3, <2>1, <2>2
<1> QED
  BY <1>2, <1>3 DEF TakenAnswer

\* The client goes on to the first segment.
LEMMA FirstSegmentStep ==
  ASSUME SdoInv, answers # <<>>, answers' = Tail(answers), BeginAnswered,
         NEW c \in Clients, c.op = IF client.op = "dinit" THEN "dseg" ELSE "useg",
         c.obj = client.obj, c.val = client.val, c.pos = client.pos,
         c.toggle = client.toggle, Send(c), UNCHANGED <<sdo, dp, held, stored, plan>>
  PROVE  SdoInv'
<1> DEFINE f == Request(c)
<1>0. client' = c /\ requests' \in Queued(requests, f) /\ TakenAnswer
  BY TakesAnswer DEF Send
<1>1. /\ client.op \in Begins /\ client.op \notin Segs /\ c.op \in Segs /\ c.op \notin Begins
      /\ client.op \in {"dinit", "uinit"} /\ c.op # client.op
      /\ c.op \notin {"rest", "read", "stored", "abort"}
      /\ (c.op = "dseg" <=> client.op = "dinit") /\ (c.op = "useg" <=> client.op = "uinit")
  BY DEF BeginAnswered, Begins, Segs
<1>2. /\ c.pos = 0 /\ c.toggle = 0 /\ (client.op = "uinit" => c.val = <<>>)
      /\ (client.op = "dinit" => c.val \in Written(c.obj))
      /\ c.val \in Seq(Bytes) /\ Len(c.val) \in Nat /\ c.pos <= Len(c.val)
  <2>1. c.pos = 0 /\ c.toggle = 0 /\ (client.op = "uinit" => c.val = <<>>)
        /\ (client.op = "dinit" => c.val \in Written(c.obj))
    BY <1>1 DEF SdoInv, ClientInv
  <2>2. c.val \in Seq(Bytes) /\ Len(c.val) \in Nat
    BY LenProperties DEF Clients
  <2> QED
    BY <2>1, <2>2
<1>3. f \in Frames /\ f.k = c.op
  BY <1>1, <1>2, RequestFrame
<1>4. Request(client)' = f
  BY <1>0
<1> HIDE DEF f
<1>5. RequestsAfter(f)
  BY <1>0, <1>3, RequestsGrow
<1>6. ClientMoves
  BY <1>0, <1>5 DEF ClientMoves, SdoInv, SdoTypeOK, StoreInv, TakenAnswer, RequestsAfter
<1>7. SdoTypeOK' /\ BufferInv' /\ StoreInv' /\ \A o : Written(o)' = Written(o)
  BY <1>6, MovesKeep
<1>8. FrameInv'
  BY <1>0, <1>1, <1>3, <1>5, FramesStay
<1>9. ClientInv'
  BY <1>0, <1>1, <1>2, <1>7 DEF ClientInv
<1>10. /\ RestShape' /\ BeginShape' /\ LeftInv' /\ BegunInv' /\ UploadIsSnapshot'
       /\ ConfirmedIsStored'
  <2>1. RestShape' /\ BeginShape' /\ UploadIsSnapshot' /\ ConfirmedIsStored'
    BY <1>0, <1>1 DEF RestShape, Resting, BeginShape, UploadIsSnapshot, ConfirmedIsStored
  <2>2. BegunInv'
    BY <1>0, <1>1 DEF BegunInv
  <2>3. LeftInv'
    <3> SUFFICES ASSUME client'.op # "dseg" PROVE LeftInv'
      BY DEF LeftInv
    <3>1. ASSUME NEW i \in 1 .. Len(requests'), requests'[i].k = "dseg"
          PROVE  i \in 1 .. Len(requests) /\ requests'[i] = requests[i]
      <4>1. requests'[i] # f
        BY <1>0, <1>3, <3>1
      <4> QED
        BY <1>5, <4>1, OldOrNew
    <3>2. client.op # "dseg"
      BY <1>1
    <3> QED
      BY <3>1, <3>2, OldLeft, LeftKept
  <2> QED
    BY <2>1, <2>2, <2>3
\* What is left of the begin: a second one of its own, or a second answer.
<1>11. ASSUME NEW i \in 1 .. Len(requests), requests[i].k # "abort"
       PROVE  /\ requests[i] = Request(client) /\ Len(answers) = 1 /\ answers' = <<>>
              /\ \A j \in 1 .. Len(requests) : requests[j].k # "abort" => i = j
  <2>1. Len(answers) = 2 => \A j \in 1 .. Len(requests) : requests[j].k = "abort"
    BY <1>1 DEF SdoInv, ExchangeInv, BeginShape, Live
  <2>2. Len(answers) = 1 /\ answers' = <<>>
    BY <1>0, <1>11, <2>1 DEF TakenAnswer
  <2>3. /\ \A j \in 1 .. Len(requests) : requests[j].k # "abort" => requests[j] = Request(client)
        /\ \A j, m \in 1 .. Len(requests) :
             requests[j].k # "abort" /\ requests[m].k # "abort" => j = m
    BY <1>1, <2>2 DEF SdoInv, ExchangeInv, BeginShape, Live
  <2> QED
    BY <1>11, <2>2, <2>3
<1>12. Request(client).k = client.op /\ Request(client).obj = client.obj
  BY <1>1, BeginRequest DEF SdoInv
<1>13. answers' # <<>> => Len(answers') = 1 /\ answers'[1].k \in {"dok", "uinit", "uexp", "abort"}
  <2> SUFFICES ASSUME Len(answers) = 2 PROVE answers[2].k \in {"dok", "uinit", "uexp", "abort"}
    BY <1>0 DEF TakenAnswer
  <2>1. OwnBegin(answers[2])
    BY <1>1 DEF SdoInv, ExchangeInv, BeginShape
  <2> QED
    BY <2>1 DEF OwnBegin
<1>14. BeginOf' = client.op /\ AtFirst'
  BY <1>0, <1>1, <1>2 DEF BeginOf, AtFirst
<1>15. SegShape'
  <2>1. ASSUME NEW i \in 1 .. Len(requests')
        PROVE  /\ requests'[i].k \in {"abort", client.op, c.op}
               /\ requests'[i].k = c.op => i = Len(requests') /\ requests'[i] = f
               /\ requests'[i].k = client.op =>
                    /\ answers' = <<>> /\ requests'[i].obj = client.obj
                    /\ \A j \in 1 .. Len(requests') : requests'[j].k = client.op => i = j
    <3>1. CASE i \in 1 .. Len(requests) /\ requests'[i] = requests[i]
      <4>1. CASE requests[i].k = "abort"
        BY <1>1, <3>1, <4>1
      <4>2. CASE requests[i].k # "abort"
        <5>1. /\ requests[i] = Request(client) /\ answers' = <<>>
              /\ \A j \in 1 .. Len(requests) : requests[j].k # "abort" => i = j
          BY <1>11, <3>1, <4>2
        <5>2. ASSUME NEW j \in 1 .. Len(requests'), requests'[j].k = client.op PROVE i = j
          <6>1. requests'[j] # f /\ client.op # "abort"
            BY <1>1, <1>3, <5>2
          <6>2. j \in 1 .. Len(requests) /\ requests[j].k # "abort"
            BY <1>5, <5>2, <6>1, OldOrNew
          <6> QED
            BY <5>1, <6>2
        <5> QED
          BY <1>1, <1>12, <3>1, <5>1, <5>2
      <4> QED
        BY <4>1, <4>2
    <3>2. CASE i = Len(requests') /\ requests'[i] = f
      BY <1>1, <1>3, <3>2
    <3> QED
      BY <1>5, <3>1, <3>2, OldOrNew
  <2>2. Len(answers') <= 2 /\ Len(answers') # 2
    <3>1. Len(<<>>) = 0 /\ 0 <= 2 /\ 1 <= 2 /\ 0 # 2 /\ 1 # 2
      OBVIOUS
    <3> QED
      BY <1>13, <3>1, Zenon
  <2>3. answers' # <<>> => answers'[1].k # c.op
    BY <1>13, <1>1 DEF Segs
  <2>4. client'.op = c.op /\ client'.obj = client.obj
    BY <1>0
  <2> QED
    BY <1>4, <1>14, <2>1, <2>2, <2>3, <2>4 DEF SegShape
<1>17. LoadInv'
  <2> SUFFICES ASSUME client.op = "dinit" PROVE LoadInv'
    BY <1>0, <1>1 DEF LoadInv
  <2>1. answers' # <<>> => answers'[1].k # "dseg"
    BY <1>13
  <2>2. Downloading => sdo.pos = 0 /\ sdo.toggle = 0 /\ sdo.obj = client.obj
    BY <1>0, ServerBegun DEF Begun
  <2>3. sdo' = sdo /\ (Downloading' <=> Downloading)
    BY DEF Downloading
  <2>4. sdo.pos = 0 => Agree(sdo.buf, c.val, sdo.pos)
    <3>1. 0 <= Len(sdo.buf) /\ 0 <= Len(c.val)
      BY <1>2, LenProperties DEF SdoInv, SdoTypeOK
    <3> QED
      BY <3>1 DEF Agree
  <2>5. (Agree(sdo.buf, client.val, sdo.pos))' <=> Agree(sdo.buf, c.val, sdo.pos)
    BY <1>0, <2>3 DEF Agree
  <2> QED
    BY <1>0, <1>2, <2>1, <2>2, <2>3, <2>4, <2>5 DEF LoadInv
<1>18. ReadInv'
  <2> SUFFICES ASSUME client.op = "uinit" PROVE ReadInv'
    BY <1>0, <1>1 DEF ReadInv
  <2>1. answers' # <<>> => answers'[1].k # "useg"
    BY <1>13
  <2>2. Uploading => sdo.pos = 0 /\ sdo.toggle = 0 /\ Held /\ sdo.obj = client.obj
    BY <1>0, ServerBegun DEF Begun
  <2>3. sdo' = sdo /\ (Uploading' <=> Uploading) /\ (Held' <=> Held)
    BY DEF Uploading, Held
  <2>4. Len(c.val) = 0 /\ Len(c.val) <= sdo.len /\ Agree(sdo.buf, c.val, Len(c.val))
    <3>1. Len(c.val) = 0
      BY <1>2
    <3>2. 0 <= Len(sdo.buf) /\ 0 <= sdo.len
      BY LenProperties, Sizes DEF SdoInv, SdoTypeOK
    <3> QED
      BY <3>1, <3>2 DEF Agree
  <2>5. (Agree(sdo.buf, client.val, Len(client.val)))' <=> Agree(sdo.buf, c.val, Len(c.val))
    BY <1>0, <2>3 DEF Agree
  <2> QED
    BY <1>0, <1>2, <2>1, <2>2, <2>3, <2>4, <2>5 DEF ReadInv
<1> QED
  BY <1>7, <1>8, <1>9, <1>10, <1>15, <1>17, <1>18 DEF SdoInv, ExchangeInv, TransferInv

\* The client goes on to the next segment: nothing else is under way.
LEMMA NextSegmentStep ==
  ASSUME SdoInv, answers # <<>>, answers' = Tail(answers), client.op \in Segs,
         answers[1].k = client.op, NEW c \in Clients, c.op = client.op,
         c.obj = client.obj, c.toggle = 1 - client.toggle,
         \/ client.op = "dseg" /\ c.val = client.val /\ c.pos = Done
         \/ client.op = "useg" /\ c.val = Got /\ ~ answers[1].last,
         Send(c), UNCHANGED <<sdo, dp, held, stored, plan>>
  PROVE  SdoInv'
<1> DEFINE f == Request(c)
<1>0. client' = c /\ requests' \in Queued(requests, f) /\ TakenAnswer
  BY TakesAnswer DEF Send
<1>1. requests = <<>> /\ answers' = <<>>
  BY <1>0 DEF SdoInv, ExchangeInv, SegShape, TakenAnswer
<1>2. client.op = "dseg" => Done \in Nat /\ Done <= Len(client.val)
  BY OwnSegment DEF SdoInv
<1>3. f \in Frames /\ f.k = c.op
  <2>1. c.op = "dseg" => c.pos <= Len(c.val)
    BY <1>2 DEF Segs
  <2> QED
    BY <2>1, RequestFrame DEF Segs
<1>4. Request(client)' = f
  BY <1>0
<1> HIDE DEF f
<1>5. /\ requests' \in Seq(Frames)
      /\ \A i \in 1 .. Len(requests') : i = 1 /\ i = Len(requests') /\ requests'[i] = f
  BY <1>0, <1>1, <1>3, OnlyRequest
<1>6. ClientMoves
  BY <1>0, <1>5 DEF ClientMoves, SdoInv, SdoTypeOK, StoreInv, TakenAnswer
<1>7. SdoTypeOK' /\ BufferInv' /\ StoreInv' /\ \A o : Written(o)' = Written(o)
  BY <1>6, MovesKeep
<1>8. FrameInv'
  <2>1. RequestsAfter(f)
    BY <1>0, <1>3, RequestsGrow
  <2> QED
    BY <1>0, <1>3, <2>1, FramesStay
<1>9. ClientInv'
  <2>1. c.op = "dseg" => c.val \in Written(c.obj) /\ c.pos <= Len(c.val)
    BY <1>2 DEF SdoInv, ClientInv, Segs
  <2> QED
    BY <1>0, <1>7, <2>1 DEF ClientInv, Segs, Begins
<1>10. /\ RestShape' /\ BeginShape' /\ BegunInv' /\ UploadIsSnapshot' /\ ConfirmedIsStored'
  BY <1>0 DEF RestShape, Resting, BeginShape, BegunInv, UploadIsSnapshot,
              ConfirmedIsStored, Segs, Begins
<1>11. LeftInv'
  BY <1>0, <1>3, <1>5 DEF LeftInv
<1>12. SegShape'
  <2>1. c.op # BeginOf'
    BY <1>0 DEF BeginOf, Segs
  <2>2. \A i \in 1 .. Len(requests') :
          requests'[i].k = c.op /\ i = Len(requests') /\ requests'[i] = f
    BY <1>3, <1>5
  <2>3. Len(answers') <= 2 /\ Len(answers') # 2
    <3>1. Len(<<>>) = 0 /\ 0 <= 2 /\ 0 # 2
      OBVIOUS
    <3> QED
      BY <1>1, <3>1, Zenon
  <2> QED
    BY <1>0, <1>1, <1>4, <2>1, <2>2, <2>3 DEF SegShape
<1>13. LoadInv'
  <2> SUFFICES ASSUME client.op = "dseg" PROVE LoadInv'
    BY <1>0 DEF LoadInv
  <2>1. Downloading => /\ sdo.obj = client.obj /\ Agree(sdo.buf, client.val, sdo.pos)
                       /\ sdo.pos = Done /\ sdo.toggle = 1 - client.toggle
    BY DEF SdoInv, TransferInv, LoadInv
  <2>2. sdo' = sdo /\ (Downloading' <=> Downloading)
    BY DEF Downloading
  <2>3. c.val = client.val /\ c.pos = Done
    OBVIOUS
  <2>4. (Agree(sdo.buf, client.val, sdo.pos))' <=> Agree(sdo.buf, client.val, sdo.pos)
    BY <1>0, <2>2, <2>3 DEF Agree
  <2> QED
    BY <1>0, <1>1, <2>1, <2>2, <2>3, <2>4 DEF LoadInv
<1>14. ReadInv'
  <2> SUFFICES ASSUME client.op = "useg" PROVE ReadInv'
    BY <1>0 DEF ReadInv
  <2>1. c.val = Got /\ ~ answers[1].last
    OBVIOUS
  <2>2. Uploading => /\ sdo.obj = client.obj /\ Held /\ sdo.pos = Len(Got)
                     /\ sdo.toggle = 1 - client.toggle /\ Agree(sdo.buf, Got, Len(Got))
                     /\ sdo.pos <= sdo.len
    BY <2>1 DEF SdoInv, TransferInv, ReadInv, BufferInv
  <2>3. sdo' = sdo /\ (Uploading' <=> Uploading) /\ (Held' <=> Held)
    BY DEF Uploading, Held
  <2>4. (Agree(sdo.buf, client.val, Len(client.val)))' <=> Agree(sdo.buf, Got, Len(Got))
    BY <1>0, <2>1, <2>3 DEF Agree
  <2> HIDE DEF Got
  <2> QED
    BY <1>0, <1>1, <2>1, <2>2, <2>3, <2>4 DEF ReadInv
<1> QED
  BY <1>7, <1>8, <1>9, <1>10, <1>11, <1>12, <1>13, <1>14 DEF SdoInv, ExchangeInv, TransferInv

\* The client takes an answer.
LEMMA ReceiveStep ==
  ASSUME SdoInv, Receive, plan' = plan
  PROVE  SdoInv'
<1> DEFINE f == answers[1]
<1>0. /\ answers # <<>> /\ answers' = Tail(answers)
      /\ UNCHANGED <<sdo, dp, held, stored, plan>>
  BY DEF Receive
<1>1. TakenAnswer /\ Head(answers) = f /\ f \in Frames /\ f.data \in Seq(Bytes)
  BY <1>0, TakesAnswer DEF TakenAnswer, Frames
<1>2. IF Resting \/ f.k = "abort"
      THEN client' = Rest /\ UNCHANGED requests
      ELSE IF Expected(f) THEN Proceed(f)
      ELSE /\ client' = Rest
           /\ requests' \in Queued(requests, Aborted(client.obj))
  BY <1>1 DEF Receive
<1>3. /\ client \in Clients /\ client.val \in Seq(Bytes) /\ client.toggle \in {0, 1}
      /\ client.pos \in Nat /\ client.obj \in Objects /\ client.size \in Nat
  BY DEF SdoInv, SdoTypeOK, Clients
<1>4. requests' = requests => requests' \in Queued(requests, Aborted(client.obj))
  BY DEF Queued
<1>5. CASE client' = Rest /\ requests' \in Queued(requests, Aborted(client.obj))
  <2>1. client' \in Clients /\ client'.op = "rest"
    BY <1>5, AtRest
  <2>2. UploadIsSnapshot' /\ ConfirmedIsStored'
    BY <2>1 DEF UploadIsSnapshot, ConfirmedIsStored
  <2> QED
    BY <1>0, <1>5, <2>1, <2>2, RestStep
<1>6. CASE ~ Resting /\ f.k # "abort" /\ Expected(f) /\ Proceed(f)
  <2> HIDE DEF f
  <2>1. client.op \in {"dexp", "dinit", "dseg", "uinit", "useg"}
    BY <1>3, <1>6 DEF Clients, Resting
  <2>2. CASE client.op = "dexp"
    <3>1. client' = Rest /\ requests' = requests
      BY <1>6, <2>2 DEF Proceed, Expected
    <3> QED
      BY <1>4, <1>5, <3>1
  <2>3. CASE client.op = "dinit"
    <3> DEFINE c == [client EXCEPT !.op = "dseg"]
    <3>1. Send(c) /\ f.k = "dok" /\ f.obj = client.obj
      BY <1>6, <2>3 DEF Proceed, Expected
    <3>2. /\ c \in Clients /\ c.op = "dseg" /\ c.obj = client.obj /\ c.val = client.val
          /\ c.pos = client.pos /\ c.toggle = client.toggle
      BY <1>3 DEF Clients
    <3>3. BeginAnswered
      BY <2>3, <3>1 DEF BeginAnswered, f
    <3> HIDE DEF c
    <3> QED
      BY <1>0, <2>3, <3>1, <3>2, <3>3, FirstSegmentStep
  <2>4. CASE client.op = "dseg"
    <3>1. f.k = "dseg"
      BY <1>6, <2>4 DEF Expected
    <3>2. IF Done = Len(client.val)
          THEN client' = [client EXCEPT !.op = "stored"] /\ UNCHANGED requests
          ELSE Send([client EXCEPT !.pos = Done, !.toggle = 1 - @])
      <4> DEFINE d == client.pos + Least(SegBytes, Len(client.val) - client.pos)
      <4>1. IF d = Len(client.val)
            THEN client' = [client EXCEPT !.op = "stored"] /\ UNCHANGED requests
            ELSE Send([client EXCEPT !.pos = d, !.toggle = 1 - @])
        BY <1>6, <2>4, <3>1 DEF Proceed
      <4>2. d = Done
        BY DEF Done
      <4> HIDE DEF d
      <4> QED
        BY <4>1, <4>2
    <3>3. CASE Done = Len(client.val)
      <4>1. client' = [client EXCEPT !.op = "stored"] /\ requests' = requests
        BY <3>2, <3>3
      <4>2. client' \in Clients /\ client'.op = "stored"
        BY <1>3, <4>1 DEF Clients
      <4>3. stored
        BY <1>0, <2>4, <3>1, <3>3 DEF SdoInv, TransferInv, LoadInv, f
      <4>4. UploadIsSnapshot' /\ ConfirmedIsStored'
        BY <1>0, <4>2, <4>3 DEF UploadIsSnapshot, ConfirmedIsStored
      <4> QED
        BY <1>0, <1>4, <4>1, <4>2, <4>4, RestStep
    <3>4. CASE Done # Len(client.val)
      <4> DEFINE c == [client EXCEPT !.pos = Done, !.toggle = 1 - @]
      <4>1. Send(c)
        BY <3>2, <3>4
      <4>2. Done \in Nat /\ 1 - client.toggle \in {0, 1}
        BY <1>3, <2>4, OwnSegment DEF SdoInv
      <4>3. /\ c \in Clients /\ c.op = client.op /\ c.obj = client.obj /\ c.val = client.val
            /\ c.pos = Done /\ c.toggle = 1 - client.toggle
        BY <1>3, <4>2 DEF Clients
      <4>4. client.op \in Segs /\ answers[1].k = client.op
        BY <2>4, <3>1 DEF Segs, f
      <4> HIDE DEF c
      <4> QED
        BY <1>0, <2>4, <4>1, <4>3, <4>4, NextSegmentStep
    <3> QED
      BY <3>3, <3>4
  <2>5. CASE client.op = "uinit" /\ f.k = "uinit"
    <3> DEFINE c == [client EXCEPT !.op = "useg"]
    <3>1. Send(c) /\ f.obj = client.obj
      BY <1>6, <2>5 DEF Proceed, Expected
    <3>2. /\ c \in Clients /\ c.op = "useg" /\ c.obj = client.obj /\ c.val = client.val
          /\ c.pos = client.pos /\ c.toggle = client.toggle
      BY <1>3 DEF Clients
    <3>3. BeginAnswered
      BY <2>5, <3>1 DEF BeginAnswered, f
    <3> HIDE DEF c
    <3> QED
      BY <1>0, <2>5, <3>1, <3>2, <3>3, FirstSegmentStep
  \* The bytes of an answer are taken over.
  <2>6. CASE (client.op = "uinit" /\ f.k # "uinit") \/ client.op = "useg"
    <3>1. /\ (client.op = "uinit" => f.k = "uexp" /\ f.obj = client.obj)
          /\ (client.op = "useg" => f.k = "useg")
      BY <1>6, <2>6 DEF Expected
    <3>2. IF f.last
          THEN client' = [client EXCEPT !.op = "read", !.val = Got] /\ UNCHANGED requests
          ELSE Send([client EXCEPT !.val = Got, !.toggle = 1 - @])
      BY <1>6, <2>6, <3>1 DEF Proceed, Got, f
    <3>3. Got \in Seq(Bytes)
      BY <1>1, <1>3, ConcatProperties DEF Got, f
    <3>4. CASE f.last
      <4>1. client' = [client EXCEPT !.op = "read", !.val = Got] /\ requests' = requests
        BY <3>2, <3>4
      <4>2. client' \in Clients /\ client'.op = "read" /\ client'.obj = client.obj /\ client'.val = Got
        BY <1>3, <3>3, <4>1 DEF Clients
      <4>3. ASSUME client.obj = "text"
            PROVE  \E v \in held : Got = IF Len(v) <= ExpBytes THEN Expedited(v) ELSE v
        <5>1. CASE client.op = "useg"
          <6>1. Got \in held /\ ExpBytes < Len(Got)
            BY <1>0, <3>1, <3>4, <4>3, <5>1 DEF SdoInv, TransferInv, ReadInv, f
          <6>2. ~ (Len(Got) <= ExpBytes)
            BY <3>3, <6>1, LenProperties, Sizes
          <6> QED
            BY <6>1, <6>2
        <5>2. CASE client.op = "uinit"
          <6>1. 1 \in 1 .. Len(answers)
            BY <1>1 DEF TakenAnswer
          <6>2. PICK w \in held : Len(w) <= ExpBytes /\ f.data = Expedited(w)
            BY <3>1, <4>3, <5>2, <6>1 DEF SdoInv, FrameInv, f
          <6>3. client.val = <<>>
            BY <5>2 DEF SdoInv, ClientInv
          <6>4. Got = f.data
            BY <1>1, <6>3, ConcatEmptySeq DEF Got, f
          <6> QED
            BY <6>2, <6>4
        <5> QED
          BY <2>6, <5>1, <5>2
      <4>4. UploadIsSnapshot' /\ ConfirmedIsStored'
        <5>1. \A v : Expedited(v)' = Expedited(v)
          BY DEF Expedited
        <5> QED
          BY <1>0, <4>2, <4>3, <5>1 DEF UploadIsSnapshot, ConfirmedIsStored
      <4> QED
        BY <1>0, <1>4, <4>1, <4>2, <4>4, RestStep
    <3>5. CASE ~ f.last
      <4> DEFINE c == [client EXCEPT !.val = Got, !.toggle = 1 - @]
      <4>1. Send(c)
        BY <3>2, <3>5
      <4>2. client.op = "useg"
        <5>1. 1 \in 1 .. Len(answers)
          BY <1>1 DEF TakenAnswer
        <5>2. f.k = "uexp" => f.last
          BY <5>1 DEF SdoInv, FrameInv, f
        <5> QED
          BY <2>6, <3>1, <3>5, <5>2
      <4>3. 1 - client.toggle \in {0, 1}
        BY <1>3
      <4>4. /\ c \in Clients /\ c.op = client.op /\ c.obj = client.obj /\ c.val = Got
            /\ c.toggle = 1 - client.toggle
        BY <1>3, <3>3, <4>3 DEF Clients
      <4>5. client.op \in Segs /\ answers[1].k = client.op /\ ~ answers[1].last
        BY <3>1, <3>5, <4>2 DEF Segs, f
      <4> HIDE DEF c
      <4> QED
        BY <1>0, <4>1, <4>2, <4>4, <4>5, NextSegmentStep
    <3> QED
      BY <3>4, <3>5
  <2> QED
    BY <2>1, <2>2, <2>3, <2>4, <2>5, <2>6
<1> QED
  BY <1>2, <1>4, <1>5, <1>6

-----------------------------------------------------------------------------
(* The invariant, and what follows from it. *)

LEMMA SdoBegins ==
  ASSUME SdoInit
  PROVE  SdoInv
<1>1. /\ requests = <<>> /\ answers = <<>> /\ client = Rest /\ held = {<<"a">>}
      /\ stored = FALSE /\ plan \in Plans
      /\ sdo = [state |-> "idle", obj |-> "text", toggle |-> 0, len |-> 0, pos |-> 0,
                buf |-> <<>>]
  BY DEF SdoInit, Idle
<1>2. /\ dp = [o \in Points |-> CASE o = "text" -> <<"a">> [] o = "secret" -> Secret
                                  [] o = "high" -> <<"2">> [] OTHER -> <<"1">>]
      /\ Points = {"text", "secret", "low", "high", "state"}
  BY DEF SdoInit, Points, Objects
<1>3. /\ dp.text = <<"a">> /\ dp.secret = Secret /\ dp.high = <<"2">>
      /\ dp.low = <<"1">> /\ dp.state = <<"1">>
  BY <1>2
<1>4. /\ <<"a">> \in Seq(Bytes) /\ <<"1">> \in Seq(Bytes) /\ <<"2">> \in Seq(Bytes)
      /\ Secret \in Seq(Bytes)
  BY DEF Bytes, Secret
<1>5. dp \in [Points -> Seq(Bytes)]
  BY <1>2, <1>4
<1>6. /\ client.op = "rest" /\ client \in Clients /\ sdo.state = "idle"
      /\ Len(requests) = 0 /\ Len(answers) = 0
      /\ \A i : i \notin 1 .. Len(requests) /\ i \notin 1 .. Len(answers)
  BY <1>1, AtRest
<1>7. SdoTypeOK
  <2>1. sdo \in Servers /\ Len(sdo.buf) <= BufBytes
    BY <1>1, Sizes DEF Servers, Objects
  <2>2. requests \in Seq(Frames) /\ answers \in Seq(Frames) /\ held \subseteq Seq(Bytes)
    BY <1>1, <1>4
  <2> QED
    BY <1>1, <1>5, <1>6, <2>1, <2>2 DEF SdoTypeOK, Servers, Clients
<1>8. WritesAreWhole
  <2>1. Number(dp.low) = 1 /\ Number(dp.high) = 2
    BY <1>3 DEF Number
  <2> QED
    BY <1>3, <2>1 DEF WritesAreWhole, Digits
<1>9. StoreInv
  <2>1. Len(dp.text) <= BufBytes
    BY <1>3, Sizes
  <2> QED
    BY <1>1, <1>3, <1>8, <2>1 DEF StoreInv
<1>10. /\ ClientInv /\ BeginShape /\ SegShape /\ LoadInv /\ ReadInv
       /\ UploadIsSnapshot /\ ConfirmedIsStored /\ BufferInv /\ BegunInv
  BY <1>1, <1>6 DEF ClientInv, BeginShape, SegShape, LoadInv, ReadInv, Begins, Segs, BufferInv,
                    UploadIsSnapshot, ConfirmedIsStored, Downloading, Uploading, BegunInv
<1>11. FrameInv /\ RestShape /\ LeftInv
  <2>1. Len(answers) <= 1
    BY <1>6
  <2> QED
    BY <1>1, <1>6, <2>1 DEF FrameInv, RestShape, LeftInv
<1> QED
  BY <1>7, <1>9, <1>10, <1>11 DEF SdoInv, ExchangeInv, TransferInv

LEMMA SdoStays ==
  ASSUME SdoInv, UNCHANGED sdoVars
  PROVE  SdoInv'
<1>1. /\ UNCHANGED <<sdo, requests, answers, client, stored, plan>> /\ dp' = dp
      /\ held' = held
  BY DEF sdoVars
<1>2. /\ ExchangeInv' /\ TransferInv' /\ ClientInv' /\ FrameInv' /\ UploadIsSnapshot'
      /\ ConfirmedIsStored'
  BY <1>1, TransfersKept
<1>3. ClientMoves
  BY <1>1 DEF ClientMoves, Clients, SdoInv, SdoTypeOK, StoreInv
<1>4. SdoTypeOK' /\ StoreInv'
  BY <1>3, MovesKeep
<1> QED
  BY <1>2, <1>4 DEF SdoInv

\* The inductive invariant of server, queues and client: the shape of the
\* exchange in each phase of the client's transfer (at most what is left of
\* one earlier transfer beside its own), agreement of the server's buffer
\* with what the client has sent or received, and the contents of the store.
THEOREM SdoInvariant == SdoSpec => []SdoInv
<1>1. SdoInit => SdoInv
  BY SdoBegins
<1>2. SdoInv /\ [SdoNext]_sdoVars => SdoInv'
  <2> SUFFICES ASSUME SdoInv, [SdoNext]_sdoVars PROVE SdoInv'
    OBVIOUS
  <2>1. CASE UNCHANGED sdoVars
    BY <2>1, SdoStays
  <2>2. CASE SdoNext
    <3>1. plan' = plan /\ Step
      BY <2>2 DEF SdoNext
    <3>2. CASE Serve
      BY <3>1, <3>2, ServeStep
    <3>3. CASE SdoTimeout
      BY <3>1, <3>3, SdoTimeoutStep
    <3>4. CASE NodeStops
      BY <3>1, <3>4, NodeStopsStep
    <3>5. CASE Download
      BY <3>1, <3>5, DownloadStep
    <3>6. CASE Upload
      BY <3>1, <3>6, UploadStep
    <3>7. CASE Receive
      BY <3>1, <3>7, ReceiveStep
    <3>8. CASE Repeat
      BY <3>1, <3>8, RepeatStep
    <3>9. CASE GiveUp
      BY <3>1, <3>9, GiveUpStep
    <3>10. CASE CloudWrite
      BY <3>1, <3>10, CloudWriteStep
    <3> QED
      BY <3>1, <3>2, <3>3, <3>4, <3>5, <3>6, <3>7, <3>8, <3>9, <3>10 DEF Step
  <2> QED
    BY <2>1, <2>2
<1> QED
  BY <1>1, <1>2, PTL DEF SdoSpec

\* The transfer of the server stays inside its buffer and the frames are of
\* the kinds sdo_rx and the client know, whatever was lost or repeated.
THEOREM SdoTypes == SdoSpec => []SdoTypeOK
<1>1. SdoInv => SdoTypeOK
  BY DEF SdoInv
<1> QED
  BY <1>1, SdoInvariant, PTL

\* For values of every length, every segment and buffer size and every queue
\* length: a datapoint behind an object only ever holds a value somebody wrote
\* as a whole, and the minimum stays below the maximum (sdo_download_segment,
\* od_write_cb, dp_write_batch).
THEOREM WritesStayWhole == SdoSpec => []WritesAreWhole
<1>1. SdoInv => WritesAreWhole
  BY DEF SdoInv, StoreInv
<1> QED
  BY <1>1, SdoInvariant, PTL

\* What a client has read of the text is one value it had during the read
\* (sdo_upload_initiate, sdo_upload_segment).
THEOREM UploadsAreSnapshots == SdoSpec => []UploadIsSnapshot
<1>1. SdoInv => UploadIsSnapshot
  BY DEF SdoInv
<1> QED
  BY <1>1, SdoInvariant, PTL

\* A segmented download that was confirmed to the end has been stored
\* (sdo_download_segment answers the last segment behind od_write).
THEOREM ConfirmedWasStored == SdoSpec => []ConfirmedIsStored
<1>1. SdoInv => ConfirmedIsStored
  BY DEF SdoInv
<1> QED
  BY <1>1, SdoInvariant, PTL

\* No byte of a password is ever in a frame the node sends, although the
\* buffer an upload is sent from has held one (od_read_cb refuses secrets,
\* sdo_upload_segment sends no byte behind the length).
THEOREM SecretStaysInside == SdoSpec => []SecretIsNeverSent
<1>1. SdoInv => SecretIsNeverSent
  <2> SUFFICES ASSUME SdoInv, NEW i \in DOMAIN answers, NEW j \in DOMAIN answers[i].data
               PROVE  answers[i].data[j] # "s"
    BY DEF SecretIsNeverSent
  <2>1. answers \in Seq(Frames)
    BY DEF SdoInv, SdoTypeOK
  <2>2. i \in 1 .. Len(answers) /\ answers[i] \in Frames
    BY <2>1, LenProperties, ElementOfSeq
  <2>3. answers[i].data \in Seq(Bytes)
    BY <2>2 DEF Frames
  <2>4. j \in 1 .. Len(answers[i].data)
    BY <2>3, LenProperties
  <2> QED
    BY <2>2, <2>4 DEF SdoInv, FrameInv
<1> QED
  BY <1>1, SdoInvariant, PTL
=============================================================================
