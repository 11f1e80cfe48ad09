--------------------------- MODULE CommAdaptation ---------------------------
(***************************************************************************)
(* Power mode and communication adaptation: power_mgmt.c, the coordination *)
(* in main.c, the POOR/GOOD edges of link_quality.c and the event that     *)
(* carries them.                                                           *)
(*                                                                         *)
(* The monitor task ticks the power manager and the link supervision; the  *)
(* requesters (websocket and OTA task) note activity; the event task       *)
(* delivers the link edges.  Mode transitions are under a mutex, but the   *)
(* test that leads to them, the flags of main.c and the two switches are   *)
(* not: each read and each write of them is a step of its own.             *)
(* `idle` says that POWER_IDLE_TO_LOW_S have passed since the last         *)
(* activity.  The link score is a level that may change freely between two *)
(* ticks, which includes every course of the filtered score.  The device   *)
(* supports power management (power_mgmt_init did not fail).               *)
(***************************************************************************)
EXTENDS Integers, Sequences

CONSTANTS
    Requesters,         \* tasks that call power_mgmt_activity_note
    Override,           \* Net_PS_Override: 0 auto, 1 never, 2 always sleep
    QueueLen            \* entries of the event queue

ASSUME CommAssumption ==
    /\ Requesters \cap {"mon", "evt", "none"} = {}
    /\ Override \in 0..2
    /\ QueueLen \in Nat \ {0}

VARIABLES
    pc, arg,            \* per task: next step, and the value it carries
    lock,               \* s_hLock: holder or "none"
    target,             \* argument of mode_apply of the holder: LOW?
    low,                \* s_bLow
    cpu,                \* times the PM lock s_hCpuMax is held
    idle,               \* the activity window has elapsed
    powerLow, linkPoor, \* s_bPowerLow, s_bLinkPoor of main.c
    slow, sleep,        \* the switches: protocol grid, modem sleep
    poor,               \* s_stScore.poor
    queue,              \* event queue
    pumpIdle, session   \* what the probes report

switches == <<powerLow, linkPoor, slow, sleep>>
mode == <<low, cpu, idle>>
env == <<pumpIdle, session>>
vars == <<pc, arg, lock, target, mode, switches, poor, queue, env>>

Tasks == Requesters \cup {"mon", "evt"}
Scores == {"bad", "fair", "good"}

Go(t, step) == pc' = [pc EXCEPT ![t] = step]
Carry(t, value) == arg' = [arg EXCEPT ![t] = value]

(* event_manager_publish: a full queue drops the event. *)
Publish(e) == queue' = IF Len(queue) < QueueLen THEN Append(queue, e) ELSE queue

(* power_mgmt_init starts in HIGH; link_state_init starts in GOOD. *)
Init ==
    /\ pc = [t \in Tasks |-> "rest"]
    /\ arg = [t \in Tasks |-> FALSE]
    /\ lock = "none" /\ target = FALSE
    /\ low = FALSE /\ cpu = 1 /\ idle = FALSE
    /\ powerLow = FALSE /\ linkPoor = FALSE /\ slow = FALSE /\ sleep = FALSE
    /\ poor = FALSE
    /\ queue = <<>>
    /\ pumpIdle \in BOOLEAN /\ session \in BOOLEAN
----------------------------------------------------------------------------
(* comm_adaptation_apply: the combination is read, then the switch is set. *)
SleepWanted ==
    /\ powerLow
    /\ Override # 1
    /\ ~(Override = 0 /\ linkPoor)

(* Where a task continues after applying the combination: within           *)
(* mode_apply the second provider follows the first, the event task is     *)
(* done.                                                                   *)
AfterApply(t, step) ==
    IF t = "evt" THEN "rest"
    ELSE IF step = "sleepSet1" THEN "flag2" ELSE "done"

comm_adaptation_apply(t) ==
    \/ /\ pc[t] \in {"grid1", "grid2"}
       /\ Carry(t, powerLow \/ linkPoor)
       /\ Go(t, IF pc[t] = "grid1" THEN "gridSet1" ELSE "gridSet2")
       /\ UNCHANGED switches
    \/ /\ pc[t] \in {"gridSet1", "gridSet2"}
       /\ slow' = arg[t]
       /\ Go(t, IF pc[t] = "gridSet1" THEN "sleep1" ELSE "sleep2")
       /\ UNCHANGED <<arg, powerLow, linkPoor, sleep>>
    \/ /\ pc[t] \in {"sleep1", "sleep2"}
       /\ Carry(t, SleepWanted)
       /\ Go(t, IF pc[t] = "sleep1" THEN "sleepSet1" ELSE "sleepSet2")
       /\ UNCHANGED switches
    \/ /\ pc[t] \in {"sleepSet1", "sleepSet2"}
       /\ sleep' = arg[t]
       /\ Go(t, AfterApply(t, pc[t]))
       /\ UNCHANGED <<arg, powerLow, linkPoor, slow>>

ApplySwitches(t) ==
    /\ comm_adaptation_apply(t)
    /\ UNCHANGED <<lock, target, mode, poor, queue, env>>
----------------------------------------------------------------------------
(* mode_apply, under the lock; the mode itself only changes at the end.    *)
(* Mutant: the PM lock is left alone on the way to HIGH. *)
PmLock_KeepsLow(t) ==
    /\ pc[t] = "pm"
    /\ cpu' = IF target THEN cpu - 1 ELSE cpu
    /\ Go(t, "flag1")
    /\ UNCHANGED <<arg, lock, target, low, idle, switches, poor, queue, env>>

(* The PM lock is released for LOW and acquired for HIGH. *)
PmLock(t) ==
    /\ pc[t] = "pm"
    /\ cpu' = IF target THEN cpu - 1 ELSE cpu + 1
    /\ Go(t, "flag1")
    /\ UNCHANGED <<arg, lock, target, low, idle, switches, poor, queue, env>>

(* glue_power_low and glue_proto_slow: the flag, then the combination. *)
Provider(t) ==
    /\ pc[t] \in {"flag1", "flag2"}
    /\ powerLow' = target
    /\ Go(t, IF pc[t] = "flag1" THEN "grid1" ELSE "grid2")
    /\ UNCHANGED <<arg, lock, target, mode, linkPoor, slow, sleep, poor, queue, env>>

(* Where the caller continues: the monitor goes on with the link. *)
Return(t) == IF t = "mon" THEN "link" ELSE "rest"

(* The mode is stored and published, the lock is given. *)
ModeDone(t) ==
    /\ pc[t] = "done"
    /\ low' = target
    /\ Publish("mode")
    /\ lock' = "none"
    /\ Go(t, Return(t))
    /\ UNCHANGED <<arg, target, cpu, idle, switches, poor, env>>
----------------------------------------------------------------------------
(* power_mgmt_activity_note: the window restarts; only in LOW the lock is  *)
(* taken, and the mode is tested again under it.                           *)
NoteStart(t) ==
    /\ \/ t \in Requesters /\ pc[t] = "rest"
       \/ t = "mon" /\ pc[t] = "note"
    /\ idle' = FALSE
    /\ Go(t, "noteTest")
    /\ UNCHANGED <<arg, lock, target, low, cpu, switches, poor, queue, env>>

NoteTest(t) ==
    /\ pc[t] = "noteTest"
    /\ Go(t, IF low THEN "toHigh" ELSE Return(t))
    /\ UNCHANGED <<arg, lock, target, mode, switches, poor, queue, env>>

(* xSemaphoreTake and the second test; the lock is given back if another   *)
(* task was faster.                                                        *)
TakeLock(t) ==
    /\ pc[t] \in {"toHigh", "toLow"}
    /\ lock = "none"
    /\ IF low = (pc[t] = "toHigh")
       THEN lock' = t /\ target' = (pc[t] = "toLow") /\ Go(t, "pm")
       ELSE UNCHANGED <<lock, target>> /\ Go(t, Return(t))
    /\ UNCHANGED <<arg, mode, switches, poor, queue, env>>
----------------------------------------------------------------------------
(* power_mgmt_tick: the probes are read, then mode and window are tested.  *)
TickProbe ==
    /\ pc["mon"] = "rest"
    /\ Carry("mon", pumpIdle /\ session)
    /\ Go("mon", "decide")
    /\ UNCHANGED <<lock, target, mode, switches, poor, queue, env>>

(* Mutant: a LOW device does not look at the probes. *)
TickDecide_StaysLow ==
    /\ pc["mon"] = "decide"
    /\ Go("mon", IF ~low /\ arg["mon"] /\ idle THEN "toLow" ELSE "link")
    /\ UNCHANGED <<arg, lock, target, mode, switches, poor, queue, env>>

TickDecide ==
    /\ pc["mon"] = "decide"
    /\ Go("mon", CASE low /\ ~arg["mon"] -> "note"
                   [] ~low /\ arg["mon"] /\ idle -> "toLow"
                   [] OTHER -> "link")
    /\ UNCHANGED <<arg, lock, target, mode, switches, poor, queue, env>>

(* link_quality_tick: score with hysteresis; an edge is published. *)
link_quality_tick ==
    /\ pc["mon"] = "link"
    /\ \E score \in Scores :
         /\ poor' = IF poor THEN score # "good" ELSE score = "bad"
         /\ IF poor' # poor THEN Publish(IF poor' THEN "poor" ELSE "good")
                            ELSE UNCHANGED queue
    /\ Go("mon", "tick")
    /\ UNCHANGED <<arg, lock, target, mode, switches, env>>

(* The end of main_monitor_cycle: the tick event of its subscribers. *)
MonitorTick ==
    /\ pc["mon"] = "tick"
    /\ Publish("tick")
    /\ Go("mon", "rest")
    /\ UNCHANGED <<arg, lock, target, mode, switches, poor, env>>

(* The event task takes an event; a link edge goes to glue_link_state. *)
Dispatch ==
    /\ pc["evt"] = "rest"
    /\ queue # <<>>
    /\ queue' = Tail(queue)
    /\ IF Head(queue) \in {"mode", "tick"}
       THEN UNCHANGED <<pc, linkPoor>>
       ELSE linkPoor' = (Head(queue) = "poor") /\ Go("evt", "grid1")
    /\ UNCHANGED <<arg, lock, target, mode, powerLow, slow, sleep, poor, env>>
----------------------------------------------------------------------------
(* Time passes; the pump starts and stops; the session comes and goes. *)
IdleElapses == ~idle /\ idle' = TRUE
               /\ UNCHANGED <<pc, arg, lock, target, low, cpu, switches, poor, queue, env>>
PumpToggles == pumpIdle' = ~pumpIdle
               /\ UNCHANGED <<pc, arg, lock, target, mode, switches, poor, queue, session>>
SessionToggles == session' = ~session
               /\ UNCHANGED <<pc, arg, lock, target, mode, switches, poor, queue, pumpIdle>>

ModeApply(t) == PmLock(t) \/ Provider(t) \/ ApplySwitches(t) \/ ModeDone(t)
Note(t) == NoteTest(t) \/ TakeLock(t)
Monitor == \/ TickProbe \/ TickDecide \/ link_quality_tick \/ MonitorTick
           \/ NoteStart("mon") \/ Note("mon") \/ ModeApply("mon")

Next ==
    \/ Monitor
    \/ \E t \in Requesters : NoteStart(t) \/ Note(t) \/ ModeApply(t)
    \/ Dispatch \/ ApplySwitches("evt")
    \/ IdleElapses \/ PumpToggles \/ SessionToggles

(* Every task runs; requests, time, pump and network are free.  A waiter   *)
(* for the mutex gets it before the others get it again and again.         *)
Spec ==
    /\ Init /\ [][Next]_vars
    /\ WF_vars(Monitor)
    /\ SF_vars(TakeLock("mon"))
    /\ \A t \in Requesters : WF_vars(Note(t)) /\ WF_vars(ModeApply(t))
    /\ WF_vars(Dispatch) /\ WF_vars(ApplySwitches("evt"))
----------------------------------------------------------------------------
(* Type correctness; the PM lock is never released without being held and  *)
(* never held twice.                                                       *)
TypeOK ==
    /\ arg \in [Tasks -> BOOLEAN]
    /\ lock \in Tasks \cup {"none"} /\ target \in BOOLEAN
    /\ low \in BOOLEAN /\ cpu \in 0..1 /\ idle \in BOOLEAN
    /\ powerLow \in BOOLEAN /\ linkPoor \in BOOLEAN
    /\ slow \in BOOLEAN /\ sleep \in BOOLEAN /\ poor \in BOOLEAN
    /\ Len(queue) <= QueueLen
    /\ pumpIdle \in BOOLEAN /\ session \in BOOLEAN

(* Outside of a transition the parts of the mode agree, whichever tasks    *)
(* noted activity or ticked at the same time: full clock, flag of main.c   *)
(* and reported mode.                                                      *)
ModeIsWhole ==
    lock = "none" => /\ cpu = IF low THEN 0 ELSE 1
                     /\ powerLow = low

(* "Back to HIGH on pump leaving idle, session loss": a LOW device with    *)
(* work to do returns to HIGH, unless the work is gone before.             *)
WakesForWork ==
    low /\ ~(pumpIdle /\ session) ~> ~low \/ (pumpIdle /\ session)
=============================================================================
