--------------------------- MODULE NetworkConfig ---------------------------
(***************************************************************************)
(* The life cycle of the network configuration: src/network/               *)
(* network_config.c with the dp_write path of task_com.c, dp_config_save   *)
(* of datapoints.c and the early boot of main.c.                           *)
(*                                                                         *)
(* The eight Network_* datapoints are one value, and so are the Backup_*   *)
(* ones.  dp_config_save writes key by key from a snapshot of the RAM      *)
(* image and is not serialised between tasks; a value whose keys are only  *)
(* partly written is `Torn'.  Power may fail between any two flash writes. *)
(* Every flash access may fail, and so may the creation of the reboot task *)
(* and the publishing of EVT_SESSION_READY at a full event queue: the code *)
(* ignores or only logs these results and goes on.                         *)
(***************************************************************************)
EXTENDS Naturals

CONSTANTS
  Configs,       \* configurations the operator writes
  Factory,       \* the values of the embedded network.json
  Good,          \* the configurations that reach the server
  Actions,       \* Network_Save values in use (0: plain dp_write)
  Disciplined,   \* TRUE: values are only written in a settled session (or
                 \* locally, when there can be none) and no session is
                 \* opened while written values wait for their reboot
  MaxWrites, MaxCrashes, MaxFaults   \* bounds on operator writes, power
                                     \* losses and failed operations

Empty == "empty"
Torn  == "torn"
Values == Configs \cup {Factory, Empty, Torn}
Tasks == {"main", "ws", "event", "monitor"}
Labels == {"load", "check", "clear", "start", "idle", "snap", "net", "bak",
           "act", "arm", "reboot", "confirm", "backup", "expire", "mark"}

ASSUME NetworkAssumption ==
  /\ Empty \notin Configs \cup {Factory} /\ Torn \notin Configs \cup {Factory}
  /\ Good \subseteq Configs \cup {Factory}
  /\ Actions \subseteq 0 .. 255
  /\ Disciplined \in BOOLEAN
  /\ MaxWrites \in Nat /\ MaxCrashes \in Nat /\ MaxFaults \in Nat

VARIABLES
  net, bak,              \* RAM: Network_*, Backup_*
  nvs_net, nvs_bak,      \* flash: the same keys
  trial,                 \* flash: key "trial" of namespace "netcfg"
  active,                \* s_bTrialActive
  due,                   \* the uptime has passed s_ulTrialDeadlineS
  trial_state,           \* Network_Trial_State
  used,                  \* the configuration this boot connects with
  session, ready,        \* session up; EVT_SESSION_READY not yet handled
  reboot,                \* a deferred reboot is pending
  pc,                    \* per task: where it is in its handler
  after,                 \* per task: where dp_config_save returns to
  img,                   \* per task: RAM snapshot of the running save
  action,                \* Network_Save value the ws task is executing
  writes, crashes, faults,   \* bound counters
  proven,                \* history: configurations that had a session
  lapse                  \* history: an operation failed in this boot ("now"),
                         \* in an earlier one ("past"), or the last boot
                         \* without a trial found its values whole ("none")

ramVars   == <<net, bak>>
flashVars == <<nvs_net, nvs_bak, trial>>
linkVars  == <<used, session, ready>>
taskVars  == <<pc, after, img, action>>
boundVars == <<writes, crashes>>
faultVars == <<faults, lapse>>
vars == <<ramVars, flashVars, active, due, trial_state, linkVars, reboot,
          taskVars, boundVars, faultVars, proven>>

Running == pc["main"] = "idle"           \* early boot is over

\* an operation fails whose result the code ignores or only logs
Fails == faults < MaxFaults /\ faults' = faults + 1 /\ lapse' = "now"

----------------------------------------------------------------------------
(* Control flow of a task.                                                 *)

At(t, l) == pc[t] = l

Goto(t, l) == pc' = [pc EXCEPT ![t] = l] /\ UNCHANGED after

\* call dp_config_save and continue at l
SaveThen(t, l) ==
  /\ pc' = [pc EXCEPT ![t] = "snap"]
  /\ after' = [after EXCEPT ![t] = l]

\* a multi-key value while its keys are being written
Put(old, new) == IF old = new THEN old ELSE Torn

save_step(t) ==
  /\ \/ /\ At(t, "snap")
        /\ img' = [img EXCEPT ![t] = [net |-> net, bak |-> bak]]
        /\ nvs_net' = Put(nvs_net, net)
        /\ Goto(t, "net")
        /\ UNCHANGED nvs_bak
     \/ /\ At(t, "net")
        /\ nvs_net' = img[t].net
        /\ nvs_bak' = Put(nvs_bak, img[t].bak)
        /\ Goto(t, "bak")
        /\ UNCHANGED img
     \/ /\ At(t, "bak")
        /\ nvs_bak' = img[t].bak
        /\ Goto(t, after[t])
        /\ UNCHANGED <<nvs_net, img>>
  /\ UNCHANGED <<ramVars, trial, active, due, trial_state, linkVars, reboot,
                 action, boundVars, faultVars, proven>>

\* It ends at the first key that cannot be written, the keys before that
\* one being stored, and the caller goes on.
save_fails(t) ==
  /\ \/ At(t, "snap") /\ UNCHANGED nvs_net
     \/ At(t, "net") /\ nvs_net' \in {nvs_net, img[t].net}
     \/ At(t, "bak") /\ UNCHANGED nvs_net
  /\ Fails
  /\ Goto(t, after[t])
  /\ UNCHANGED <<ramVars, nvs_bak, trial, active, due, trial_state, linkVars,
                 reboot, img, action, boundVars, proven>>

dp_config_save(t) == save_step(t) \/ save_fails(t)

\* Mutant: the copy goes the wrong way.
restore_from_backup_reversed == bak' = net /\ UNCHANGED net

restore_from_backup == net' = bak /\ UNCHANGED bak

----------------------------------------------------------------------------
(* Early boot (task "main"): load, defaults, trial check, WLAN start.      *)

\* A key that is not there keeps the default of dp_set_defaults.
dp_config_load ==
  \/ net' = nvs_net /\ bak' = nvs_bak /\ UNCHANGED faultVars
  \/ /\ net' \in {nvs_net, Empty, Torn} /\ bak' \in {nvs_bak, Empty, Torn}
     /\ Fails

dp_init ==
  /\ At("main", "load")
  /\ dp_config_load
  /\ Goto("main", "check")
  /\ UNCHANGED <<flashVars, active, due, trial_state, linkVars, reboot, img,
                 action, boundVars, proven>>

network_config_defaults_apply ==
  /\ At("main", "check") /\ net \in {Empty, Torn}  \* SSID key not written
  /\ net' = Factory
  /\ SaveThen("main", "check")
  /\ UNCHANGED <<bak, flashVars, active, due, trial_state, linkVars, reboot,
                 img, action, boundVars, faultVars, proven>>

\* The marker is written, or stays as it was.
set_marker(v) ==
  \/ trial' = v /\ UNCHANGED faultVars
  \/ Fails /\ UNCHANGED trial

\* Mutant: the window of the trial boot is never started.
trial_boot_not_armed ==
  /\ trial = 1
  /\ set_marker(2) /\ active' = FALSE /\ trial_state' = 1
  /\ Goto("main", "start")
  /\ UNCHANGED ramVars

trial_boot ==                       \* case 1: this is the trial boot
  /\ trial = 1
  /\ set_marker(2) /\ active' = TRUE /\ trial_state' = 1
  /\ Goto("main", "start")
  /\ UNCHANGED ramVars

trial_unconfirmed ==                \* case 2: power was lost in the window
  /\ trial = 2
  /\ restore_from_backup
  /\ SaveThen("main", "mark")
  /\ UNCHANGED <<trial, active, trial_state, faultVars>>

trial_rolled_back ==                \* case 3: the previous boot rolled back
  /\ trial = 3
  /\ trial_state' = 3 /\ set_marker(0)
  /\ Goto("main", "start")
  /\ UNCHANGED <<ramVars, active>>

\* this boot runs on what the flash holds, and its backup is in one piece
Whole == net = nvs_net /\ bak = nvs_bak /\ bak # Torn

no_trial ==                         \* no marker, or it cannot be read
  /\ \/ trial = 0 /\ UNCHANGED faults
        /\ lapse' = IF Whole THEN "none" ELSE lapse
     \/ Fails
  /\ Goto("main", "start")
  /\ UNCHANGED <<ramVars, trial, active, trial_state>>

network_config_trial_boot_check ==
  /\ At("main", "check") /\ net # Empty
  /\ trial_boot \/ trial_unconfirmed \/ trial_rolled_back \/ no_trial
  /\ UNCHANGED <<nvs_net, nvs_bak, due, linkVars, reboot, img, action,
                 boundVars, proven>>

rollback_done ==                    \* rest of case 2
  /\ At("main", "clear")
  /\ trial_state' = 3 /\ set_marker(0)
  /\ Goto("main", "start")
  /\ UNCHANGED <<ramVars, nvs_net, nvs_bak, active, due, linkVars, reboot, img,
                 action, boundVars, proven>>

wlan_start ==
  /\ At("main", "start")
  /\ used' = net
  /\ Goto("main", "idle")
  /\ UNCHANGED <<ramVars, flashVars, active, due, trial_state, session, ready,
                 reboot, img, action, boundVars, faultVars, proven>>

----------------------------------------------------------------------------
(* dp_write with Network_* values and a Network_Save action (task "ws",    *)
(* the cloud session or a local maintenance session).                      *)

Settled == (session \/ used \notin Good) /\ ~ready /\ ~active /\ ~reboot
           /\ At("event", "idle") /\ At("monitor", "idle")

task_com_apply_dp_write ==
  /\ Running /\ At("ws", "idle")
  /\ Disciplined => Settled
  /\ writes < MaxWrites /\ writes' = writes + 1
  /\ net' \in Configs \cup {net} /\ action' \in Actions
  /\ SaveThen("ws", IF action' = 0 THEN "idle" ELSE "act")
  /\ UNCHANGED <<bak, flashVars, active, due, trial_state, linkVars, reboot,
                 img, crashes, faultVars, proven>>

save_persist == action = 1 /\ SaveThen("ws", "idle") /\ UNCHANGED ramVars

save_persist_reboot ==
  action = 2 /\ SaveThen("ws", "reboot") /\ UNCHANGED ramVars

save_restore_backup ==
  action = 3 /\ restore_from_backup /\ SaveThen("ws", "idle")

save_trial_reboot ==
  /\ action = 4
  /\ IF bak = Empty THEN Goto("ws", "idle") ELSE SaveThen("ws", "arm")
  /\ UNCHANGED ramVars

save_unknown ==                     \* the command is not range-checked
  action \notin 1 .. 4 /\ Goto("ws", "idle") /\ UNCHANGED ramVars

network_config_save_handle ==
  /\ At("ws", "act")
  /\ \/ save_persist \/ save_persist_reboot
     \/ save_restore_backup \/ save_trial_reboot \/ save_unknown
  /\ UNCHANGED <<flashVars, active, due, trial_state, linkVars, reboot, img,
                 action, boundVars, faultVars, proven>>

trial_nvs_set(t, l, v, next) ==
  /\ At(t, l)
  /\ set_marker(v)
  /\ Goto(t, next)
  /\ UNCHANGED <<ramVars, nvs_net, nvs_bak, active, due, trial_state, linkVars,
                 reboot, img, action, boundVars, proven>>

system_reboot_deferred(t) ==
  /\ At(t, "reboot")
  /\ \/ reboot' = TRUE /\ UNCHANGED faultVars
     \/ Fails /\ UNCHANGED reboot          \* the task is not created
  /\ Goto(t, "idle")
  /\ UNCHANGED <<ramVars, flashVars, active, due, trial_state, linkVars, img,
                 action, boundVars, proven>>

----------------------------------------------------------------------------
(* EVT_SESSION_READY in the event task: confirm, then back up.             *)

glue_session_backup ==
  /\ Running /\ At("event", "idle") /\ ready
  /\ ready' = FALSE
  /\ Goto("event", IF active THEN "confirm" ELSE "backup")
  /\ UNCHANGED <<ramVars, flashVars, active, due, trial_state, used, session,
                 reboot, img, action, boundVars, faultVars, proven>>

network_config_trial_confirm ==
  /\ At("event", "confirm")
  /\ active' = FALSE /\ set_marker(0) /\ trial_state' = 2
  /\ Goto("event", "backup")
  /\ UNCHANGED <<ramVars, nvs_net, nvs_bak, due, linkVars, reboot, img, action,
                 boundVars, proven>>

network_config_backup ==
  /\ At("event", "backup")
  /\ IF bak = net THEN Goto("event", "idle") /\ UNCHANGED bak
                  ELSE bak' = net /\ SaveThen("event", "idle")
  /\ UNCHANGED <<net, flashVars, active, due, trial_state, linkVars, reboot,
                 img, action, boundVars, faultVars, proven>>

(* The 5-s tick of the monitor task: the check and the clearing of the     *)
(* flag are two accesses to an unprotected variable.                       *)

network_config_trial_tick ==
  /\ Running /\ At("monitor", "idle")
  /\ active /\ due
  /\ Goto("monitor", "expire")
  /\ UNCHANGED <<ramVars, flashVars, active, due, trial_state, linkVars, reboot,
                 img, action, boundVars, faultVars, proven>>

\* Mutant: the marker is written before the restored values are saved.
trial_rollback_marks_first ==
  /\ At("monitor", "expire")
  /\ active' = FALSE
  /\ restore_from_backup
  /\ trial' = 3
  /\ SaveThen("monitor", "reboot")
  /\ UNCHANGED <<nvs_net, nvs_bak, due, trial_state, linkVars, reboot, img,
                 action, boundVars, faultVars, proven>>

trial_rollback ==
  /\ At("monitor", "expire")
  /\ active' = FALSE
  /\ restore_from_backup
  /\ SaveThen("monitor", "mark")
  /\ UNCHANGED <<flashVars, due, trial_state, linkVars, reboot, img, action,
                 boundVars, faultVars, proven>>

----------------------------------------------------------------------------
(* Environment: time, the server, power.                                   *)

WindowExpires ==
  /\ active /\ ~due
  /\ due' = TRUE
  /\ UNCHANGED <<ramVars, flashVars, active, trial_state, linkVars, reboot,
                 taskVars, boundVars, faultVars, proven>>

SessionUp ==
  /\ Running /\ ~session /\ used \in Good
  /\ Disciplined => net \in {used, bak}
  /\ session' = TRUE
  /\ \/ ready' = TRUE /\ UNCHANGED faultVars
     \/ Fails /\ UNCHANGED ready           \* the event queue is full
  /\ proven' = proven \cup {used}
  /\ UNCHANGED <<ramVars, flashVars, active, due, trial_state, used, reboot,
                 taskVars, boundVars>>

SessionDown ==
  /\ session
  /\ session' = FALSE
  /\ UNCHANGED <<ramVars, flashVars, active, due, trial_state, used, ready,
                 reboot, taskVars, boundVars, faultVars, proven>>

ResetRam ==
  /\ net' = Empty /\ bak' = Empty
  /\ active' = FALSE /\ due' = FALSE /\ trial_state' = 0
  /\ used' = Empty /\ session' = FALSE /\ ready' = FALSE /\ reboot' = FALSE
  /\ pc' = [t \in Tasks |-> IF t = "main" THEN "load" ELSE "idle"]
  /\ after' = [t \in Tasks |-> "idle"]
  /\ img' = [t \in Tasks |-> [net |-> Empty, bak |-> Empty]]
  /\ action' = 0
  /\ lapse' = IF lapse = "now" THEN "past" ELSE lapse
  /\ UNCHANGED <<flashVars, faults, proven>>

PowerLoss ==
  /\ crashes < MaxCrashes /\ crashes' = crashes + 1
  /\ ResetRam
  /\ UNCHANGED writes

esp_restart == reboot /\ ResetRam /\ UNCHANGED boundVars

----------------------------------------------------------------------------
Init ==
  /\ nvs_net = Empty /\ nvs_bak = Empty /\ trial = 0
  /\ net = Empty /\ bak = Empty
  /\ active = FALSE /\ due = FALSE /\ trial_state = 0
  /\ used = Empty /\ session = FALSE /\ ready = FALSE /\ reboot = FALSE
  /\ pc = [t \in Tasks |-> IF t = "main" THEN "load" ELSE "idle"]
  /\ after = [t \in Tasks |-> "idle"]
  /\ img = [t \in Tasks |-> [net |-> Empty, bak |-> Empty]]
  /\ action = 0
  /\ writes = 0 /\ crashes = 0 /\ faults = 0
  /\ proven = {} /\ lapse = "none"

Main ==
  \/ dp_init \/ network_config_defaults_apply
  \/ network_config_trial_boot_check
  \/ trial_nvs_set("main", "mark", 3, "clear")
  \/ rollback_done \/ wlan_start
  \/ dp_config_save("main")

Ws ==
  \/ network_config_save_handle
  \/ trial_nvs_set("ws", "arm", 1, "reboot")
  \/ system_reboot_deferred("ws")
  \/ dp_config_save("ws")

EventTask ==
  \/ glue_session_backup \/ network_config_trial_confirm
  \/ network_config_backup
  \/ dp_config_save("event")

Monitor ==
  \/ network_config_trial_tick \/ trial_rollback
  \/ trial_nvs_set("monitor", "mark", 3, "reboot")
  \/ system_reboot_deferred("monitor")
  \/ dp_config_save("monitor")

Next ==
  \/ Main \/ Ws \/ EventTask \/ Monitor
  \/ task_com_apply_dp_write
  \/ WindowExpires \/ SessionUp \/ SessionDown
  \/ PowerLoss \/ esp_restart

(* Every task is scheduled, time passes, a deferred reboot happens.  No    *)
(* fairness for the operator, the server and power losses.                 *)
Fairness ==
  /\ WF_vars(Main) /\ WF_vars(Ws) /\ WF_vars(EventTask) /\ WF_vars(Monitor)
  /\ WF_vars(WindowExpires) /\ WF_vars(esp_restart)

Spec == Init /\ [][Next]_vars /\ Fairness

----------------------------------------------------------------------------
TypeOK ==
  /\ net \in Values /\ bak \in Values /\ nvs_net \in Values /\ nvs_bak \in Values
  /\ trial \in 0 .. 3 /\ trial_state \in 0 .. 3
  /\ active \in BOOLEAN /\ due \in BOOLEAN
  /\ used \in Values /\ session \in BOOLEAN /\ ready \in BOOLEAN
  /\ reboot \in BOOLEAN
  /\ pc \in [Tasks -> Labels] /\ after \in [Tasks -> Labels]
  /\ img \in [Tasks -> [net : Values, bak : Values]]
  /\ action \in 0 .. 255
  /\ writes \in 0 .. MaxWrites /\ crashes \in 0 .. MaxCrashes
  /\ faults \in 0 .. MaxFaults /\ lapse \in {"none", "now", "past"}
  /\ proven \subseteq Good

(* Whenever a trial is armed or running, the flash holds a complete backup *)
(* that once carried a server session, so that a rollback after any power  *)
(* loss has something to go back to.  After a failed operation             *)
(* (dp_config_save gave up, a read failed), until a boot without a trial   *)
(* finds its values whole, the backup may be missing or in pieces, because *)
(* network_config_save_handle arms the trial whatever its save returned;   *)
(* but it is never a configuration that did not carry a session.  The      *)
(* property is for values that are written in settled sessions             *)
(* (Disciplined): network_config_backup copies whatever Network_* holds.   *)
TrialHasFallback ==
  trial \in {1, 2} => \/ nvs_bak \in proven
                      \/ lapse # "none" /\ nvs_bak \in {Empty, Torn}

(* A boot that reports "rolled back" runs on a configuration that once     *)
(* carried a session, although the rollback itself may have been           *)
(* interrupted by power losses.  Excluded are boots after a failed         *)
(* operation: trial_rollback writes marker 3 even if its save failed.      *)
(* Values are written in settled sessions (Disciplined).                   *)
RollbackIsComplete ==
  Running /\ trial_state = 3 /\ lapse = "none" => used \in proven

(* A trial never stays open: it is confirmed or rolled back, whatever      *)
(* power losses and whatever failures of earlier boots come in between,    *)
(* unless an operation fails in the running boot: a marker that is not     *)
(* erased, or a reboot task that is not created, is not tried again before *)
(* the next restart.  Values are written in settled sessions.              *)
TrialAlwaysEnds == (trial \in {1, 2}) ~> (trial \in {0, 3} \/ lapse = "now")
=============================================================================
