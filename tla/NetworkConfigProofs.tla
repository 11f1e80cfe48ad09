------------------------ MODULE NetworkConfigProofs ------------------------
(***************************************************************************)
(* Safety of the network configuration for every set of values and of      *)
(* saves, and any number of writes and power losses: the types without any *)
(* condition, the trial and its rollback when values are written in        *)
(* settled sessions (Disciplined).                                         *)
(***************************************************************************)
EXTENDS NetworkConfig, TLAPS

\* A task inside dp_config_save.
Save == {"snap", "net", "bak"}
Saves(t) == pc[t] \in Save

\* Where each task can be, and where its saves return to.
PcInv ==
  /\ pc["main"] \in {"load", "check", "mark", "clear", "start", "idle"} \cup Save
  /\ pc["ws"] \in {"idle", "act", "arm", "reboot"} \cup Save
  /\ pc["event"] \in {"idle", "confirm", "backup"} \cup Save
  /\ pc["monitor"] \in {"idle", "expire", "mark", "reboot"} \cup Save
  /\ Saves("main") => after["main"] \in {"check", "mark"}
  /\ Saves("ws") => after["ws"] \in {"idle", "act", "arm", "reboot"}
  /\ Saves("event") => after["event"] = "idle"
  /\ Saves("monitor") => after["monitor"] = "mark"

\* What a save writes is what RAM holds of the backup, and of the values
\* where nobody can write them meanwhile.
ImgInv ==
  /\ \A t \in Tasks : pc[t] \in {"net", "bak"} => img[t].bak = bak
  /\ \A t \in Tasks \ {"ws"} : pc[t] \in {"net", "bak"} => img[t].net = net

\* Early boot: nothing but main runs.  Its saves write the factory values or
\* those of the backup, and the trial flag is read after they are stored.
BootInv ==
  ~ Running =>
    /\ pc["ws"] = "idle" /\ pc["event"] = "idle" /\ pc["monitor"] = "idle"
    /\ ~ session /\ ~ ready /\ ~ reboot
    /\ pc["main"] # "load" => bak = nvs_bak
    /\ pc["main"] \in {"check", "start", "mark", "clear", "bak"} => net = nvs_net
    /\ pc["main"] # "start" => ~ active /\ trial_state = 0
    /\ pc["main"] \in {"mark", "clear"} => net = bak /\ bak \in proven
    /\ pc["main"] = "clear" => trial = 3
    /\ pc["main"] = "mark" => trial = 2
    /\ Saves("main") => /\ after["main"] = "mark" => net = bak /\ trial = 2
                        /\ after["main"] = "check" => net = Factory /\ trial # 3 /\ bak # Torn
    /\ pc["main"] = "start" => trial \in {0, 2} /\ (active <=> trial = 2)
    /\ pc["main"] = "start" /\ trial_state = 3 => net \in proven

\* The backup, in RAM and in flash, is a value that carried a session, or
\* was never written, or was torn by a power loss; then the device runs on
\* the value that was to be backed up.
BackupInv ==
  /\ bak \in proven \cup {Empty, Torn}
  /\ nvs_bak \in proven \cup {Empty, Torn}
  /\ nvs_bak = Torn => nvs_net \in proven
  /\ Running /\ ~ Saves("event") => nvs_bak = bak
  /\ Running /\ bak = Torn => used \in proven

\* Nothing was written in this boot; the value in use is backed up; the
\* monitor has rolled back and asks for a reboot.
Fresh  == net = used /\ nvs_net = used /\ pc["ws"] = "idle"
Backed == bak = used /\ used \in proven
Rolled == /\ net = bak /\ bak \in proven /\ pc["ws"] = "idle"
          /\ pc["monitor"] \notin {"idle", "expire"} \/ reboot

\* Values only change when the one in use is backed up or cannot carry a
\* session, so the backup never takes a value that was not in use.
SessionInv ==
  Running =>
    /\ Fresh \/ used \notin Good \/ Backed \/ Rolled
    /\ session \/ ready \/ pc["event"] # "idle" => used \in proven
    /\ ready \/ pc["event"] # "idle" => net \in {used, bak}
    /\ session /\ ~ ready /\ pc["event"] = "idle" => Backed \/ Rolled
    /\ Saves("event") => net = used /\ Backed /\ nvs_net = used /\ pc["ws"] = "idle"
    /\ pc["ws"] # "idle" => /\ ~ active /\ pc["monitor"] = "idle"
                            /\ used \notin Good \/ Backed
    /\ pc["ws"] = "arm" \/ (Saves("ws") /\ after["ws"] = "arm") => bak \in proven

\* The backup of an open trial, and the values of a boot that reports a
\* rollback, as long as nothing has failed.
FallbackInv == trial \in {1, 2} => nvs_bak \in proven
RolledInv == Running /\ trial_state = 3 => used \in proven

\* The trial flag against the tasks that move it: 1 until the reboot, 2 while
\* the window is open or is being rolled back, 3 once the backup is stored.
TrialInv ==
  /\ FallbackInv
  /\ active => trial = 2
  /\ trial = 3 => nvs_net \in proven
  /\ Running =>
       /\ pc["monitor"] # "idle" => bak \in proven /\ pc["ws"] = "idle"
       /\ pc["monitor"] \notin {"idle", "expire"} => net = bak /\ ~ active
       /\ pc["monitor"] \in {"bak", "mark", "reboot"} => nvs_net = bak
       /\ pc["monitor"] = "reboot" => trial # 2
       /\ trial = 1 => /\ pc["ws"] = "reboot" \/ (reboot /\ pc["ws"] = "idle")
                       /\ used \notin Good \/ Backed
                       /\ ~ Saves("event") /\ pc["monitor"] = "idle"
       /\ trial = 2 => /\ pc["ws"] = "idle" /\ ~ Saves("event")
                       /\ IF active THEN pc["event"] \in {"idle", "confirm"}
                          ELSE pc["monitor"] \notin {"idle", "expire"}
       /\ trial = 3 => /\ net = bak /\ nvs_net = bak /\ pc["ws"] = "idle"
                       /\ pc["monitor"] = "reboot" \/ reboot
       /\ RolledInv

\* All of it, as long as nothing has failed.
Sound == /\ TypeOK /\ PcInv /\ ImgInv /\ BootInv
         /\ BackupInv /\ SessionInv /\ TrialInv

\* What failed operations cannot take away: every copy of the backup is a
\* value that carried a session, or was never written, or is in pieces; the
\* event task only ever copies the value in use or the backup; and nothing
\* but main runs in early boot.
BaseInv ==
  /\ bak \in proven \cup {Empty, Torn}
  /\ nvs_bak \in proven \cup {Empty, Torn}
  /\ \A t \in Tasks : pc[t] \in {"net", "bak"} => img[t].bak \in proven \cup {Empty, Torn}
  /\ ~ Running =>
       /\ pc["ws"] = "idle" /\ pc["event"] = "idle" /\ pc["monitor"] = "idle"
       /\ ~ session /\ ~ ready /\ ~ reboot
       /\ pc["main"] # "start" => ~ active /\ trial_state = 0
  /\ Running =>
       /\ session \/ ready \/ pc["event"] # "idle" => used \in proven
       /\ ready \/ pc["event"] # "idle" => net \in {used, bak}

\* The inductive invariant: a boot without a trial that finds its values
\* whole has everything again.
IInv == /\ TypeOK /\ PcInv /\ BaseInv
        /\ lapse = "none" => Sound

USE DEF Running, At, Goto, SaveThen, Save, Saves, Tasks, Labels,
        ramVars, flashVars, linkVars, taskVars, boundVars, faultVars,
        Fails, set_marker

-----------------------------------------------------------------------------
\* Type correctness.

\* An operation that fails, or does not, keeps the types of what is counted.
LEMMA FaultTypes ==
  ASSUME TypeOK, Fails \/ UNCHANGED faultVars
  PROVE  faults' \in 0 .. MaxFaults /\ lapse' \in {"none", "now", "past"}
  BY NetworkAssumption DEF TypeOK

\* A save keeps the types: it moves values between RAM, image and flash.
LEMMA SaveTypes ==
  ASSUME TypeOK, NEW t \in Tasks, dp_config_save(t)
  PROVE  TypeOK'
<1>1. /\ nvs_net' \in Values /\ nvs_bak' \in Values
      /\ img' \in [Tasks -> [net : Values, bak : Values]]
  BY DEF TypeOK, dp_config_save, save_step, save_fails, Put, Values
<1>2. pc' \in [Tasks -> Labels]
  BY DEF TypeOK, dp_config_save, save_step, save_fails
<1>3. after' = after
  BY DEF dp_config_save, save_step, save_fails
<1> QED
  BY <1>1, <1>2, <1>3, FaultTypes DEF TypeOK, dp_config_save, save_step, save_fails

\* Every step of early boot keeps them.
LEMMA MainTypes ==
  ASSUME TypeOK, Main
  PROVE  TypeOK'
<1> USE DEF TypeOK
<1>1. CASE dp_init
  BY <1>1, FaultTypes DEF dp_init, dp_config_load, Values
<1>2. CASE network_config_defaults_apply
  BY <1>2 DEF network_config_defaults_apply, Values
<1>3. CASE network_config_trial_boot_check
  <2>1. active' \in BOOLEAN
    BY <1>3 DEF network_config_trial_boot_check, trial_boot,
                trial_unconfirmed, trial_rolled_back, no_trial
  <2>2. faults' \in 0 .. MaxFaults /\ lapse' \in {"none", "now", "past"}
    BY <1>3, NetworkAssumption DEF network_config_trial_boot_check, trial_boot,
       trial_unconfirmed, trial_rolled_back, no_trial
  <2> QED
    BY <1>3, <2>1, <2>2 DEF network_config_trial_boot_check, trial_boot,
       trial_unconfirmed, trial_rolled_back, no_trial, restore_from_backup
<1>4. CASE trial_nvs_set("main", "mark", 3, "clear")
  BY <1>4, FaultTypes DEF trial_nvs_set
<1>5. CASE rollback_done
  BY <1>5, FaultTypes DEF rollback_done
<1>6. CASE wlan_start
  BY <1>6 DEF wlan_start
<1>7. CASE dp_config_save("main")
  BY <1>7, SaveTypes
<1> QED
  BY <1>1, <1>2, <1>3, <1>4, <1>5, <1>6, <1>7 DEF Main

\* Every step of the running tasks keeps them.
LEMMA TaskTypes ==
  ASSUME TypeOK, Ws \/ EventTask \/ Monitor
  PROVE  TypeOK'
<1>1. CASE network_config_save_handle
  BY <1>1 DEF TypeOK, network_config_save_handle, save_persist, save_persist_reboot,
     save_restore_backup, save_trial_reboot, save_unknown, restore_from_backup
<1>2. ASSUME NEW t \in Tasks, NEW l, NEW v \in 0 .. 3, NEW n \in Labels,
             trial_nvs_set(t, l, v, n)
      PROVE  TypeOK'
  BY <1>2, FaultTypes DEF TypeOK, trial_nvs_set
<1>3. ASSUME NEW t \in Tasks, system_reboot_deferred(t)
      PROVE  TypeOK'
  <2>1. reboot' \in BOOLEAN
    BY <1>3, Zenon DEF TypeOK, system_reboot_deferred
  <2> QED
    BY <1>3, <2>1, FaultTypes DEF TypeOK, system_reboot_deferred
<1>4. CASE glue_session_backup
  <2>1. ready' \in BOOLEAN
    BY <1>4 DEF glue_session_backup
  <2> QED
    BY <1>4, <2>1 DEF TypeOK, glue_session_backup
<1>5. CASE network_config_trial_confirm
  <2>1. active' \in BOOLEAN
    BY <1>5 DEF network_config_trial_confirm
  <2> QED
    BY <1>5, <2>1, FaultTypes DEF TypeOK, network_config_trial_confirm
<1>6. CASE network_config_backup
  BY <1>6 DEF TypeOK, network_config_backup
<1>7. CASE network_config_trial_tick
  BY <1>7 DEF TypeOK, network_config_trial_tick
<1>8. CASE trial_rollback
  <2>1. active' \in BOOLEAN
    BY <1>8 DEF trial_rollback
  <2> QED
    BY <1>8, <2>1 DEF TypeOK, trial_rollback, restore_from_backup
<1>9. CASE Ws
  BY <1>1, <1>2, <1>3, <1>9, SaveTypes DEF Ws
<1>10. CASE EventTask
  BY <1>4, <1>5, <1>6, <1>10, SaveTypes DEF EventTask
<1>11. CASE Monitor
  BY <1>2, <1>3, <1>7, <1>8, <1>11, SaveTypes DEF Monitor
<1> QED
  BY <1>9, <1>10, <1>11

\* A restart clears the RAM and keeps the flash.
LEMMA ResetTypes ==
  ASSUME TypeOK, ResetRam, writes' \in 0 .. MaxWrites,
         crashes' \in 0 .. MaxCrashes
  PROVE  TypeOK'
<1>1. /\ active' \in BOOLEAN /\ due' \in BOOLEAN /\ session' \in BOOLEAN
      /\ ready' \in BOOLEAN /\ reboot' \in BOOLEAN
  BY DEF ResetRam
<1>2. /\ net' \in Values /\ bak' \in Values /\ used' \in Values
      /\ trial_state' \in 0 .. 3 /\ action' \in 0 .. 255
  BY DEF ResetRam, Values
<1>3. /\ pc' \in [Tasks -> Labels] /\ after' \in [Tasks -> Labels]
      /\ img' \in [Tasks -> [net : Values, bak : Values]]
  BY DEF ResetRam, Values
<1> QED
  BY <1>1, <1>2, <1>3 DEF TypeOK, ResetRam

\* Every step of the specification keeps them.
LEMMA StepTypes ==
  ASSUME TypeOK, [Next]_vars
  PROVE  TypeOK'
<1>1. CASE task_com_apply_dp_write
  <2>1. net' \in Values /\ action' \in 0 .. 255
    BY <1>1, NetworkAssumption DEF TypeOK, task_com_apply_dp_write, Values
  <2>2. writes' \in 0 .. MaxWrites
    BY <1>1, NetworkAssumption DEF TypeOK, task_com_apply_dp_write
  <2>3. pc' \in [Tasks -> Labels] /\ after' \in [Tasks -> Labels]
    BY <1>1 DEF TypeOK, task_com_apply_dp_write
  <2> QED
    BY <1>1, <2>1, <2>2, <2>3 DEF TypeOK, task_com_apply_dp_write
<1>2. CASE WindowExpires
  <2>1. due' \in BOOLEAN
    BY <1>2 DEF WindowExpires
  <2> QED
    BY <1>2, <2>1 DEF TypeOK, WindowExpires
<1>3. CASE SessionUp
  <2>1. session' \in BOOLEAN /\ ready' \in BOOLEAN
    BY <1>3, Zenon DEF TypeOK, SessionUp
  <2> QED
    BY <1>3, <2>1, FaultTypes DEF TypeOK, SessionUp
<1>4. CASE SessionDown
  <2>1. session' \in BOOLEAN
    BY <1>4 DEF SessionDown
  <2> QED
    BY <1>4, <2>1 DEF TypeOK, SessionDown
<1>5. CASE PowerLoss
  <2>1. writes' \in 0 .. MaxWrites /\ crashes' \in 0 .. MaxCrashes
    BY <1>5, NetworkAssumption DEF TypeOK, PowerLoss
  <2> QED
    BY <1>5, <2>1, ResetTypes DEF PowerLoss
<1>6. CASE esp_restart
  <2>1. writes' \in 0 .. MaxWrites /\ crashes' \in 0 .. MaxCrashes
    BY <1>6 DEF TypeOK, esp_restart
  <2> QED
    BY <1>6, <2>1, ResetTypes DEF esp_restart
<1>7. CASE UNCHANGED vars
  BY <1>7 DEF TypeOK, vars
<1> QED
  BY <1>1, <1>2, <1>3, <1>4, <1>5, <1>6, <1>7, MainTypes, TaskTypes DEF Next

\* The initial state has the types.
LEMMA InitTypes ==
  ASSUME Init
  PROVE  TypeOK
<1>1. /\ active \in BOOLEAN /\ due \in BOOLEAN /\ session \in BOOLEAN
      /\ ready \in BOOLEAN /\ reboot \in BOOLEAN
  BY DEF Init
<1>2. /\ net \in Values /\ bak \in Values /\ used \in Values
      /\ nvs_net \in Values /\ nvs_bak \in Values
      /\ trial \in 0 .. 3 /\ trial_state \in 0 .. 3 /\ action \in 0 .. 255
      /\ proven \subseteq Good
  BY DEF Init, Values
<1>3. /\ writes \in 0 .. MaxWrites /\ crashes \in 0 .. MaxCrashes
      /\ faults \in 0 .. MaxFaults /\ lapse \in {"none", "now", "past"}
  BY NetworkAssumption DEF Init
<1>4. /\ pc \in [Tasks -> Labels] /\ after \in [Tasks -> Labels]
      /\ img \in [Tasks -> [net : Values, bak : Values]]
  BY DEF Init, Values
<1> QED
  BY <1>1, <1>2, <1>3, <1>4 DEF TypeOK

(* Type correctness of the configuration's life cycle, whatever the        *)
(* operator does: a backup, an image or a flash key never holds anything   *)
(* but a configuration, nothing, or a torn value.                          *)
THEOREM NetworkTypes == Spec => []TypeOK
<1>1. Init => TypeOK
  BY InitTypes
<1>2. TypeOK /\ [Next]_vars => TypeOK'
  BY StepTypes
<1> QED
  BY <1>1, <1>2, PTL DEF Spec

-----------------------------------------------------------------------------
\* The inductive invariant.

\* Early boot keeps the invariant: the factory values, the trial flag and a
\* rollback that a power loss interrupted.
LEMMA MainStep ==
  ASSUME Sound, TypeOK', lapse = "none", lapse' = "none", Disciplined, Main
  PROVE  Sound'
<1>1. CASE dp_init
  <2>1. PcInv'
    BY <1>1 DEF Sound, PcInv, dp_init, dp_config_load
  <2>2. ImgInv'
    BY <1>1 DEF Sound, TypeOK, PcInv, ImgInv, BootInv, Values, dp_init,
       dp_config_load
  <2>3. BootInv'
    BY <1>1 DEF Sound, BootInv, dp_init, dp_config_load
  <2>4. BackupInv'
    BY <1>1 DEF Sound, BackupInv, dp_init, dp_config_load
  <2>5. SessionInv'
    BY <1>1 DEF Sound, SessionInv, Fresh, Backed, Rolled, dp_init,
       dp_config_load
  <2>6. TrialInv'
    BY <1>1 DEF Sound, TrialInv, FallbackInv, RolledInv, dp_init,
       dp_config_load
  <2> QED
    BY <2>1, <2>2, <2>3, <2>4, <2>5, <2>6 DEF Sound
<1>2. CASE network_config_defaults_apply
  <2>1. PcInv'
    BY <1>2 DEF Sound, TypeOK, PcInv, Values, network_config_defaults_apply
  <2>2. ImgInv'
    BY <1>2 DEF Sound, TypeOK, PcInv, ImgInv, BootInv, Values,
       network_config_defaults_apply
  <2>3. BootInv'
    BY <1>2, NetworkAssumption DEF Sound, TypeOK, PcInv, ImgInv, BootInv,
       BackupInv, SessionInv, TrialInv, Values, Fresh, Backed, Rolled,
       FallbackInv, RolledInv, network_config_defaults_apply
  <2>4. BackupInv'
    BY <1>2 DEF Sound, BackupInv, network_config_defaults_apply
  <2>5. SessionInv'
    BY <1>2 DEF Sound, SessionInv, Fresh, Backed, Rolled,
       network_config_defaults_apply
  <2>6. TrialInv'
    BY <1>2 DEF Sound, TrialInv, FallbackInv, RolledInv,
       network_config_defaults_apply
  <2> QED
    BY <2>1, <2>2, <2>3, <2>4, <2>5, <2>6 DEF Sound
<1>3. CASE network_config_trial_boot_check
  <2>1. PcInv'
    BY <1>3 DEF Sound, TypeOK, PcInv, Values, network_config_trial_boot_check,
       trial_boot, trial_unconfirmed, trial_rolled_back, no_trial,
       restore_from_backup
  <2>2. ImgInv'
    BY <1>3 DEF Sound, TypeOK, PcInv, ImgInv, BootInv, Values,
       network_config_trial_boot_check, trial_boot, trial_unconfirmed,
       trial_rolled_back, no_trial, restore_from_backup
  <2>3. BootInv'
    BY <1>3 DEF Sound, TypeOK, PcInv, ImgInv, BootInv, BackupInv, SessionInv,
       TrialInv, Values, Fresh, Backed, Rolled, FallbackInv,
       RolledInv, network_config_trial_boot_check, trial_boot,
       trial_unconfirmed, trial_rolled_back, no_trial, restore_from_backup
  <2>4. BackupInv'
    BY <1>3 DEF Sound, TypeOK, PcInv, BackupInv, Values,
       network_config_trial_boot_check, trial_boot, trial_unconfirmed,
       trial_rolled_back, no_trial, restore_from_backup
  <2>5. SessionInv'
    BY <1>3 DEF Sound, TypeOK, PcInv, SessionInv, Values, Fresh, Backed,
       Rolled, network_config_trial_boot_check, trial_boot, trial_unconfirmed,
       trial_rolled_back, no_trial, restore_from_backup
  <2>6. TrialInv'
    BY <1>3 DEF Sound, TypeOK, PcInv, TrialInv, Values, FallbackInv,
       RolledInv, network_config_trial_boot_check, trial_boot,
       trial_unconfirmed, trial_rolled_back, no_trial, restore_from_backup
  <2> QED
    BY <2>1, <2>2, <2>3, <2>4, <2>5, <2>6 DEF Sound
<1>4. CASE trial_nvs_set("main", "mark", 3, "clear")
  <2>1. PcInv'
    BY <1>4 DEF Sound, PcInv, trial_nvs_set
  <2>2. ImgInv'
    BY <1>4 DEF Sound, ImgInv, trial_nvs_set
  <2>3. BootInv'
    BY <1>4 DEF Sound, TypeOK, PcInv, BootInv, Values, trial_nvs_set
  <2>4. BackupInv'
    BY <1>4 DEF Sound, BackupInv, trial_nvs_set
  <2>5. SessionInv'
    BY <1>4 DEF Sound, SessionInv, Fresh, Backed, Rolled, trial_nvs_set
  <2>6. TrialInv'
    BY <1>4 DEF Sound, TypeOK, PcInv, BootInv, TrialInv, Values,
       FallbackInv, RolledInv, trial_nvs_set
  <2> QED
    BY <2>1, <2>2, <2>3, <2>4, <2>5, <2>6 DEF Sound
<1>5. CASE rollback_done
  <2>1. PcInv'
    BY <1>5 DEF Sound, PcInv, rollback_done
  <2>2. ImgInv'
    BY <1>5 DEF Sound, ImgInv, rollback_done
  <2>3. BootInv'
    BY <1>5 DEF Sound, TypeOK, PcInv, BootInv, Values, rollback_done
  <2>4. BackupInv'
    BY <1>5 DEF Sound, BackupInv, rollback_done
  <2>5. SessionInv'
    BY <1>5 DEF Sound, SessionInv, Fresh, Backed, Rolled, rollback_done
  <2>6. TrialInv'
    BY <1>5 DEF Sound, TypeOK, PcInv, BootInv, TrialInv, Values,
       FallbackInv, RolledInv, rollback_done
  <2> QED
    BY <2>1, <2>2, <2>3, <2>4, <2>5, <2>6 DEF Sound
<1>6. CASE wlan_start
  <2>1. PcInv'
    BY <1>6 DEF Sound, PcInv, wlan_start
  <2>2. ImgInv'
    BY <1>6 DEF Sound, ImgInv, wlan_start
  <2>3. BootInv'
    BY <1>6 DEF Sound, BootInv, wlan_start
  <2>4. BackupInv'
    BY <1>6 DEF Sound, TypeOK, PcInv, BootInv, BackupInv, Values, wlan_start
  <2>5. SessionInv'
    BY <1>6 DEF Sound, TypeOK, PcInv, BootInv, SessionInv, Values, Fresh,
       Backed, Rolled, wlan_start
  <2>6. TrialInv'
    BY <1>6 DEF Sound, TypeOK, PcInv, BootInv, TrialInv, Values,
       FallbackInv, RolledInv, wlan_start
  <2> QED
    BY <2>1, <2>2, <2>3, <2>4, <2>5, <2>6 DEF Sound
<1>7. CASE dp_config_save("main")
  <2>0. save_step("main")
    BY <1>7 DEF dp_config_save, save_fails
  <2>1. PcInv'
    BY <2>0 DEF Sound, TypeOK, PcInv, Values, save_step, Put
  <2>2. ImgInv'
    BY <2>0 DEF Sound, TypeOK, PcInv, ImgInv, Values, save_step, Put
  <2>3. BootInv'
    BY <2>0 DEF Sound, TypeOK, PcInv, ImgInv, BootInv, BackupInv, SessionInv,
       TrialInv, Values, Fresh, Backed, Rolled, FallbackInv,
       RolledInv, save_step, Put
  <2>4. BackupInv'
    BY <2>0 DEF Sound, TypeOK, PcInv, ImgInv, BootInv, BackupInv, SessionInv,
       TrialInv, Values, Fresh, Backed, Rolled, FallbackInv,
       RolledInv, save_step, Put
  <2>5. SessionInv'
    BY <2>0 DEF Sound, TypeOK, PcInv, SessionInv, Values, Fresh, Backed,
       Rolled, save_step, Put
  <2>6. TrialInv'
    BY <2>0 DEF Sound, TypeOK, PcInv, ImgInv, BootInv, BackupInv, SessionInv,
       TrialInv, Values, Fresh, Backed, Rolled, FallbackInv,
       RolledInv, save_step, Put
  <2> QED
    BY <2>1, <2>2, <2>3, <2>4, <2>5, <2>6 DEF Sound
<1> QED
  BY <1>1, <1>2, <1>3, <1>4, <1>5, <1>6, <1>7 DEF Main

\* Network_Save keeps it: a trial is only armed on a proven backup.
LEMMA WsStep ==
  ASSUME Sound, TypeOK', lapse = "none", lapse' = "none", Disciplined, Ws
  PROVE  Sound'
<1>1. CASE network_config_save_handle
  <2>1. PcInv'
    BY <1>1 DEF Sound, TypeOK, PcInv, Values, network_config_save_handle,
       save_persist, save_persist_reboot, save_restore_backup,
       save_trial_reboot, save_unknown, restore_from_backup
  <2>2. ImgInv'
    BY <1>1 DEF Sound, TypeOK, PcInv, ImgInv, BootInv, BackupInv, SessionInv,
       TrialInv, Values, Fresh, Backed, Rolled, FallbackInv,
       RolledInv, network_config_save_handle, save_persist,
       save_persist_reboot, save_restore_backup, save_trial_reboot,
       save_unknown, restore_from_backup
  <2>3. BootInv'
    BY <1>1 DEF Sound, TypeOK, PcInv, BootInv, Values,
       network_config_save_handle, save_persist, save_persist_reboot,
       save_restore_backup, save_trial_reboot, save_unknown,
       restore_from_backup
  <2>4. BackupInv'
    BY <1>1 DEF Sound, TypeOK, PcInv, BackupInv, Values,
       network_config_save_handle, save_persist, save_persist_reboot,
       save_restore_backup, save_trial_reboot, save_unknown,
       restore_from_backup
  <2>5. SessionInv'
    BY <1>1 DEF Sound, TypeOK, PcInv, BootInv, BackupInv, SessionInv, Values,
       Fresh, Backed, Rolled, network_config_save_handle, save_persist,
       save_persist_reboot, save_restore_backup, save_trial_reboot,
       save_unknown, restore_from_backup
  <2>6. TrialInv'
    BY <1>1 DEF Sound, TypeOK, PcInv, TrialInv, Values, FallbackInv,
       RolledInv, network_config_save_handle, save_persist,
       save_persist_reboot, save_restore_backup, save_trial_reboot,
       save_unknown, restore_from_backup
  <2> QED
    BY <2>1, <2>2, <2>3, <2>4, <2>5, <2>6 DEF Sound
<1>2. CASE trial_nvs_set("ws", "arm", 1, "reboot")
  <2>1. PcInv'
    BY <1>2 DEF Sound, PcInv, trial_nvs_set
  <2>2. ImgInv'
    BY <1>2 DEF Sound, ImgInv, trial_nvs_set
  <2>3. BootInv'
    BY <1>2 DEF Sound, BootInv, trial_nvs_set
  <2>4. BackupInv'
    BY <1>2 DEF Sound, BackupInv, trial_nvs_set
  <2>5. SessionInv'
    BY <1>2 DEF Sound, SessionInv, Fresh, Backed, Rolled, trial_nvs_set
  <2>6. TrialInv'
    BY <1>2 DEF Sound, TypeOK, PcInv, ImgInv, BootInv, BackupInv, SessionInv,
       TrialInv, Values, Fresh, Backed, Rolled, FallbackInv,
       RolledInv, trial_nvs_set
  <2> QED
    BY <2>1, <2>2, <2>3, <2>4, <2>5, <2>6 DEF Sound
<1>3. CASE system_reboot_deferred("ws")
  <2>1. PcInv'
    BY <1>3 DEF Sound, PcInv, system_reboot_deferred
  <2>2. ImgInv'
    BY <1>3 DEF Sound, ImgInv, system_reboot_deferred
  <2>3. BootInv'
    BY <1>3 DEF Sound, BootInv, system_reboot_deferred
  <2>4. BackupInv'
    BY <1>3 DEF Sound, BackupInv, system_reboot_deferred
  <2>5. SessionInv'
    BY <1>3 DEF Sound, SessionInv, Fresh, Backed, Rolled,
       system_reboot_deferred
  <2>6. TrialInv'
    BY <1>3 DEF Sound, TypeOK, PcInv, ImgInv, SessionInv, TrialInv, Values,
       Fresh, Backed, Rolled, FallbackInv, RolledInv,
       system_reboot_deferred
  <2> QED
    BY <2>1, <2>2, <2>3, <2>4, <2>5, <2>6 DEF Sound
<1>4. CASE dp_config_save("ws")
  <2>0. save_step("ws")
    BY <1>4 DEF dp_config_save, save_fails
  <2>1. PcInv'
    BY <2>0 DEF Sound, TypeOK, PcInv, Values, save_step, Put
  <2>2. ImgInv'
    BY <2>0 DEF Sound, TypeOK, PcInv, ImgInv, Values, save_step, Put
  <2>3. BootInv'
    BY <2>0 DEF Sound, TypeOK, PcInv, BootInv, Values, save_step, Put
  <2>4. BackupInv'
    BY <2>0, NetworkAssumption DEF Sound, TypeOK, PcInv, ImgInv, BootInv,
       BackupInv, SessionInv, TrialInv, Values, Fresh, Backed, Rolled,
       FallbackInv, RolledInv, save_step, Put
  <2>5. SessionInv'
    BY <2>0 DEF Sound, TypeOK, PcInv, SessionInv, Values, Fresh, Backed,
       Rolled, save_step, Put
  <2>6. TrialInv'
    BY <2>0 DEF Sound, TypeOK, PcInv, BootInv, TrialInv, Values,
       FallbackInv, RolledInv, save_step, Put
  <2> QED
    BY <2>1, <2>2, <2>3, <2>4, <2>5, <2>6 DEF Sound
<1> QED
  BY <1>1, <1>2, <1>3, <1>4 DEF Ws

\* EVT_SESSION_READY keeps it: the trial is confirmed before the backup is
\* replaced by the value in use.
LEMMA EventStep ==
  ASSUME Sound, TypeOK', lapse = "none", lapse' = "none", Disciplined, EventTask
  PROVE  Sound'
<1>1. CASE glue_session_backup
  <2>1. PcInv'
    BY <1>1 DEF Sound, PcInv, glue_session_backup
  <2>2. ImgInv'
    BY <1>1 DEF Sound, ImgInv, glue_session_backup
  <2>3. BootInv'
    BY <1>1 DEF Sound, BootInv, glue_session_backup
  <2>4. BackupInv'
    BY <1>1 DEF Sound, BackupInv, glue_session_backup
  <2>5. SessionInv'
    BY <1>1 DEF Sound, TypeOK, PcInv, SessionInv, Values, Fresh, Backed,
       Rolled, glue_session_backup
  <2>6. TrialInv'
    BY <1>1 DEF Sound, TypeOK, PcInv, ImgInv, SessionInv, TrialInv, Values,
       Fresh, Backed, Rolled, FallbackInv, RolledInv,
       glue_session_backup
  <2> QED
    BY <2>1, <2>2, <2>3, <2>4, <2>5, <2>6 DEF Sound
<1>2. CASE network_config_trial_confirm
  <2>1. PcInv'
    BY <1>2 DEF Sound, PcInv, network_config_trial_confirm
  <2>2. ImgInv'
    BY <1>2 DEF Sound, ImgInv, network_config_trial_confirm
  <2>3. BootInv'
    BY <1>2 DEF Sound, BootInv, network_config_trial_confirm
  <2>4. BackupInv'
    BY <1>2 DEF Sound, BackupInv, network_config_trial_confirm
  <2>5. SessionInv'
    BY <1>2 DEF Sound, SessionInv, Fresh, Backed, Rolled,
       network_config_trial_confirm
  <2>6. TrialInv'
    BY <1>2 DEF Sound, PcInv, TrialInv, FallbackInv, RolledInv,
       network_config_trial_confirm
  <2> QED
    BY <2>1, <2>2, <2>3, <2>4, <2>5, <2>6 DEF Sound
<1>3. CASE network_config_backup
  <2>1. PcInv'
    BY <1>3 DEF Sound, TypeOK, PcInv, Values, network_config_backup
  <2>2. ImgInv'
    BY <1>3 DEF Sound, TypeOK, PcInv, ImgInv, BootInv, BackupInv, SessionInv,
       TrialInv, Values, Fresh, Backed, Rolled, FallbackInv,
       RolledInv, network_config_backup
  <2>3. BootInv'
    BY <1>3 DEF Sound, TypeOK, PcInv, BootInv, Values, network_config_backup
  <2>4. BackupInv'
    BY <1>3 DEF Sound, TypeOK, PcInv, ImgInv, BootInv, BackupInv, SessionInv,
       TrialInv, Values, Fresh, Backed, Rolled, FallbackInv,
       RolledInv, network_config_backup
  <2>5. SessionInv'
    BY <1>3 DEF Sound, TypeOK, PcInv, SessionInv, Values, Fresh, Backed,
       Rolled, network_config_backup
  <2>6. TrialInv'
    BY <1>3 DEF Sound, TypeOK, PcInv, ImgInv, SessionInv, TrialInv, Values,
       Fresh, Backed, Rolled, FallbackInv, RolledInv,
       network_config_backup
  <2> QED
    BY <2>1, <2>2, <2>3, <2>4, <2>5, <2>6 DEF Sound
<1>4. CASE dp_config_save("event")
  <2>0. save_step("event")
    BY <1>4 DEF dp_config_save, save_fails
  <2>1. PcInv'
    BY <2>0 DEF Sound, TypeOK, PcInv, Values, save_step, Put
  <2>2. ImgInv'
    BY <2>0 DEF Sound, TypeOK, PcInv, ImgInv, Values, save_step, Put
  <2>3. BootInv'
    BY <2>0 DEF Sound, TypeOK, PcInv, BootInv, Values, save_step, Put
  <2>4. BackupInv'
    BY <2>0 DEF Sound, TypeOK, PcInv, ImgInv, BootInv, BackupInv, SessionInv,
       TrialInv, Values, Fresh, Backed, Rolled, FallbackInv,
       RolledInv, save_step, Put
  <2>5. SessionInv'
    BY <2>0 DEF Sound, TypeOK, PcInv, ImgInv, SessionInv, Values, Fresh,
       Backed, Rolled, save_step, Put
  <2>6. TrialInv'
    BY <2>0 DEF Sound, TypeOK, PcInv, ImgInv, BootInv, BackupInv, SessionInv,
       TrialInv, Values, Fresh, Backed, Rolled, FallbackInv,
       RolledInv, save_step, Put
  <2> QED
    BY <2>1, <2>2, <2>3, <2>4, <2>5, <2>6 DEF Sound
<1> QED
  BY <1>1, <1>2, <1>3, <1>4 DEF EventTask

\* The end of the window keeps it: the marker follows the stored values.
LEMMA MonitorStep ==
  ASSUME Sound, TypeOK', lapse = "none", lapse' = "none", Disciplined, Monitor
  PROVE  Sound'
<1>1. CASE network_config_trial_tick
  <2>1. PcInv'
    BY <1>1 DEF Sound, PcInv, network_config_trial_tick
  <2>2. ImgInv'
    BY <1>1 DEF Sound, ImgInv, network_config_trial_tick
  <2>3. BootInv'
    BY <1>1 DEF Sound, BootInv, network_config_trial_tick
  <2>4. BackupInv'
    BY <1>1 DEF Sound, BackupInv, network_config_trial_tick
  <2>5. SessionInv'
    BY <1>1 DEF Sound, SessionInv, Fresh, Backed, Rolled,
       network_config_trial_tick
  <2>6. TrialInv'
    BY <1>1 DEF Sound, TypeOK, PcInv, BootInv, BackupInv, TrialInv, Values,
       FallbackInv, RolledInv, network_config_trial_tick
  <2> QED
    BY <2>1, <2>2, <2>3, <2>4, <2>5, <2>6 DEF Sound
<1>2. CASE trial_rollback
  <2>1. PcInv'
    BY <1>2 DEF Sound, TypeOK, PcInv, Values, trial_rollback,
       restore_from_backup
  <2>2. ImgInv'
    BY <1>2 DEF Sound, TypeOK, PcInv, ImgInv, BootInv, BackupInv, SessionInv,
       TrialInv, Values, Fresh, Backed, Rolled, FallbackInv,
       RolledInv, trial_rollback, restore_from_backup
  <2>3. BootInv'
    BY <1>2 DEF Sound, BootInv, trial_rollback, restore_from_backup
  <2>4. BackupInv'
    BY <1>2 DEF Sound, BackupInv, trial_rollback, restore_from_backup
  <2>5. SessionInv'
    BY <1>2 DEF Sound, TypeOK, PcInv, ImgInv, BackupInv, SessionInv, TrialInv,
       Values, Fresh, Backed, Rolled, FallbackInv, RolledInv,
       trial_rollback, restore_from_backup
  <2>6. TrialInv'
    BY <1>2 DEF Sound, TypeOK, PcInv, TrialInv, Values, FallbackInv,
       RolledInv, trial_rollback, restore_from_backup
  <2> QED
    BY <2>1, <2>2, <2>3, <2>4, <2>5, <2>6 DEF Sound
<1>3. CASE trial_nvs_set("monitor", "mark", 3, "reboot")
  <2>1. PcInv'
    BY <1>3 DEF Sound, PcInv, trial_nvs_set
  <2>2. ImgInv'
    BY <1>3 DEF Sound, ImgInv, trial_nvs_set
  <2>3. BootInv'
    BY <1>3 DEF Sound, BootInv, trial_nvs_set
  <2>4. BackupInv'
    BY <1>3 DEF Sound, BackupInv, trial_nvs_set
  <2>5. SessionInv'
    BY <1>3 DEF Sound, SessionInv, Fresh, Backed, Rolled, trial_nvs_set
  <2>6. TrialInv'
    BY <1>3 DEF Sound, TypeOK, PcInv, BootInv, TrialInv, Values,
       FallbackInv, RolledInv, trial_nvs_set
  <2> QED
    BY <2>1, <2>2, <2>3, <2>4, <2>5, <2>6 DEF Sound
<1>4. CASE system_reboot_deferred("monitor")
  <2>1. PcInv'
    BY <1>4 DEF Sound, PcInv, system_reboot_deferred
  <2>2. ImgInv'
    BY <1>4 DEF Sound, ImgInv, system_reboot_deferred
  <2>3. BootInv'
    BY <1>4 DEF Sound, BootInv, system_reboot_deferred
  <2>4. BackupInv'
    BY <1>4 DEF Sound, BackupInv, system_reboot_deferred
  <2>5. SessionInv'
    BY <1>4 DEF Sound, SessionInv, Fresh, Backed, Rolled,
       system_reboot_deferred
  <2>6. TrialInv'
    BY <1>4 DEF Sound, TrialInv, FallbackInv, RolledInv,
       system_reboot_deferred
  <2> QED
    BY <2>1, <2>2, <2>3, <2>4, <2>5, <2>6 DEF Sound
<1>5. CASE dp_config_save("monitor")
  <2>0. save_step("monitor")
    BY <1>5 DEF dp_config_save, save_fails
  <2>1. PcInv'
    BY <2>0 DEF Sound, TypeOK, PcInv, Values, save_step, Put
  <2>2. ImgInv'
    BY <2>0 DEF Sound, TypeOK, PcInv, ImgInv, Values, save_step, Put
  <2>3. BootInv'
    BY <2>0 DEF Sound, TypeOK, PcInv, BootInv, Values, save_step, Put
  <2>4. BackupInv'
    BY <2>0 DEF Sound, TypeOK, PcInv, ImgInv, BootInv, BackupInv, SessionInv,
       TrialInv, Values, Fresh, Backed, Rolled, FallbackInv,
       RolledInv, save_step, Put
  <2>5. SessionInv'
    BY <2>0 DEF Sound, TypeOK, PcInv, ImgInv, SessionInv, Values, Fresh,
       Backed, Rolled, save_step, Put
  <2>6. TrialInv'
    BY <2>0 DEF Sound, TypeOK, PcInv, ImgInv, BootInv, BackupInv, SessionInv,
       TrialInv, Values, Fresh, Backed, Rolled, FallbackInv,
       RolledInv, save_step, Put
  <2> QED
    BY <2>1, <2>2, <2>3, <2>4, <2>5, <2>6 DEF Sound
<1> QED
  BY <1>1, <1>2, <1>3, <1>4, <1>5 DEF Monitor

\* A write, time, the server and power losses keep it: nothing that a reboot
\* finds in flash is worse than what the RAM held.
LEMMA EnvironmentStep ==
  ASSUME Sound, TypeOK', lapse = "none", lapse' = "none", Disciplined,
         \/ task_com_apply_dp_write
         \/ WindowExpires
         \/ SessionUp
         \/ SessionDown
         \/ PowerLoss
         \/ esp_restart
  PROVE  Sound'
<1>1. CASE task_com_apply_dp_write
  <2>1. PcInv'
    BY <1>1 DEF Sound, TypeOK, PcInv, Values, task_com_apply_dp_write, Settled
  <2>2. ImgInv'
    BY <1>1 DEF Sound, ImgInv, task_com_apply_dp_write, Settled
  <2>3. BootInv'
    BY <1>1 DEF Sound, BootInv, task_com_apply_dp_write, Settled
  <2>4. BackupInv'
    BY <1>1 DEF Sound, BackupInv, task_com_apply_dp_write, Settled
  <2>5. SessionInv'
    BY <1>1 DEF Sound, TypeOK, PcInv, SessionInv, Values, Fresh, Backed,
       Rolled, task_com_apply_dp_write, Settled
  <2>6. TrialInv'
    BY <1>1 DEF Sound, TrialInv, FallbackInv, RolledInv,
       task_com_apply_dp_write, Settled
  <2> QED
    BY <2>1, <2>2, <2>3, <2>4, <2>5, <2>6 DEF Sound
<1>2. CASE WindowExpires
  <2>1. PcInv'
    BY <1>2 DEF Sound, PcInv, WindowExpires
  <2>2. ImgInv'
    BY <1>2 DEF Sound, ImgInv, WindowExpires
  <2>3. BootInv'
    BY <1>2 DEF Sound, BootInv, WindowExpires
  <2>4. BackupInv'
    BY <1>2 DEF Sound, BackupInv, WindowExpires
  <2>5. SessionInv'
    BY <1>2 DEF Sound, SessionInv, Fresh, Backed, Rolled, WindowExpires
  <2>6. TrialInv'
    BY <1>2 DEF Sound, TrialInv, FallbackInv, RolledInv,
       WindowExpires
  <2> QED
    BY <2>1, <2>2, <2>3, <2>4, <2>5, <2>6 DEF Sound
<1>3. CASE SessionUp
  <2>1. PcInv'
    BY <1>3 DEF Sound, PcInv, SessionUp
  <2>2. ImgInv'
    BY <1>3 DEF Sound, ImgInv, SessionUp
  <2>3. BootInv'
    BY <1>3 DEF Sound, BootInv, SessionUp
  <2>4. BackupInv'
    BY <1>3 DEF Sound, BackupInv, SessionUp
  <2>5. SessionInv'
    BY <1>3 DEF Sound, SessionInv, Fresh, Backed, Rolled, SessionUp
  <2>6. TrialInv'
    BY <1>3 DEF Sound, TypeOK, PcInv, ImgInv, SessionInv, TrialInv, Values,
       Fresh, Backed, Rolled, FallbackInv, RolledInv, SessionUp
  <2> QED
    BY <2>1, <2>2, <2>3, <2>4, <2>5, <2>6 DEF Sound
<1>4. CASE SessionDown
  <2>1. PcInv'
    BY <1>4 DEF Sound, PcInv, SessionDown
  <2>2. ImgInv'
    BY <1>4 DEF Sound, ImgInv, SessionDown
  <2>3. BootInv'
    BY <1>4 DEF Sound, BootInv, SessionDown
  <2>4. BackupInv'
    BY <1>4 DEF Sound, BackupInv, SessionDown
  <2>5. SessionInv'
    BY <1>4 DEF Sound, SessionInv, Fresh, Backed, Rolled, SessionDown
  <2>6. TrialInv'
    BY <1>4 DEF Sound, TypeOK, PcInv, ImgInv, SessionInv, TrialInv, Values,
       Fresh, Backed, Rolled, FallbackInv, RolledInv,
       SessionDown
  <2> QED
    BY <2>1, <2>2, <2>3, <2>4, <2>5, <2>6 DEF Sound
<1>5. CASE PowerLoss
  <2>1. PcInv'
    BY <1>5 DEF Sound, PcInv, PowerLoss, ResetRam
  <2>2. ImgInv'
    BY <1>5 DEF Sound, ImgInv, PowerLoss, ResetRam
  <2>3. BootInv'
    BY <1>5 DEF Sound, BootInv, PowerLoss, ResetRam
  <2>4. BackupInv'
    BY <1>5 DEF Sound, BackupInv, PowerLoss, ResetRam
  <2>5. SessionInv'
    BY <1>5 DEF Sound, SessionInv, Fresh, Backed, Rolled, PowerLoss, ResetRam
  <2>6. TrialInv'
    BY <1>5 DEF Sound, TrialInv, FallbackInv, RolledInv,
       PowerLoss, ResetRam
  <2> QED
    BY <2>1, <2>2, <2>3, <2>4, <2>5, <2>6 DEF Sound
<1>6. CASE esp_restart
  <2>1. PcInv'
    BY <1>6 DEF Sound, PcInv, esp_restart, ResetRam
  <2>2. ImgInv'
    BY <1>6 DEF Sound, ImgInv, esp_restart, ResetRam
  <2>3. BootInv'
    BY <1>6 DEF Sound, BootInv, esp_restart, ResetRam
  <2>4. BackupInv'
    BY <1>6 DEF Sound, BackupInv, esp_restart, ResetRam
  <2>5. SessionInv'
    BY <1>6 DEF Sound, SessionInv, Fresh, Backed, Rolled, esp_restart, ResetRam
  <2>6. TrialInv'
    BY <1>6 DEF Sound, TrialInv, FallbackInv, RolledInv,
       esp_restart, ResetRam
  <2> QED
    BY <2>1, <2>2, <2>3, <2>4, <2>5, <2>6 DEF Sound
<1> QED
  BY <1>1, <1>2, <1>3, <1>4, <1>5, <1>6

\* The initial state, an empty flash before the first boot, has it.
LEMMA InitInv ==
  ASSUME Init
  PROVE  IInv
<1>1. /\ pc["main"] = "load" /\ pc["ws"] = "idle" /\ pc["event"] = "idle"
      /\ pc["monitor"] = "idle" /\ trial = 0 /\ trial_state = 0
      /\ bak = Empty /\ nvs_bak = Empty
      /\ ~ active /\ ~ session /\ ~ ready /\ ~ reboot
  BY DEF Init
<1>2. Empty # Torn
  BY DEF Empty, Torn
<1>3. PcInv /\ ImgInv
  BY <1>1 DEF PcInv, ImgInv
<1>4. BootInv /\ SessionInv
  BY <1>1 DEF BootInv, SessionInv
<1>5. BackupInv
  BY <1>1, <1>2 DEF BackupInv
<1>6. TrialInv
  BY <1>1 DEF TrialInv, FallbackInv
<1>7. BaseInv
  BY <1>1 DEF BaseInv
<1> QED
  BY <1>3, <1>4, <1>5, <1>6, <1>7, InitTypes DEF IInv, Sound

-----------------------------------------------------------------------------
\* What failed operations cannot take away.

\* A save, complete or not, keeps the control points and the copies of the
\* backup.
LEMMA SaveBase ==
  ASSUME TypeOK, PcInv, BaseInv, NEW t \in Tasks, dp_config_save(t)
  PROVE  PcInv' /\ BaseInv'
<1>1. CASE save_step(t)
  <2>1. PcInv'
    BY <1>1 DEF TypeOK, PcInv, save_step
  <2>2. nvs_bak' \in proven \cup {Empty, Torn}
    BY <1>1 DEF BaseInv, save_step, Put
  <2>3. \A u \in Tasks : pc'[u] \in {"net", "bak"} => img'[u].bak \in proven \cup {Empty, Torn}
    BY <1>1 DEF TypeOK, PcInv, BaseInv, save_step
  <2> QED
    BY <1>1, <2>1, <2>2, <2>3 DEF TypeOK, PcInv, BaseInv, save_step
<1>2. CASE save_fails(t)
  <2>1. PcInv'
    BY <1>2 DEF TypeOK, PcInv, save_fails
  <2>2. \A u \in Tasks : pc'[u] \in {"net", "bak"} => img'[u].bak \in proven \cup {Empty, Torn}
    BY <1>2 DEF TypeOK, PcInv, BaseInv, save_fails
  <2> QED
    BY <1>2, <2>1, <2>2 DEF TypeOK, PcInv, BaseInv, save_fails
<1> QED
  BY <1>1, <1>2 DEF dp_config_save

\* So does every step of a task.
LEMMA TaskBase ==
  ASSUME TypeOK, PcInv, BaseInv, Main \/ Ws \/ EventTask \/ Monitor
  PROVE  PcInv' /\ BaseInv'
<1> USE DEF TypeOK, PcInv, BaseInv
<1>1. CASE dp_init
  BY <1>1 DEF dp_init, dp_config_load
<1>2. CASE network_config_defaults_apply
  BY <1>2 DEF network_config_defaults_apply
<1>3. CASE network_config_trial_boot_check
  BY <1>3 DEF network_config_trial_boot_check, trial_boot,
     trial_unconfirmed, trial_rolled_back, no_trial, restore_from_backup
<1>4. CASE rollback_done
  BY <1>4 DEF rollback_done
<1>5. CASE wlan_start
  BY <1>5 DEF wlan_start
<1>6. CASE network_config_save_handle
  BY <1>6 DEF network_config_save_handle, save_persist, save_persist_reboot,
     save_restore_backup, save_trial_reboot, save_unknown, restore_from_backup
<1>7. CASE \/ trial_nvs_set("main", "mark", 3, "clear")
           \/ trial_nvs_set("ws", "arm", 1, "reboot")
           \/ trial_nvs_set("monitor", "mark", 3, "reboot")
  BY <1>7 DEF trial_nvs_set
<1>8. CASE system_reboot_deferred("ws") \/ system_reboot_deferred("monitor")
  BY <1>8 DEF system_reboot_deferred
<1>9. CASE glue_session_backup
  BY <1>9 DEF glue_session_backup
<1>10. CASE network_config_trial_confirm
  BY <1>10 DEF network_config_trial_confirm
<1>11. CASE network_config_backup
  BY <1>11 DEF network_config_backup
<1>12. CASE network_config_trial_tick
  BY <1>12 DEF network_config_trial_tick
<1>13. CASE trial_rollback
  BY <1>13 DEF trial_rollback, restore_from_backup
<1>14. ASSUME NEW t \in Tasks, dp_config_save(t) PROVE PcInv' /\ BaseInv'
  BY <1>14, SaveBase
<1> QED
  BY <1>1, <1>2, <1>3, <1>4, <1>5, <1>6, <1>7, <1>8, <1>9, <1>10, <1>11,
     <1>12, <1>13, <1>14 DEF Main, Ws, EventTask, Monitor

\* And so do the operator, time, the server and power losses.
LEMMA StepBase ==
  ASSUME TypeOK, PcInv, BaseInv, Disciplined, [Next]_vars
  PROVE  PcInv' /\ BaseInv'
<1> USE DEF TypeOK, PcInv, BaseInv
<1>1. CASE task_com_apply_dp_write
  BY <1>1 DEF task_com_apply_dp_write, Settled
<1>2. CASE WindowExpires
  BY <1>2 DEF WindowExpires
<1>3. CASE SessionUp
  BY <1>3 DEF SessionUp
<1>4. CASE SessionDown
  BY <1>4 DEF SessionDown
<1>5. CASE PowerLoss \/ esp_restart
  BY <1>5 DEF PowerLoss, esp_restart, ResetRam
<1>6. CASE UNCHANGED vars
  BY <1>6 DEF vars
<1> QED
  BY <1>1, <1>2, <1>3, <1>4, <1>5, <1>6, TaskBase DEF Next

\* A boot without a trial whose values are whole restores everything: it
\* depends on nothing that an earlier failure may have left behind.
LEMMA WholeBoot ==
  ASSUME TypeOK', PcInv', BaseInv, [Next]_vars, lapse # "none", lapse' = "none"
  PROVE  Sound'
<1>1. At("main", "check") /\ trial = 0 /\ Whole /\ Goto("main", "start")
      /\ UNCHANGED <<ramVars, flashVars, active, trial_state, session, ready,
                     reboot, proven>>
  BY DEF Next, Main, Ws, EventTask, Monitor, vars, dp_init, dp_config_load,
     network_config_defaults_apply, network_config_trial_boot_check,
     trial_boot, trial_unconfirmed, trial_rolled_back, no_trial,
     rollback_done, wlan_start, network_config_save_handle, trial_nvs_set,
     system_reboot_deferred, glue_session_backup, network_config_trial_confirm,
     network_config_backup, network_config_trial_tick, trial_rollback,
     dp_config_save, save_step, save_fails, task_com_apply_dp_write,
     WindowExpires, SessionUp, SessionDown, PowerLoss, esp_restart, ResetRam
<1>2. /\ pc'["main"] = "start" /\ pc'["ws"] = "idle"
      /\ pc'["event"] = "idle" /\ pc'["monitor"] = "idle"
  BY <1>1 DEF TypeOK, PcInv, BaseInv
<1>3. ImgInv'
  BY <1>2 DEF ImgInv
<1>4. BootInv'
  BY <1>1, <1>2 DEF BaseInv, BootInv, Whole
<1>5. BackupInv'
  BY <1>1, <1>2 DEF BaseInv, BackupInv, Whole
<1>6. SessionInv'
  BY <1>2 DEF SessionInv
<1>7. TrialInv'
  BY <1>1, <1>2 DEF BaseInv, TrialInv, FallbackInv
<1> QED
  BY <1>3, <1>4, <1>5, <1>6, <1>7 DEF Sound

\* Every step keeps the invariant.
LEMMA StepInv ==
  ASSUME IInv, Disciplined, [Next]_vars
  PROVE  IInv'
<1>1. TypeOK'
  BY StepTypes DEF IInv
<1>2. PcInv' /\ BaseInv'
  BY StepBase DEF IInv
<1>3. CASE lapse' # "none"
  BY <1>1, <1>2, <1>3 DEF IInv
<1>4. CASE lapse # "none" /\ lapse' = "none"
  BY <1>1, <1>2, <1>4, WholeBoot DEF IInv
<1>5. CASE lapse = "none" /\ lapse' = "none"
  <2>1. Sound
    BY <1>5 DEF IInv
  <2>2. UNCHANGED vars => Sound'
    BY <1>1, <2>1 DEF vars, Sound, PcInv, ImgInv, BootInv, BackupInv,
       SessionInv, TrialInv, Fresh, Backed, Rolled, FallbackInv, RolledInv
  <2>3. Sound'
    BY <1>1, <1>5, <2>1, <2>2, MainStep, WsStep, EventStep, MonitorStep,
       EnvironmentStep DEF Next
  <2> QED
    BY <1>1, <1>2, <2>3 DEF IInv
<1> QED
  BY <1>3, <1>4, <1>5

(* The inductive invariant holds when values are written in settled        *)
(* sessions, whatever flash accesses, reboot tasks and session events fail *)
(* in between.                                                             *)
THEOREM NetworkInvariance == Disciplined => (Spec => []IInv)
<1> SUFFICES ASSUME Disciplined PROVE Spec => []IInv
  OBVIOUS
<1>1. Init => IInv
  BY InitInv
<1>2. IInv /\ [Next]_vars => IInv'
  BY StepInv
<1> QED
  BY <1>1, <1>2, PTL DEF Spec

(* Whenever a trial is armed or its window open, the flash holds a backup  *)
(* that once carried a session, or, after a failed operation, none that    *)
(* could be taken for one: network_config_trial_boot_check and             *)
(* trial_rollback never go back to a configuration that never worked.      *)
THEOREM FallbackIsProven == Disciplined => (Spec => []TrialHasFallback)
<1> SUFFICES ASSUME Disciplined PROVE Spec => []TrialHasFallback
  OBVIOUS
<1>1. Spec => []IInv
  BY NetworkInvariance
<1>2. IInv => TrialHasFallback
  BY DEF IInv, BaseInv, Sound, TrialInv, FallbackInv, TrialHasFallback
<1> QED
  BY <1>1, <1>2, PTL

(* A boot that reports "rolled back" runs on a configuration that once     *)
(* carried a session, however often the power failed during the rollback,  *)
(* unless an operation failed since the last whole boot.                   *)
THEOREM RollbackIsProven == Disciplined => (Spec => []RollbackIsComplete)
<1> SUFFICES ASSUME Disciplined PROVE Spec => []RollbackIsComplete
  OBVIOUS
<1>1. Spec => []IInv
  BY NetworkInvariance
<1>2. IInv => RollbackIsComplete
  BY DEF IInv, Sound, TrialInv, RolledInv, RollbackIsComplete
<1> QED
  BY <1>1, <1>2, PTL
=============================================================================
