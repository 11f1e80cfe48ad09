# Fountainer firmware: TLA+ models, checks and proofs

The firmware controls a well pump from a pressure sensor on an ESP32, reports to
a server over a TLS websocket, is configured and updated remotely, answers a
maintenance client in the local network and is a node on a CANopen bus. This
directory holds TLA+ modules for the parts where a mistake would be hard to
test, TLC configurations that check them on small instances, and TLAPS proofs of
the main safety properties for every value of the parameters. `PROJECT.json`
maps each definition to the lines it models and lists runs, mutants, findings,
hazards and theorems. Paths below are relative to the repository's `src/`.

## The system

| part | state | operations | interacts with | hard behaviour |
|---|---|---|---|---|
| pump manager (`device/pump_manager.c`) | state, mode, relay, fault, stamps, start ring, demand event | `pm_update` each cycle, requests on/off/restart, mode, ack, config | pump task (caller, under a lock) | protections against timers, sequences of requests, unsigned times |
| pressure input (`device/pump_task.c`) | last good value, jump candidate, fail counter | one sample per cycle | sensor, simulation datapoint | order of glitches, jumps and failures |
| pump task (`device/pump_task.c`) | snapshot, relay error, alert edges | 200-ms cycle, request functions, session event | HAL relay, datapoints, sender, reboot task | snapshot used after the unlock, alerts against session changes, reboot |
| network configuration (`network/network_config.c`, `components/datapoints`) | datapoints in RAM and flash, trial marker, trial window | dp_write + save action, boot check, confirm, backup, tick | event task, monitor task, websocket task, reboot | power loss between flash writes, unlocked flag |
| watchdog (`components/watchdog`) | per channel beat, soft count; RTC record and brake counter | heartbeat, pass, escalation, boot | all tasks, session recovery, reboot | blocking recovery, wrap of time differences, deferred reboot |
| server session (`components/clientside_protocol`) | negotiated, running, mutex, queue | websocket events, 1-s poll, sender | server, OTA job, watchdog, event subscribers | lock order, half-open links, full queues, stale jobs |
| OTA (`network/ota_task.c`) | one job per offer | start, download, verify, apply | session, reboot | refusal under the lock, two jobs |
| logging (`components/logging`, batch in `network/task_com.c`) | byte ring of records, sequence numbers; two flash slots, queue, acknowledge flag | emit, clear, pull a batch; claim a slot at boot, append, read and acknowledge the previous boot | all tasks (emit), server, power supply | wrap and gaps, silent loss, power loss between erase and header |
| power and link adaptation (`core/power_mgmt.c`, `network/link_quality.c`, `main/main.c`) | mode, PM lock, two flags, two switches, link state | monitor tick, activity note, link edge | monitor, websocket, OTA and event task | mutex around half of the decision, flags without one |
| pressure history (`components/pressure_history`, batch in `network/task_com.c`) | ring of numbered samples | add, read after a cursor | pump task, server, local client | cursor that has been overwritten, wrap of the number |
| WLAN (`network/wlan_com.c`) and protocol starter (`network/task_com.c`) | driver state, reconnect timer, callback, semaphore, started flag | connect, driver events, retry, callback, start of the protocol | main, sys_evt, timer, starter and event task | a link that comes up between two steps of the start-up |
| local server (`network/local_server`) | sessions, slot count, buffer pool, descriptor queue, work queued to the HTTP server, strikes | open, frame, close, worker, idle scan, start and stop with the link | event manager, HTTP server, message handling | sockets used again, stale descriptors, sessions wiped under the worker, full queues |
| CANopen (`components/canopen`, `device/canopen_task.c`) | NMT state, error register, PDO parameters and held frames, SDO transfer; driver state, noted fault | NMT, SDO, SYNC, PDO, emergency, housekeeping, bus-off, recovery | datapoints, event task, watchdog task, bus | lost frames and repeats, three tasks without a lock, bus-off |
| event manager | queue of 16, subscribers | publish, dispatch | everybody | drops at the limit |
| task_com, command, system, main | callbacks, deferred reboot, wiring | — | — | part of the modules above |
| message codec, task manager, data store, measuring, factory configuration, console | see *Not modelled* | | | |

What makes each part correct is stated in the property comments of its module
and summarised under *Runs*.

## Modules

| module | models | remarks |
|---|---|---|
| `PumpManager` | `pump_manager.c`: all states, protections, timers | one action per exported function. `pm_update` is one action with the pressure level, the sensor verdict and the elapsed time as inputs. Pressure is a small level: the exponential filter is a free choice of the filtered level, so all filter behaviours are included |
| `PumpContract` | what the rest of the firmware relies on | relay, fault, mode and `armed` (a start is under way); abstract actions only |
| `PressureInput` | sample chain of `pump_task_cycle` | in units of the filter limits; `Up` bounds the drift per sample |
| `PumpTask` | pump task over the contract | EXTENDS `PumpContract`; the cycle is cut at the lock, the relay write and the report; requests, datapoint writes, session edges and reboots interleave |
| `NetworkConfig` | save actions, trial, backup, boot | four tasks with a program counter; `dp_config_save` writes key by key, so that `PowerLoss` can tear it; RAM is lost, flash stays; every flash access, the reboot task and the session event may fail (`Fails`), which the code ignores or only logs |
| `Watchdog` | supervisor pass, channels, RTC record | time in ticks, differences modulo `Wrap` as in the cast to `uint32_t`; the record in RTC memory is written in the order of the code (flag, channel, counter), the counter in a read and a write |
| `FpSession` | session, lock, requests and their verification, sender, OTA jobs, watchdog recovery | server and network are external and free to drop, wedge, replay or refuse |
| `BoundedLog` | what a log promises its reader | numbered without gaps, the oldest entries give way visibly |
| `LogRing` | `log_ring.c`, `logging_read_since`, log batch | one cell per byte as far as the ring reads it; each operation runs under one lock and is one action; implements `BoundedLog` |
| `LogFlash` | `logging_flash.c` | start-up cut at each flash write; an append may fail or be torn; reads do not fail |
| `PressureHistory` | `pressure_ring.c` and the history batch | a cursor is any number of the word, `Word` is 2^32 |
| `WlanLink` | `wlan_com.c`, the starter of `task_com.c`, the end of the boot in `main.c` | the event handler is cut between the event it publishes, which may be dropped, and the state it sets; `esp_wifi_connect` may be refused |
| `LocalServer` | `local_server.c`, buffer pool, event manager's WLAN subscribers | EXTENDS `WlanLink`; the worker is cut between its test for a stale descriptor and its work, which is not under the lock, and between its test of `s_hd` and its call of the HTTP server (`WorkerDo`, `WorkerUse`); the HTTP server is external |
| `CanSdo` | SDO server of `co_core.c`, dictionary callbacks of `canopen_task.c`, checks of a datapoint write | values are sequences of bytes, so that segments, lengths, zero bytes in a text (`CString`) and the remains of the transfer buffer are real; queues that lose frames and a client that repeats, aborts or gives up |
| `CanNode` | NMT, boot-up, emergency, PDO engine of `co_core.c`; driver handling of `canopen_task.c` | CAN, event and watchdog task; the CAN task is cut where another task gets between two of its accesses |
| `CommAdaptation` | power mode, combination of the switches, link edges | every unprotected read and write is a step; the link score is free between two ticks |
| `MCPumpManager`, `MCWatchdog`, `MCCanSdo`, `MCLocalServer` | constants for TLC | configurations, channel tables, plans and shapes |
| `MCHistories` | the three histories in one run | EXTENDS `LogRing`, `LogFlash` and `PressureHistory`; they share no state, a behaviour is about one of them |
| `*Proofs` | theorems | EXTEND the module and TLAPS |

State and actions keep the names of the C code. Operators introduced as
"Mutant" change one definition the way a plausible slip would; each property is
broken by at least one of them. They are not used by any specification.

`PumpManager` implements `PumpContract` (`ContractHonoured`, checked and
proved), and `PumpTask` is built on the contract: what holds for the task over
every behaviour of the contract holds over the real manager.

## Runs

Runs that pass:

| run | shows | bounds |
|---|---|---|
| `pump_manager` | run time, waits, pauses, minimum run and starts per hour are bounded; the machine implements the contract | 7 time units, 4 pressure levels, ring of 2, two configurations: long enough for a full run, its pause and a second start, with the ring wrapping |
| `pressure_input` | no broken-sensor report with too few failures in a row; enough good reads of one level always adopt it | deployed limits (jump 5, re-sync 5, fail limit 3) over 13 levels, simulation steps of any size |
| `pump_task` | output follows the snapshot, no fault stays unreported unless its alert or the session event was dropped, a latched fault reaches the relay although writes fail | all interleavings, two fault codes, sender queue as a set |
| `network_config` | a trial has a proven backup, or after a failed operation none, but never an unproven one; a rollback runs on it unless an operation failed; a trial ends unless one fails in the running boot | 3 values and the factory one, 3 writes, 2 power losses, one failed operation (`MaxFaults`) at any place, the operator waits for the previous action (`Disciplined`) |
| `watchdog` | reboot brake, a silent channel reboots in bounded time, truth of the boot diagnosis | a channel of each kind, 2 restarts, brake at 1, passes blocked for 1 period |
| `fp_session` | a session only runs after its own handshake; half-open connections heal; operation is restored | each kind of request, fresh and stale, queues of 1 (so that they overflow), 1 job that may outlive its connection, 1 broken connection |
| `histories` | a pull of the log never skips a record silently and refines `BoundedLog`; a pull of the pressure shows every gap; the newest flash log survives until acknowledged, is offered under its own id, and is readable up to the first failure | ring of 8 cells, records of 2 to 4 cells, 6 records: exact fits, gaps, free space in two pieces and evictions of several records all occur; 3 samples kept of 7, batches of 2; 4 boots, slots of 2 entries, queue of 1: both slots are used twice and overflow |
| `comm_adaptation` | clock, flag and mode agree outside of a transition; a LOW device with work wakes up | one requester beside the monitor and the event task, queue of 1 |
| `can_sdo` | what is stored was sent whole and was confirmed only when stored; a read of several segments is the value at one time; a password is never in an answer | segments of 2 bytes, buffer of 6, two frames under way in each direction; plans of texts of two segments, an empty text, one too long for the datapoint, one too long for the buffer, one with a zero byte, the two numbers with their rule, the objects that cannot be written |
| `can_node` | the error register follows the pump fault; a held frame goes where it was sent; the master gets the last value; the driver comes back | five groups of inputs (`Focuses`), each with everything that interacts in it; transmit queue of 1, `sync_count` modulo 4 |
| `local_server` | a queue of two entries per client and one per buffer is enough; the worker owns the session it handles; slots and buffers come back; a link that stays up brings both services up | one and two clients with a sufficient and an insufficient queue, up to 4 connections over 2 sockets; booting; its end, where main and the event task may both start the server, with clients; a link that goes and comes (`Shapes`) |

One run ends in a counterexample, because the code does something else than a
document says (`findings` quotes both): in `fp_session_refused`, refusing an
update offer takes the session lock inside the websocket callback that already
holds it, and the client task stops for ever.

### Known defects

Behaviour the models have because the code has it, or that was met while
translating it, and that a maintainer may want to know although no run is spent
on it. Properties that would fail because of one of these say so in their
comment and exclude exactly that case.

Pump, configuration, session:

* an applied update restarts without the pre-reboot hook (`ota_task.c:182`), and
  the pump task may write the relay again after the hook; `main.c:87` says
  "Safety first: pump relay OFF before ANY reboot path.";
* `network_config_backup` copies the values in RAM, tried or not
  (`network_config.c:122`), `network_config.h:22` calls the backup known-good;
* a run requested in an empty system is measured against the start level of an
  older, still open demand event and stopped as a pipe break
  (`pump_manager.c:224`, `pm_request_on` begins an event only if none is open);
* leaving the pressure simulation by a large step drops real samples until the
  re-sync, which can report a broken sensor (`pump_task.c:303`);
* a timed-on at the manual ceiling, or re-armed while running, ends in a latched
  MAX_RUNTIME fault: the fault threshold is tested before the deadline in the
  same cycle (`pump_manager.c:228`; `pump_manager.h:108` says it "switches off
  cleanly at its deadline");
* a trial whose window expires while the session comes up is confirmed and then
  rolled back: `s_bTrialActive` is tested and cleared by two tasks without a lock
  (`network_config.c:266`);
* a heartbeat that arrives while a watchdog pass is blocked is newer than the
  pass's clock sample: the unsigned difference wraps and the live channel takes a
  recovery stage (`app_watchdog.c:207`);
* the pull of the previous boot's log has no position: what does not fit into the
  first batch cannot be fetched (`logging_flash.c:201`);
* activity noted while the monitor is entering LOW finds the mode still HIGH and
  returns, and the request is served in LOW (`power_mgmt.c:93`);
* the event task and the power manager may apply their combinations of power mode
  and link state in the wrong order, and a link edge dropped at a full event
  queue is not repeated: the switches keep an old combination until the next
  edge (`main.c:150`);
* an acknowledge written early clears a fault latched in the cycle that reads it
  (`pump_task.c:381`);
* the pump task waits up to 1 s for each alert on a full transmit queue, its
  watchdog channel has 2 s (`fp_task.c:89`);
* a download that outlives its session is joined by a second job on the same slot
  (`ota_task.c:238`); a burst of events drops a READY or a LOST
  (`event_manager.c:148`): without the READY the pending pump fault is not
  announced in that session, no backup is taken and a trial is not confirmed;
* a power loss between the batch write of a trial and its marker boots on the
  untested values without a trial window (`network_config.c:208`);
* what fails in the network configuration is not noticed: a trial is armed
  whatever the save before it returned (`network_config.c:208`), the backup it
  would go back to may then be missing or in pieces (`:151`), a rollback whose save
  failed is still marked as done (`:228`), a marker that is not written or erased
  stays as it was (`:54`), and a trial whose reboot task is not created waits for
  the next restart (`:211`, `system.c:42`);
* one deferred reboot can use up several counts of the reboot brake
  (`app_watchdog.c:184`);
* a command, an update or a panic between the watchdog's record and its deferred
  reboot is reported as a watchdog reboot (`app_watchdog.c:179`; `app_watchdog.h:90`
  says the diagnosis is "false if the last reboot was not watchdog-initiated
  (power-on, OTA, commanded reboot, panic)"); a restart between the writes of
  `ucPending` and `ucChannel` names the channel of an older record (`:180`), and a
  refused hook clears the flag of another channel's reboot under way (`:193`);
* a short session publishes READY without LOST, and a LOST decided by the poll
  may be published after the READY of the next session (`fp_task.c:175`);
* a cursor of 2^32 - 1 wraps in `pressure_ring.c:50` and returns the whole ring;
* `dp_report_changes` moves its baseline before the frame is queued: a dropped
  frame hides a change until the next full report (`datapoints.c:324`);
* two writers' `dp_config_save` may store the older values last, and
  `dp_config_load` does not test the rules between two values after a torn save
  (`datapoints.c:395`, `:436`).

CANopen:

* a pump fault noted between reading and clearing `ucPending` is lost
  (`canopen_task.c:619`), as is one whose event finds the event queue full: the
  error register is wrong until the next change of the fault;
* a `twai_start` that fails behind a recovery is not repeated by the CAN task; the
  driver stands still until the watchdog's `canopen_recover` (`canopen_task.c:582`);
* housekeeping that restarts the driver between the halves of the watchdog's
  `canopen_recover` leaves the controller installed and `bRunning` false for ever
  (`canopen_task.c:286`, `:636`);
* a synchronous RPDO held for SYNC survives a remapping while it is valid and an
  NMT stop (`co_core.c:219`); `sync_count` wraps before a type above the wrap is
  due (`:424`); a TPDO with a string that changes its length stops (`:341`);
* a text that is written with a zero byte is confirmed and stored up to that byte
  (`canopen_task.c:158`);
* an empty value is uploaded as four zero bytes (`co_core.c:488`); two SDO clients,
  or one that gives up early, can mix two downloads;
* a boot-up frame flushed with the transmit queue is not repeated.

WLAN and local server:

* a queued answer or close only carries the socket number: after a reuse it
  reaches a newer client (`local_server.c:66`);
* with three clients and more the queue of 8 is smaller than two entries per client
  and one per buffer, and the HTTP task cleans up beside the worker;
* the idle scan needs an empty queue for 1 s: one client that keeps sending holds
  another one's slot (`local_server.c:276`);
* main and the event task may both be in `server_start`, and the second clears the
  handle of the first (`local_server.c:339`): the server then runs without a handle,
  and since every release of a session tests `s_hd` (`:261`, `:358`, `:402`) a silent
  client keeps its slot until a restart; a connect published before the
  subscription and set after the look at the state starts no server
  (`wlan_com.c:124`, `local_server.c:386`), nor does one that is dropped at a full
  event queue (`event_manager.c:148`);
* an `esp_wifi_connect` that the driver refuses is not repeated: no event and no
  timer follows it (`wlan_com.c:69`, `:78`);
* a failed `fountain_proto_start` is repeated at the next connect only
  (`task_com.c:432`).

### Bounds

Bounds named in the configurations (`MaxTime`, `MaxWrites`, `MaxCrashes`, `MaxFaults`,
`MaxBoots`, `MaxJobs`, `MaxWedges`, `MaxSeq`, `MaxEmits`, `MaxSamples`, `MaxQueue`,
`RxMax`, `EvtMax`, the connections of a shape) only stop TLC from counting for ever;
each is large enough for the case it stands for to happen and be followed by a normal
operation. `Plans`, `Focuses`, `Shapes` and `which` choose at the start what a behaviour
is about, so that inputs without influence on each other add up and do not multiply.
Sizes of the protocol (segments, buffer, ring, queue) are constants and are smaller than
in the build in the same proportions.

Deadlock is checked where the system never stops (`PumpTask`, `Watchdog`,
`PressureInput`, `CommAdaptation`). Elsewhere a behaviour may end: at a bound, with
a client that has nothing more to ask, on a bus where nothing happens, or in
`FpSession` with a client task that really stops.

Some properties except a loss that the code never makes good. It is then kept in a
history variable, as narrow as the loss: `lost` in `PumpTask` (until the fault changes,
an alert of it is queued or a session is reported), `lapse` in `NetworkConfig` (`now` in
the boot of the failure, `past` until a boot without a trial finds its values whole),
`missed` and `stuck` in `WlanLink` (until the next event of the link is queued; for
good), `missed` in `CanNode` (until the next event of the fault, or a reset that makes it good).
`BusComesBack` excepts the state itself (`Split`: the controller is installed and
`bRunning` false for ever), and so does `NothingLeaks` (`Orphaned`: a server that runs
without a handle).

A type invariant belongs to each module. All of them are proved, most of them as
a part of the inductive invariant; no run is spent on them.

### Fairness

Every task is scheduled (weak fairness of its steps), because FreeRTOS runs tasks with a
blocking call in every loop. Strong fairness is assumed for taking the session mutex and
the mutex of the power mode (waiters are queued), for relay writes, which may fail once
but not for ever, and for the checks at the top of the CAN task's cycle, which
emergencies interrupt and the loop comes back to. Nothing is assumed of the network, the
operator, the bus master, local clients or the power supply, except that the network
lets the websocket client connect again (`Connect` is a step of the client's task in
`FpSession`), that the server answers a handshake, a working bus carries frames, a
server that is closing closes its sockets, and power losses and failures of the flash
end (`MaxCrashes`, `MaxFaults`). `NothingLeaks` is about clients that fall silent, and
`LinkBringsServices` about a link that stays. `SessionRestored` also assumes that
downloads end within the session deadline; the assumption is part of the property.

## Proofs

TLAPS checks these for all parameter values allowed by the named assumptions of the
modules (`PumpAssumption`, `InputAssumption`, `ContractAssumption`, `TaskAssumption`,
`NetworkAssumption`, `WatchdogAssumption`, `SessionAssumption`, `CommAssumption`,
`ServerAssumption`, `NodeAssumption`, `SdoAssumption`, `HistoryAssumption`,
`RingAssumption`, `FlashAssumption`; TLC evaluates them in the runs). The bounds of the
runs are constants too, so a theorem holds for any number of writes, crashes, boots,
connections, jobs or samples. Some proof modules hold two components that share no
state; each component keeps its own specification there.

* `PumpManagerProofs`: `TypeCorrect`; `Invariance` of
  `IInv = TypeOK /\ RelayAndFaultMatchState /\ NoStampInFuture /\ CycleInv /\
  EventInv /\ StopInv /\ RunInv /\ WaitInv`. The bounds are not inductive by themselves:
  a run is only bounded because the previous cycle tested it (`CycleInv`: time
  since the last cycle is at most `MaxGap`; `RunInv` and `WaitInv`: at the last
  cycle the limit had not been reached), and the pause only because the stop
  stamp is the time of the last switch-off (`StopInv`). From it: `RelayConsistent`,
  `NoUnderflow`, `RunTimeIsBounded`, `WaitsAreBounded`, `MinOffIsRespected` and
  `MinOnIsRespected` (action properties) and `ImplementsContract` (refinement).
  `StartRateIsBounded` needs to know what the ring of start stamps holds
  (`LogInv`, `RingInv`): the starts of the last hour map one to one into slots of
  the ring, so there are no more of them than recent slots, which is what the guard counts.
* `PressureInputProofs`: `InputTypes`; `Debounced` under the condition
  `Physical` (the pressure drifts by at most the jump limit during a series of
  misses, as in the deployed values); `FilterNeverSticks` without any condition
  (`SteadyInv`: the run of equal reads is counted by the pending anchor).
* `PumpTaskProofs`: `TaskInvariant`, and from it `OutputIsSafe` and
  `FaultAlertNotLost`, for every set of fault codes that has a sensor fault. The
  strengthening says that an unseen alert is on one of its three routes (event,
  queue, report) or was lost at a full queue.
* `NetworkConfigProofs`: `NetworkTypes`; `FallbackIsProven` and `RollbackIsProven`
  from `NetworkInvariance`, under the condition `Disciplined` of the model (values
  are written in sessions that have settled; without it the backup is taken from
  values no session has proven, see the hazards). Any save, read, marker write or
  reboot may fail, any number of times. The invariant says where each of the
  four tasks is and where its save returns to (`PcInv`), what the key-by-key save
  will still write (`ImgInv`), what early boot has read (`BootInv`), that the backup
  carried a session, is empty, or is torn while the device runs on the value that
  was to be backed up (`BackupInv`), and how the trial record relates to all that.
  All of that (`Sound`) holds as long as no failure is outstanding. `BaseInv` holds
  whatever has failed: every copy of the backup carried a session, was never
  written or is in pieces.
* `WatchdogProofs`: `WatchdogInvariant` and `BrakeIsEffective` for any number of
  channels (`CountInv` accounts for each restart, the armed one included);
  `DiagnosisIsSound` (`RecordInv`: a pending record names a channel that escalated in
  this run, except between the writes of the record); `DeadChannelsReboot` under
  `NoWrap` (no deadline comes within a pass of 2^32 ms; in the deployed table they are
  minutes), with `SilenceInv`, which bounds the silence of a channel by the stages it
  has been through. In the same module the session the watchdog supervises:
  `SessionTypes` and `RunsAreNegotiated`. `handle_ota_none` sets `running` without a
  look at `negotiated`; the invariant shows why that is right: an answer to the update
  check is under way only behind an accepted hello (`OfferInv`), whose news arrives
  first, and CONNECTED, which resets the session, is handled before that news
  (`HelloInv`), even if frames of an earlier connection are still in the queue.
* `CommProofs`: `ModeStaysWhole` for any number of requesting tasks. The strengthening
  says who holds the mutex (`LockInv`: exactly the task inside `mode_apply`) and how far
  it is (`HolderInv`: the clock follows first, then the flag, the mode last; the
  transition always changes the mode, which is what the second test under the mutex is
  for). For the local server `ServerInvariance` has two parts. `BaseInv` holds for every
  number of clients, sockets and buffers and every depth of the queue, also when
  descriptors are refused: a buffer is free, queued with its frame or in the worker's
  hands (`BuffersInv`), the semaphore counts the free entries of the table (`SlotsInv`),
  a close is for a session that waits for it and there is one of a slot (`ClosesInv`),
  and an active entry has an open socket or its close ahead (`FreedInv`). From it
  `ServerTypes` and `NothingStaysTaken`: once the sockets are closed and the queue is
  worked off, everything is back. For a queue that holds two entries per client and one
  per buffer, `QueueInv` (of a slot there is at most an open and, behind it, a close)
  and `WorkerInv` (what the worker found alive is still that session) are inductive too,
  with `OutInv` (a call of the HTTP server the worker is about to make is never behind
  the end of its session): the descriptors that are no frames map one to one into twice
  the slots, so there is room whenever httpd adds one. From these `QueueIsEnough` and
  `WorkerKeepsSlot`.
* `CanNodeProofs`: `RegisterIsTrue` and `HeldFramesAreSafe` for every grouping of the
  inputs, every queue and every limit. The register alone is not inductive: `NoteInv`
  says that the last event on its way or noted is about the present state of the pump,
  and that the CAN task handles the noted one unless another came meanwhile, unless an
  event was dropped. For the held frame the strengthening is that only a valid RPDO
  holds one. `DriverStaysInStep`: whenever neither the CAN task nor the watchdog's
  recovery is in the driver, `bRunning` and `bBusOff` agree with the controller, and a
  bus-off that is not handled yet has its alert, unless both were in the driver at once
  (*Known defects*). The invariant says at each place in the driver whether the
  controller is installed and what `bRunning` is (`PlaceInv`), and which alerts fit the
  controller (`AlertsFit`). `NodeKeepsTypes` is the type invariant. In the same module
  the SDO server: `SdoTypes`, `WritesStayWhole`, `UploadsAreSnapshots`,
  `ConfirmedWasStored` and `SecretStaysInside`, for values, segments, buffer and queues
  of every size, from `SdoInvariant`. `SdoAssumption` only orders the sizes as in the
  code (4 < 7 < 128, strings no longer than the buffer) and keeps the byte that stands
  for a password out of the other texts. The invariant says
  * what can be under way (`ExchangeInv`): at rest one exchange left from before; at the
    begin of a transfer that one and behind it the client's own; in segments only the
    client's own, and its begin a second time at the first segment at most;
  * that the transfer buffer holds the bytes the client has sent of its value, up to the
    current segment or with it, and that a last segment is confirmed only behind the
    store (`LoadInv`); that a segment left over from an abandoned download is the first
    of a whole value of its own object, or is refused (`LeftInv`);
  * that the server is at the beginning of the transfer its last answer names
    (`BegunInv`), and that what a client has read is a prefix of the snapshot the server
    took (`ReadInv`), which has no byte of a password (`BufferInv`).

  It rests on the assumption of the model that a timeout finds nothing of the exchange
  under way; a client that gives up earlier can mix two downloads (*Known defects*).
* `HistoryProofs`: for the pressure history `HistoryTypes`, `HistoryLossShows` and
  `HistoryImplementsLog` (the ring implements `BoundedLog`; `RingInv` gives the place
  of each number, `WindowInv` what is stored). The assumption is that the counters
  do not come within three of the end of their word. For the RAM log `RamLogSound`,
  `RamLogTypeOK`, `RamLossIsNeverSilent` and `RamLogImplementsLog` (the second
  refinement of `BoundedLog`), for every capacity and set of record sizes. The
  invariant `RingSound` gives each record a position that counts on past the end of the
  buffer: the record lies whole and unaltered at its place, directly behind the one
  before or, across a marked gap, at the start of the buffer, from the tail to the
  head. Evicting shifts the positions, pushing adds one. The walk over the records, the
  evictions and the filter of a batch are recursive functions on `0..n`; what they
  return is proved by induction on the number of records, as well-foundedness of
  `0..n` (`UpTo`, `IterationExists`). For the flash log `FlashTypes`,
  `LatestLogIsKept`, `PreviousBootIsOffered` and `AppendedCanBeRead` from
  `FlashInvariance`: `HeaderInv` says which slot a start-up that broke off at any write
  has claimed and which holds the latest log, `DataInv` that what was surely appended
  is a prefix of what the slot holds in front of any torn entry. It also shows that
  the latest log is never among the acknowledged ones.

Only model-checked:

* all liveness properties (`FaultIsAlerted` and the like state what must hold when
  nothing is under way, and are safety): liveness under fairness is out of the
  prover's reach. Of `BusComesBack` and `NothingLeaks` the safety part is proved
  (`DriverStaysInStep`, `NothingStaysTaken`).

`RelayAndFaultMatchState` and `NoStampInFuture` (`RelayConsistent`, `NoUnderflow`),
`HistoryIsBoundedLog` (`HistoryImplementsLog`), `DriverInStep` (`DriverStaysInStep`),
`QuietIsClean` (`NothingStaysTaken`) and the type invariants are proved and not among
the runs.

## Not modelled

* Message codec: JSON records field by field, without state. MAC and canonical
  form: pure conversions around a library call; their verdict is a choice in
  `FpSession`.
* Task manager: its tasks are started once at boot and never stopped.
* Data store, measuring task, factory configuration, console: one value behind one
  lock, sensor I/O with bit timing, one read at boot, output text.
* The addresses a lease assigns, which are mirrored into the `Network_*` datapoints
  (`wlan_com.c:112`): the network values of `NetworkConfig` are one value that only
  writes and restores change.
* ADC, GPIO, LED and CAN bit timing; the score of the link; the length of the WLAN
  back-off and static addresses; what the rate limiter of the local server counts
  (its verdict is a choice); level gates of the log.
* Demand classification and flow estimates, which influence reports only.
* Download and verification of an update image, which are library calls.

`PROJECT.json` lists every component with what is modelled of it. Hazards without a
property carry a note there.

## Plan

The safety properties of the runs are proved. What is left are models: two update jobs
on one slot, and the change reports of the datapoints.
