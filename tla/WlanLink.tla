------------------------------ MODULE WlanLink ------------------------------
(***************************************************************************)
(* The WLAN link of wlan_com.c, the protocol starter of task_com.c and the *)
(* end of the boot sequence of main.c, which run in different tasks: the   *)
(* Wi-Fi events in sys_evt, the reconnect in the timer task, the starter,  *)
(* the event task, and main, which starts the link before its users exist. *)
(* The event handler is split between the event it publishes and the state *)
(* it sets; what reads that state and what hears that event may meet in    *)
(* between.  The queue of the event manager is shared with every other     *)
(* event, so a publish may find it full at any time.  The backoff is a     *)
(* timer that ends; addressing_apply and the power-save mode change        *)
(* nothing that is modelled here.                                          *)
(***************************************************************************)
EXTENDS Naturals, Sequences

CONSTANT EvtMax      \* bound on WLAN events waiting for the event task

VARIABLES
  radio,      \* the Wi-Fi driver: off, start, idle, trying, up
  wlan,       \* s_eState
  handler,    \* event_handler between publish and set_state: gotip, lost
  timer,      \* s_hReconnTimer runs
  shutdown,   \* s_bShutdown
  cb,         \* wlan_com_state_cb_set has been called
  sem,        \* s_hWlanSem
  started,    \* s_bStarted
  refused,    \* the last fountain_proto_start failed: history
  events,     \* queue of the event manager: up, down
  missed,     \* the last of these events was dropped: history
  stuck,      \* esp_wifi_connect was refused, nothing repeats it: history
  boot        \* where main is

linkVars == <<radio, wlan, handler, timer, shutdown, cb, sem, started, refused,
              events, missed, stuck>>

LinkInit ==
  /\ radio = "off" /\ wlan = "disconnected" /\ handler = "none"
  /\ timer = FALSE /\ shutdown = FALSE
  /\ cb = FALSE /\ sem = FALSE /\ started = FALSE /\ refused = FALSE
  /\ events = <<>> /\ missed = FALSE /\ stuck = FALSE

\* A link that is up, with what the event task has yet to hear of it.
LinkUp(unread) ==
  /\ radio = "up" /\ wlan = "connected" /\ handler = "none"
  /\ timer = FALSE /\ shutdown = FALSE
  /\ cb = TRUE /\ sem = FALSE /\ started = TRUE /\ refused = FALSE
  /\ events = unread /\ missed = FALSE /\ stuck = FALSE

-----------------------------------------------------------------------------
\* main: wlan_com_connect, task_com_start.

\* Without an SSID or with a driver error the link stays off; boot goes on.
wlan_com_connect ==
  /\ boot = "wlan" /\ boot' = "callback"
  /\ radio' \in {"start", "off"}
  /\ UNCHANGED <<wlan, handler, timer, shutdown, cb, sem, started, refused,
                 events, missed, stuck>>

\* Mutant of task_com_start: the state is read before the callback is set.
task_com_start_swapped ==
  /\ \/ boot = "callback" /\ boot' = "signal" /\ UNCHANGED cb
        /\ sem' = (sem \/ wlan = "connected")
     \/ boot = "signal" /\ boot' = "subscribe" /\ cb' = TRUE /\ UNCHANGED sem
  /\ UNCHANGED <<radio, wlan, handler, timer, shutdown, started, refused,
                 events, missed, stuck>>

\* task_com_start: the callback first, then the state.
task_com_start ==
  /\ \/ boot = "callback" /\ boot' = "signal" /\ cb' = TRUE /\ UNCHANGED sem
     \/ boot = "signal" /\ boot' = "subscribe" /\ UNCHANGED cb
        /\ sem' = (sem \/ wlan = "connected")
  /\ UNCHANGED <<radio, wlan, handler, timer, shutdown, started, refused,
                 events, missed, stuck>>

-----------------------------------------------------------------------------
\* event_handler, in sys_evt.

\* com_wlan_state_handle, called by set_state.
set_state(s) ==
  /\ wlan' = s
  /\ sem' = (sem \/ (cb /\ s = "connected" /\ ~ started))

\* event_manager_publish: at a full queue the event is gone.
event_manager_publish(e) ==
  \/ /\ Len(events) < EvtMax
     /\ events' = Append(events, e) /\ missed' = FALSE
  \/ missed' = TRUE /\ UNCHANGED events

\* esp_wifi_connect with the radio idle: an attempt begins, or the driver
\* refuses and no event follows.
esp_wifi_connect ==
  \/ radio' = "trying" /\ UNCHANGED stuck
  \/ radio' = "idle" /\ stuck' = TRUE

StaStart ==
  /\ radio = "start" /\ handler = "none"
  /\ set_state("connecting") /\ esp_wifi_connect
  /\ UNCHANGED <<handler, timer, shutdown, cb, started, refused, events, missed,
                 boot>>

\* The access point accepts and an address is there: publish, then set_state.
StaGotIp ==
  /\ radio = "trying" /\ handler = "none"
  /\ radio' = "up" /\ handler' = "gotip"
  /\ event_manager_publish("up")
  /\ UNCHANGED <<wlan, timer, shutdown, cb, sem, started, refused, stuck, boot>>

GotIpDone ==
  /\ handler = "gotip" /\ handler' = "none"
  /\ set_state("connected")
  /\ UNCHANGED <<radio, timer, shutdown, cb, started, refused, events, missed,
                 stuck, boot>>

\* An attempt fails or the link is lost.
StaDisconnected ==
  /\ radio \in {"trying", "up"} /\ handler = "none"
  /\ radio' = "idle"
  /\ IF shutdown THEN UNCHANGED <<handler, events, missed>>
     ELSE handler' = "lost" /\ event_manager_publish("down")
  /\ UNCHANGED <<wlan, timer, shutdown, cb, sem, started, refused, stuck, boot>>

LostDone ==
  /\ handler = "lost" /\ handler' = "none"
  /\ set_state("connecting") /\ timer' = TRUE
  /\ UNCHANGED <<radio, shutdown, cb, started, refused, events, missed, stuck,
                 boot>>

\* reconn_timer_cb: the result of esp_wifi_connect is ignored.
reconn_timer_cb ==
  /\ timer /\ timer' = FALSE
  /\ IF radio = "idle" THEN esp_wifi_connect ELSE UNCHANGED <<radio, stuck>>
  /\ UNCHANGED <<wlan, handler, shutdown, cb, sem, started, refused, events,
                 missed, boot>>

\* wlan_com_teardown_for_reboot: the link goes down for good.
wlan_com_teardown_for_reboot ==
  /\ radio # "off" /\ ~ shutdown
  /\ shutdown' = TRUE /\ timer' = FALSE /\ radio' = "off"
  /\ UNCHANGED <<wlan, handler, cb, sem, started, refused, events, missed,
                 stuck, boot>>

\* fountain_proto_start fails without a key, a lock, a client, a queue or a
\* task.
fountain_proto_start == started' \in BOOLEAN /\ refused' = ~ started'

\* com_starter_task: a failed start is not repeated before the next connect.
com_starter_task ==
  /\ sem /\ sem' = FALSE
  /\ IF started THEN UNCHANGED <<started, refused>> ELSE fountain_proto_start
  /\ UNCHANGED <<radio, wlan, handler, timer, shutdown, cb, events, missed, stuck,
                 boot>>

LinkNext ==
  \/ wlan_com_connect \/ task_com_start
  \/ StaStart \/ StaGotIp \/ GotIpDone \/ StaDisconnected \/ LostDone
  \/ reconn_timer_cb \/ wlan_com_teardown_for_reboot \/ com_starter_task
=============================================================================
