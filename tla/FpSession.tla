----------------------------- MODULE FpSession -----------------------------
(***************************************************************************)
(* The server session: fp_session.c, fp_task.c and fp_ws.c of the          *)
(* clientside_protocol component with ota_start and ota_run of             *)
(* network/ota_task.c, and the two subscribers that keep a view of the     *)
(* session (link_quality.c, the status LED of main.c).                     *)
(*                                                                         *)
(* Tasks: the websocket client (ws) that runs on_ws, the protocol task     *)
(* (poll), the sender, up to MaxJobs OTA jobs, the event task and the      *)
(* session channel of the watchdog.  on_ws, the protocol task and          *)
(* fountain_proto_ota_failed_note share one mutex that is not recursive.   *)
(* Messages are kinds; an applied OTA restarts the device and ends the     *)
(* behaviour, so a job here ends without a restart.                        *)
(***************************************************************************)
EXTENDS Naturals, Sequences

CONSTANTS
  Depth,        \* FP_TXQ_DEPTH
  EventDepth,   \* EVENT_MANAGER_QUEUE_LENGTH
  Sends,        \* the messages the server uses
  Refuses,      \* TRUE: ota_start may refuse (POOR link, no url, no memory)
  MaxJobs,      \* bound on concurrent OTA jobs
  MaxWedges     \* bound on connections that break

\* What the server asks for at any time after its hello_ack.  COMMAND also
\* stands for dp_write, LOG_READ for log_read_prev, log_ack_prev and
\* history_read; STALE_x is an x whose MAC or sequence number does not fit.
Stale    == {"STALE_COMMAND", "STALE_LOG_READ", "STALE_OTA"}
Requests == {"DP_READ", "COMMAND", "LOG_READ"} \cup Stale
Messages == {"HELLO_ACK", "HELLO_REJECT", "OTA_NONE", "OTA_AVAILABLE"}
              \cup Requests
Frames   == {"hello", "check", "status", "data"}
Jobs     == 1 .. MaxJobs

ASSUME SessionAssumption ==
  /\ Depth \in Nat \ {0} /\ EventDepth \in Nat \ {0}
  /\ Sends \subseteq Messages
  /\ Refuses \in BOOLEAN
  /\ MaxJobs \in Nat /\ MaxWedges \in Nat

VARIABLES
  negotiated, running,    \* fp_session_t
  lock,                   \* s_ctx.lock: "free" or its owner
  txq,                    \* s_ctx.txq
  progress,               \* s_tx_ok_count # last_tx_ok
  ws, frame,              \* websocket task: stage in on_ws, frame to send
  poll, was_running,      \* protocol task: stage and local variable
  jobs,                   \* OTA jobs: "none", "run", "note", "ready"
  events, session_up,     \* event queue; s_bSessionUp and the green LED
  fed, wd,                \* session channel: fed since the last deadline;
                          \* "stop" while fp_ws_restart joins the client task
  sock,                   \* "down", "up", "wedged": open, but nothing passes
  srv, inbox,             \* server: stage of the handshake, message under way
  wedges                  \* bound counter

sessVars == <<negotiated, running>>
wsVars   == <<ws, frame>>
pollVars == <<poll, was_running>>
evtVars  == <<events, session_up>>
wdVars   == <<fed, wd>>
netVars  == <<sock, srv, inbox, wedges>>
fpVars == <<sessVars, lock, txq, progress, wsVars, pollVars, jobs, evtVars,
            wdVars, netVars>>

----------------------------------------------------------------------------
(* The two queues; both drop what does not fit after a bounded wait.       *)

tx_enqueue_owned(f) ==
  txq' = IF Len(txq) < Depth THEN Append(txq, f) ELSE txq

event_manager_publish(e) ==
  events' = IF Len(events) < EventDepth THEN Append(events, e) ELSE events

tx_task_fn ==
  /\ txq # <<>>
  /\ txq' = Tail(txq)
  /\ progress' = (progress \/ sock = "up")
  /\ srv' = IF sock # "up" THEN srv
            ELSE IF Head(txq) = "hello" /\ srv = "new" THEN "hello"
            ELSE IF Head(txq) = "check" /\ srv = "acked" THEN "checked"
            ELSE srv
  /\ UNCHANGED <<sessVars, lock, wsVars, pollVars, jobs, evtVars, wdVars,
                 sock, inbox, wedges>>

\* on_session_edge, glue_status_led and glue_wd_session_success
event_dispatch ==
  /\ events # <<>>
  /\ events' = Tail(events)
  /\ session_up' = (Head(events) = "READY")
  /\ fed' = (fed \/ Head(events) = "READY")
  /\ UNCHANGED <<sessVars, lock, txq, progress, wsVars, pollVars, jobs, wd,
                 netVars>>

----------------------------------------------------------------------------
(* on_ws: the lock is held until the reply is queued.                      *)

fp_session_reset == negotiated' = FALSE /\ running' = FALSE

Reply(f) == ws' = "send" /\ frame' = f /\ lock' = "ws"

Done == ws' = "idle" /\ UNCHANGED <<frame, lock>>

on_connected ==
  /\ ws = "CONNECTED"
  /\ fp_session_reset
  /\ Reply("hello")
  /\ UNCHANGED jobs

on_disconnected ==
  /\ ws = "DISCONNECTED"
  /\ fp_session_reset
  /\ Done
  /\ UNCHANGED jobs

handle_hello_ack ==
  /\ ws \in {"HELLO_ACK", "HELLO_REJECT"}
  /\ IF ws = "HELLO_ACK" THEN negotiated' = TRUE /\ Reply("check")
                         ELSE Done /\ UNCHANGED negotiated
  /\ UNCHANGED <<running, jobs>>

handle_ota_none ==
  /\ ws = "OTA_NONE"
  /\ running' = TRUE
  /\ ws' = "publish" /\ lock' = "ws"
  /\ UNCHANGED <<negotiated, frame, jobs>>

handle_dp_read ==
  /\ ws = "DP_READ"
  /\ Reply("data")
  /\ UNCHANGED <<sessVars, jobs>>

\* MAC over the connection's nonces, then the anti-replay counter
verify_s2c(m) == m \notin Stale

\* handle_command and handle_dp_write: a refusal is answered, too
handle_command ==
  /\ ws \in {"COMMAND", "STALE_COMMAND"}
  /\ IF running THEN Reply("data") ELSE Done
  /\ UNCHANGED <<sessVars, jobs>>

\* handle_log_read, handle_log_ack_prev and handle_history_read
handle_log_read ==
  /\ ws \in {"LOG_READ", "STALE_LOG_READ"}
  /\ IF running /\ verify_s2c(ws) THEN Reply("data") ELSE Done
  /\ UNCHANGED <<sessVars, jobs>>

\* Runs inside on_ws.  A refusal sends a status and then takes the lock
\* that on_ws holds.
ota_start ==
  /\ ws \in {"OTA_AVAILABLE", "STALE_OTA"}
  /\ \/ ~verify_s2c(ws) /\ Done /\ UNCHANGED jobs
     \/ /\ verify_s2c(ws) /\ Refuses
        /\ Reply("status")
        /\ UNCHANGED jobs
     \/ /\ verify_s2c(ws)
        /\ \E j \in Jobs : jobs[j] = "none" /\ jobs' = [jobs EXCEPT ![j] = "run"]
        /\ Done
  /\ UNCHANGED sessVars

fp_session_message_handle ==
  \/ handle_hello_ack \/ handle_ota_none \/ handle_dp_read
  \/ handle_command \/ handle_log_read \/ ota_start

on_ws ==
  /\ lock = "free"
  /\ on_connected \/ on_disconnected \/ fp_session_message_handle
  /\ UNCHANGED <<txq, progress, pollVars, evtVars, wdVars, netVars>>

\* "relock" is lock() in fountain_proto_ota_failed_note: it never returns
send_msg ==
  /\ ws = "send"
  /\ tx_enqueue_owned(frame)
  /\ IF frame = "status" THEN ws' = "relock" /\ UNCHANGED lock
                         ELSE ws' = "idle" /\ lock' = "free"
  /\ UNCHANGED <<sessVars, progress, frame, pollVars, jobs, evtVars, wdVars,
                 netVars>>

cb_on_ready ==
  /\ ws = "publish"
  /\ event_manager_publish("READY")
  /\ ws' = "idle" /\ lock' = "free"
  /\ UNCHANGED <<sessVars, txq, progress, frame, pollVars, jobs, session_up,
                 wdVars, netVars>>

----------------------------------------------------------------------------
(* The protocol task: running is read without the lock.                    *)

\* Mutant: a running session feeds the watchdog, sent or not.
task_fn_feeds_on_state ==
  /\ poll = "sleep"
  /\ \/ /\ running
        /\ was_running' = TRUE
        /\ fed' = TRUE /\ progress' = FALSE
        /\ poll' = "lock"
     \/ /\ ~running /\ was_running
        /\ poll' = "lost"
        /\ UNCHANGED <<was_running, fed, progress>>
  /\ UNCHANGED <<sessVars, lock, txq, wsVars, jobs, evtVars, wd, netVars>>

task_fn ==
  /\ poll = "sleep"
  /\ \/ /\ running
        /\ was_running' = TRUE
        /\ fed' = (fed \/ progress) /\ progress' = FALSE
        /\ poll' = "lock"
     \/ /\ ~running /\ was_running
        /\ poll' = "lost"
        /\ UNCHANGED <<was_running, fed, progress>>
  /\ UNCHANGED <<sessVars, lock, txq, wsVars, jobs, evtVars, wd, netVars>>

cb_on_session_lost ==
  /\ poll = "lost"
  /\ event_manager_publish("LOST")
  /\ was_running' = FALSE
  /\ poll' = "sleep"
  /\ UNCHANGED <<sessVars, lock, txq, progress, wsVars, jobs, session_up,
                 wdVars, netVars>>

poll_lock ==
  /\ poll = "lock" /\ lock = "free"
  /\ poll' = "send" /\ lock' = "poll"
  /\ UNCHANGED <<sessVars, txq, progress, wsVars, was_running, jobs, evtVars,
                 wdVars, netVars>>

\* heartbeat, report or changes; a cycle may have nothing to send
fp_session_dp_report_send ==
  /\ poll = "send"
  /\ tx_enqueue_owned("data") \/ UNCHANGED txq
  /\ poll' = "sleep" /\ lock' = "free"
  /\ UNCHANGED <<sessVars, progress, wsVars, was_running, jobs, evtVars,
                 wdVars, netVars>>

----------------------------------------------------------------------------
(* OTA jobs that end without a restart.                                    *)

ota_run(j) ==
  /\ jobs[j] = "run"
  /\ jobs' = [jobs EXCEPT ![j] = "note"]
  /\ tx_enqueue_owned("data")
  /\ UNCHANGED <<sessVars, lock, progress, wsVars, pollVars, evtVars, wdVars,
                 netVars>>

\* Mutant: a session that is not negotiated is promoted, too.
fp_session_ota_failed_note_any(j) ==
  IF ~running
  THEN running' = TRUE /\ jobs' = [jobs EXCEPT ![j] = "ready"]
  ELSE UNCHANGED running /\ jobs' = [jobs EXCEPT ![j] = "none"]

\* Mutant: the failed update is not handed over to normal operation.
fp_session_ota_failed_note_lost(j) ==
  UNCHANGED running /\ jobs' = [jobs EXCEPT ![j] = "none"]

fp_session_ota_failed_note(j) ==
  IF negotiated /\ ~running
  THEN running' = TRUE /\ jobs' = [jobs EXCEPT ![j] = "ready"]
  ELSE UNCHANGED running /\ jobs' = [jobs EXCEPT ![j] = "none"]

fountain_proto_ota_failed_note(j) ==
  /\ jobs[j] = "note" /\ lock = "free"
  /\ fp_session_ota_failed_note(j)
  /\ UNCHANGED <<negotiated, lock, txq, progress, wsVars, pollVars, evtVars,
                 wdVars, netVars>>

ota_ready(j) ==                      \* on_ready, after the unlock
  /\ jobs[j] = "ready"
  /\ event_manager_publish("READY")
  /\ jobs' = [jobs EXCEPT ![j] = "none"]
  /\ UNCHANGED <<sessVars, lock, txq, progress, wsVars, pollVars, session_up,
                 wdVars, netVars>>

----------------------------------------------------------------------------
(* The session channel of the watchdog.  Its deadline (180 s) is longer    *)
(* than any step of a handshake and than the 60-s report grid: it only     *)
(* passes when neither a handshake nor reporting is under way.             *)

HandshakeUnderWay ==
  \/ ws \notin {"idle", "send", "relock"} \cup Requests
  \/ ws = "send" /\ frame \in {"hello", "check"}
  \/ inbox # "none"
  \/ /\ sock = "up"
     /\ \/ srv \in {"hello", "checked"}
        \/ \E i \in 1 .. Len(txq) : txq[i] \in {"hello", "check"}

Stalled ==
  /\ sock # "down" /\ ~(running /\ sock = "up")
  /\ ~HandshakeUnderWay

Deadline ==
  /\ wd = "watch" /\ Stalled
  /\ fed' = FALSE
  /\ wd' = IF fed THEN "watch" ELSE "stop"      \* fountain_proto_recover
  /\ UNCHANGED <<sessVars, lock, txq, progress, wsVars, pollVars, jobs,
                 evtVars, netVars>>

\* joins the client task, with or without a last event to on_ws
fp_ws_restart ==
  /\ wd = "stop" /\ ws = "idle"
  /\ wd' = "watch"
  /\ sock' = "down" /\ inbox' = "none"
  /\ ws' \in {"idle", "DISCONNECTED"}
  /\ UNCHANGED <<sessVars, lock, txq, progress, frame, pollVars, jobs, evtVars,
                 fed, srv, wedges>>

----------------------------------------------------------------------------
(* Network and server.                                                     *)

Connect ==
  /\ sock = "down" /\ ws = "idle"
  /\ sock' = "up" /\ srv' = "new" /\ inbox' = "none"
  /\ ws' = "CONNECTED"
  /\ UNCHANGED <<sessVars, lock, txq, progress, frame, pollVars, jobs, evtVars,
                 wdVars, wedges>>

Wedge ==
  /\ sock = "up" /\ wedges < MaxWedges
  /\ sock' = "wedged" /\ inbox' = "none" /\ wedges' = wedges + 1
  /\ UNCHANGED <<sessVars, lock, txq, progress, wsVars, pollVars, jobs,
                 evtVars, wdVars, srv>>

DropNoticed ==
  /\ sock = "wedged" /\ ws = "idle"
  /\ sock' = "down" /\ ws' = "DISCONNECTED"
  /\ UNCHANGED <<sessVars, lock, txq, progress, frame, pollVars, jobs, evtVars,
                 wdVars, srv, inbox, wedges>>

AnswerHello ==
  /\ srv = "hello"
  /\ inbox' \in Sends \cap {"HELLO_ACK", "HELLO_REJECT"}
  /\ srv' = IF inbox' = "HELLO_ACK" THEN "acked" ELSE "closed"

AnswerCheck ==                       \* bound: no offer beyond MaxJobs jobs
  /\ srv = "checked"
  /\ inbox' \in {m \in Sends \cap {"OTA_NONE", "OTA_AVAILABLE"} :
                  m = "OTA_AVAILABLE" => \E j \in Jobs : jobs[j] = "none"}
  /\ srv' = "open"

ServerReplies ==
  /\ sock = "up" /\ inbox = "none"
  /\ AnswerHello \/ AnswerCheck
  /\ UNCHANGED <<sessVars, lock, txq, progress, wsVars, pollVars, jobs,
                 evtVars, wdVars, sock, wedges>>

\* A request, behind the answers: its own time under way changes nothing.
ServerAsks ==
  /\ sock = "up" /\ inbox = "none" /\ ws = "idle" /\ wd = "watch"
  /\ srv \in {"acked", "open"}
  /\ ws' \in Sends \cap Requests
  /\ UNCHANGED <<sessVars, lock, txq, progress, frame, pollVars, jobs, evtVars,
                 wdVars, netVars>>

ws_event ==                          \* WEBSOCKET_EVENT_DATA
  /\ sock = "up" /\ ws = "idle" /\ wd = "watch" /\ inbox # "none"
  /\ ws' = inbox /\ inbox' = "none"
  /\ UNCHANGED <<sessVars, lock, txq, progress, frame, pollVars, jobs, evtVars,
                 wdVars, sock, srv, wedges>>

----------------------------------------------------------------------------
SessionInit ==
  /\ negotiated = FALSE /\ running = FALSE
  /\ lock = "free" /\ txq = <<>> /\ progress = FALSE
  /\ ws = "idle" /\ frame = "data"
  /\ poll = "sleep" /\ was_running = FALSE
  /\ jobs = [j \in Jobs |-> "none"]
  /\ events = <<>> /\ session_up = FALSE
  /\ fed = FALSE /\ wd = "watch"
  /\ sock = "down" /\ srv = "new" /\ inbox = "none" /\ wedges = 0

WsTask   == on_ws \/ send_msg \/ cb_on_ready \/ ws_event \/ Connect
PollTask == task_fn \/ cb_on_session_lost \/ poll_lock
              \/ fp_session_dp_report_send
OtaTask(j) == ota_run(j) \/ fountain_proto_ota_failed_note(j) \/ ota_ready(j)
WdTask   == Deadline \/ fp_ws_restart

SessionNext ==
  \/ WsTask \/ PollTask \/ tx_task_fn \/ event_dispatch \/ WdTask
  \/ \E j \in Jobs : OtaTask(j)
  \/ Wedge \/ DropNoticed \/ ServerReplies \/ ServerAsks

(* Every task is scheduled; the mutex serves a waiting task although the   *)
(* others come back to it (FreeRTOS queues its waiters); the server        *)
(* answers a handshake.  Nobody has to break or to notice a connection.    *)
Fairness ==
  /\ WF_fpVars(WsTask) /\ SF_fpVars(on_ws)
  /\ WF_fpVars(PollTask) /\ SF_fpVars(poll_lock)
  /\ WF_fpVars(tx_task_fn) /\ WF_fpVars(event_dispatch)
  /\ WF_fpVars(WdTask) /\ WF_fpVars(ServerReplies)
  /\ \A j \in Jobs : /\ WF_fpVars(OtaTask(j))
                     /\ SF_fpVars(fountain_proto_ota_failed_note(j))

SessionSpec == SessionInit /\ [][SessionNext]_fpVars /\ Fairness

----------------------------------------------------------------------------
SessionTypeOK ==
  /\ negotiated \in BOOLEAN /\ running \in BOOLEAN
  /\ lock \in {"free", "ws", "poll"}
  /\ txq \in Seq(Frames) /\ Len(txq) <= Depth /\ progress \in BOOLEAN
  /\ ws \in Messages \cup {"idle", "CONNECTED", "DISCONNECTED", "send",
                           "publish", "relock"}
  /\ frame \in Frames
  /\ poll \in {"sleep", "lost", "lock", "send"} /\ was_running \in BOOLEAN
  /\ jobs \in [Jobs -> {"none", "run", "note", "ready"}]
  /\ events \in Seq({"READY", "LOST"}) /\ Len(events) <= EventDepth
  /\ session_up \in BOOLEAN
  /\ fed \in BOOLEAN /\ wd \in {"watch", "stop"}
  /\ sock \in {"down", "up", "wedged"}
  /\ srv \in {"new", "hello", "acked", "checked", "open", "closed"}
  /\ inbox \in (Messages \ Requests) \cup {"none"} /\ wedges \in 0 .. MaxWedges

(* A session only runs after the hello of its own connection was accepted, *)
(* although the end of an OTA job may come from a job that was started in  *)
(* an earlier connection.                                                  *)
RunsOnlyNegotiated == running => negotiated

(* fp_task.c: a connection that is half-open without a DISCONNECTED event  *)
(* starves the heartbeat, "so the watchdog restarts the client (which      *)
(* heals the wedge)"; only a client task that waits for its own lock       *)
(* cannot be restarted.                                                    *)
WedgeHeals == (sock = "wedged") ~> (sock # "wedged" \/ ws = "relock")

(* A device that is not in operation gets there again: frames of the       *)
(* handshake dropped at a full queue, failed updates and connections that  *)
(* break are all made up for, if downloads end within the session          *)
(* deadline.  Two things can hold it back: a server that rejects the       *)
(* hello, and a client task that waits for its own lock.                   *)
SessionRestored ==
  <>[][Deadline => \A j \in Jobs : jobs[j] = "none"]_fpVars
    => ((~running) ~> (running \/ srv = "closed" \/ ws = "relock"))

(* DOKU/Hardening_Tests_2026-07-10.md: every OTA outcome without a reboot, *)
(* the deferral of an offer included, "explicitly transitions the session  *)
(* into normal operation".  A refusal (ota_start) must lead there, too.    *)
RefusedOfferContinues ==
  (ws = "send" /\ frame = "status") ~> (running \/ ~negotiated)
=============================================================================
