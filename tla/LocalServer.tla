----------------------------- MODULE LocalServer -----------------------------
(***************************************************************************)
(* The local maintenance server: local_server.c with its buffer pool, rate *)
(* limiter and protocol hooks, on the WLAN link it starts and stops with.  *)
(*                                                                         *)
(* The event task starts and stops the HTTP server, main starts it when    *)
(* the link is already up.  The httpd task owns the sockets, the handlers  *)
(* and the queued work; one worker handles the descriptors.  The worker is *)
(* split between its test for a stale descriptor and what it then does     *)
(* with the session, which it does without the lock, and again between the *)
(* test of s_hd and the call that hands work to the server.                *)
(*                                                                         *)
(* Sockets have numbers that are used again; a connection is known by its  *)
(* connection_id.  Frames are taken, dropped, or close the session, as     *)
(* size, type and rate limiter decide; a handled frame is valid or a       *)
(* strike, answered or not.  A behaviour has one shape: the sizes of a     *)
(* build, and a scene: booting; main at its look at a link whose connect   *)
(* the event task has not heard yet; clients on a running server; clients  *)
(* while the link goes and comes.                                          *)
(***************************************************************************)
EXTENDS WlanLink, FiniteSets

CONSTANTS
  Shapes,      \* what a behaviour has: clients, pool and depth of the build
               \* (LOCAL_SERVER_MAX_CLIENTS, LOCAL_FRAME_POOL_COUNT,
               \* LOCAL_RX_QUEUE_DEPTH), a scene, a bound on connections
  Sockets,     \* max_open_sockets
  WorkMax,     \* control messages httpd holds
  Strikes      \* LOCAL_JSON_STRIKES_MAX

ASSUME ServerAssumption ==
  /\ {Sockets, WorkMax, Strikes, EvtMax} \subseteq Nat \ {0}
  /\ \A s \in Shapes : /\ {s.clients, s.pool, s.depth} \subseteq Nat \ {0}
                       /\ s.conns \in Nat
                       /\ s.scene \in {"boot", "check", "clients", "restart"}

VARIABLES
  shape,       \* see Shapes
  subs,        \* on_wlan_event is subscribed to
  unheard,     \* start-up missed the event of this connect: history
  hd, httpd,   \* s_hd is set; the HTTP server: none, running, closing
  failed,      \* the last start failed: history
  epc,         \* the event task in on_wlan_event
  sock,        \* connection on each socket, 0 free
  sessions,    \* s_astSessions
  slots,       \* s_hSlots
  conns,       \* s_ulConnCtr
  rxq, free,   \* s_hRxq; free buffers of the pool
  work,        \* control messages of httpd: answers and closes
  wk,          \* the descriptor the worker handles
  out,         \* what the worker is about to hand to httpd, s_hd tested
  dropped      \* a descriptor found the queue full: history

startVars == <<subs, unheard, hd, httpd, failed, epc, boot>>
sessVars  == <<sock, sessions, slots, conns, rxq, free, work, wk, out,
               dropped>>
serverVars == <<linkVars, startVars, sessVars, shape>>

N       == shape.clients
Slots   == 1 .. N
Fds     == 1 .. Sockets
Free    == [active |-> FALSE, conn |-> 0, fd |-> 0, state |-> "free",
            strikes |-> 0, idle |-> FALSE]
NoDesc  == [kind |-> "none", slot |-> 1, conn |-> 0]
Idle    == [d |-> NoDesc, live |-> FALSE]
NoOut   == [kind |-> "none", slot |-> 1, fd |-> 0]
Desc(k, s, c) == [kind |-> k, slot |-> s, conn |-> c]

ServerInit ==
  /\ shape \in Shapes
  /\ CASE shape.scene = "boot" ->
            /\ LinkInit /\ boot = "wlan" /\ subs = {}
            /\ hd = FALSE /\ httpd = "none"
       [] shape.scene = "check" ->
            /\ LinkUp(<<"up">>) /\ boot = "check" /\ subs = {"up", "down"}
            /\ hd = FALSE /\ httpd = "none"
       [] OTHER ->
            /\ LinkUp(<<>>) /\ boot = "done" /\ subs = {"up", "down"}
            /\ hd = TRUE /\ httpd = "running"
  /\ unheard = FALSE /\ failed = FALSE /\ epc = "idle"
  /\ sock = [f \in Fds |-> 0]
  /\ sessions = [s \in Slots |-> Free]
  /\ slots = N /\ conns = 0
  /\ rxq = <<>> /\ free = shape.pool /\ work = <<>>
  /\ wk = Idle /\ out = NoOut /\ dropped = FALSE

-----------------------------------------------------------------------------
\* Start and stop with the link.

\* server_start behind its test of s_hd.  A second server finds its port
\* taken; a start can also fail for want of memory or TLS material.
server_start ==
  /\ \/ httpd = "none" /\ httpd' = "running" /\ hd' = TRUE /\ failed' = FALSE
     \/ hd' = FALSE /\ failed' = TRUE /\ UNCHANGED httpd
  /\ UNCHANGED <<linkVars, shape, subs, unheard, sessVars>>

\* Under the event manager's mutex; there is room for this subscriber.
event_manager_subscribe(e) == subs' = subs \cup {e}

\* dispatch: who has subscribed by the time the event is taken hears it.
dispatch(e) == e \in subs

\* local_server_init in main: subscribe, then look at the link.
Subscribe ==
  /\ \/ /\ boot = "subscribe" /\ boot' = "subscribe2"
        /\ event_manager_subscribe("up")
     \/ /\ boot = "subscribe2" /\ boot' = "check"
        /\ event_manager_subscribe("down")
  /\ UNCHANGED <<linkVars, shape, unheard, hd, httpd, failed, epc, sessVars>>

MainCheck ==
  /\ boot = "check"
  /\ boot' = IF wlan = "connected" /\ ~ hd THEN "start" ELSE "done"
  /\ UNCHANGED <<linkVars, shape, subs, unheard, hd, httpd, failed, epc,
                 sessVars>>

MainStart == /\ boot = "start" /\ boot' = "done"
             /\ server_start /\ UNCHANGED epc

\* on_wlan_event: server_start and server_stop return at once when there is
\* nothing to do.  An event nobody has subscribed to yet is gone.
on_wlan_event ==
  /\ epc = "idle" /\ events # <<>>
  /\ events' = Tail(events)
  /\ LET e == Head(events)
     IN  /\ unheard' = (e = "up" /\ ~ dispatch(e))
         /\ IF dispatch(e) /\ e = "up" /\ ~ hd
            THEN epc' = "starting" /\ UNCHANGED hd
            ELSE IF dispatch(e) /\ e = "down" /\ hd
            THEN epc' = "stopping" /\ hd' = FALSE
            ELSE UNCHANGED <<epc, hd>>
  /\ UNCHANGED <<radio, wlan, handler, timer, shutdown, cb, sem, started,
                 refused, missed, stuck, shape, subs, httpd, failed, boot, sessVars>>

EventStart == /\ epc = "starting" /\ epc' = "idle"
              /\ server_start /\ UNCHANGED boot

\* httpd_ssl_stop: the shutdown message queues behind the work, then every
\* socket is closed, and the event task goes on.
Shutdown ==
  /\ epc = "stopping" /\ httpd = "running" /\ work = <<>>
  /\ httpd' = "closing"
  /\ UNCHANGED <<linkVars, shape, subs, unheard, hd, failed, epc, boot,
                 sessVars>>

StopDone ==
  /\ epc = "stopping" /\ httpd = "closing" /\ \A f \in Fds : sock[f] = 0
  /\ httpd' = "none" /\ epc' = "idle"
  /\ UNCHANGED <<linkVars, shape, subs, unheard, hd, failed, boot, sessVars>>

-----------------------------------------------------------------------------
\* Sessions.

Serving == httpd = "running"
SlotOf(f) == CHOOSE s \in Slots : sessions[s].conn = sock[f]

\* session_cleanup of an active session.
Cleaned(s) == [sessions EXCEPT ![s] = Free]

\* The pool: what is left after a frame took its buffer, and after it gave
\* it back.
local_buffer_acquire(d)    == IF d.kind = "frame" THEN free - 1 ELSE free
local_buffer_release(d, n) == IF d.kind = "frame" THEN n + 1 ELSE n

\* Mutant of desc_enqueue: a refused frame keeps its buffer.
desc_enqueue_leaky(d) ==
  LET left == local_buffer_acquire(d)
  IN  /\ IF Len(rxq) < shape.depth
         THEN rxq' = Append(rxq, d) /\ UNCHANGED dropped
         ELSE dropped' = TRUE /\ UNCHANGED rxq
      /\ free' = left

\* desc_enqueue never waits; a refused frame gives its buffer back.
desc_enqueue(d) ==
  LET left == local_buffer_acquire(d)
  IN  IF Len(rxq) < shape.depth
      THEN rxq' = Append(rxq, d) /\ free' = left /\ UNCHANGED dropped
      ELSE dropped' = TRUE /\ free' = local_buffer_release(d, left)
           /\ UNCHANGED rxq

\* Mutant of on_sess_free: the slot is free at once.
on_sess_free_eager(s) ==
  IF ~ sessions[s].active
  THEN UNCHANGED <<sessions, slots, rxq, free, dropped>>
  ELSE /\ desc_enqueue(Desc("close", s, sessions[s].conn))
       /\ sessions' = Cleaned(s) /\ slots' = slots + 1

\* on_sess_free: the worker cleans up, or httpd itself when the queue is full.
on_sess_free(s) ==
  IF ~ sessions[s].active
  THEN UNCHANGED <<sessions, slots, rxq, free, dropped>>
  ELSE /\ desc_enqueue(Desc("close", s, sessions[s].conn))
       /\ IF Len(rxq) < shape.depth
          THEN /\ sessions' = [sessions EXCEPT ![s].state = "closing"]
               /\ UNCHANGED slots
          ELSE /\ sessions' = Cleaned(s) /\ slots' = slots + 1

\* A socket ends: the client closes it, a handler returned ESP_FAIL, or the
\* server is closing.
CloseSocket(f) ==
  /\ sock[f] # 0
  /\ sock' = [sock EXCEPT ![f] = 0]
  /\ on_sess_free(SlotOf(f))

SocketEnds ==
  /\ httpd # "none"
  /\ \E f \in Fds : CloseSocket(f)
  /\ UNCHANGED <<linkVars, shape, startVars, conns, work, wk, out>>

\* ws_handler after the handshake: a slot from the semaphore, an entry of the
\* table, the descriptor that lets the worker say hello.  Without a slot the
\* client is turned away.
Connect ==
  /\ Serving /\ conns < shape.conns /\ slots > 0
  /\ \E f \in Fds, s \in Slots :
       /\ sock[f] = 0 /\ \A g \in 1 .. f - 1 : sock[g] # 0
       /\ ~ sessions[s].active /\ \A t \in 1 .. s - 1 : sessions[t].active
       /\ conns' = conns + 1
       /\ sock' = [sock EXCEPT ![f] = conns + 1]
       /\ sessions' = [sessions EXCEPT ![s] =
             [active |-> TRUE, conn |-> conns + 1, fd |-> f,
              state |-> "connected", strikes |-> 0, idle |-> FALSE]]
       /\ desc_enqueue(Desc("open", s, conns + 1))
  /\ slots' = slots - 1
  /\ UNCHANGED <<linkVars, shape, startVars, work, wk, out>>

\* ws_handler for a frame that is a text, within its size and its rate, with
\* a buffer for it.  Other frames are drained and change nothing, or end the
\* socket (SocketEnds): too large, a third rate violation, a session closing.
Frame ==
  /\ Serving /\ free > 0
  /\ \E f \in Fds :
       /\ sock[f] # 0
       /\ LET s == SlotOf(f)
          IN  /\ sessions[s].active /\ sessions[s].state # "closing"
              /\ desc_enqueue(Desc("frame", s, sessions[s].conn))
              /\ sessions' = [sessions EXCEPT ![s].idle = FALSE]
  /\ UNCHANGED <<linkVars, shape, startVars, sock, slots, conns, work, wk,
                 out>>

\* httpd runs a control message: tx_work, or a close of the worker's.  Both
\* name the socket by its number.
RunWork ==
  /\ httpd # "none" /\ work # <<>>
  /\ work' = Tail(work)
  /\ LET w == Head(work)
     IN  IF w.kind = "close" /\ sock[w.fd] # 0 THEN CloseSocket(w.fd)
         ELSE UNCHANGED <<sock, sessions, slots, rxq, free, dropped>>
  /\ UNCHANGED <<linkVars, shape, startVars, conns, wk, out>>

-----------------------------------------------------------------------------
\* The worker.

\* httpd takes work for a socket it knows, while it has room.  s_hd is read
\* once more for the call: what finds it cleared is dropped.
Queue(k, f) ==
  work' = IF hd /\ f # 0 /\ Len(work) < WorkMax
          THEN Append(work, [kind |-> k, fd |-> f]) ELSE work

\* The worker is done with its descriptor; or it has made its tests and is
\* about to call httpd.
Finish     == /\ wk' = Idle /\ out' = NoOut
              /\ free' = local_buffer_release(wk.d, free)
Hold(k, s) == /\ out' = [kind |-> k, slot |-> s, fd |-> sessions[s].fd]
              /\ UNCHANGED <<wk, free>>

\* local_server_send: refused without a server or when the session is gone.
local_server_send(k, s) == hd /\ sessions[s].active /\ Hold(k, s)
local_server_session_close(s) ==
  IF hd /\ sessions[s].active /\ sessions[s].state # "closing"
  THEN Hold("close", s) ELSE Finish

WorkerTake ==
  /\ wk = Idle /\ out = NoOut /\ rxq # <<>>
  /\ LET d == Head(rxq)
     IN  wk' = [d |-> d, live |-> /\ sessions[d.slot].active
                                  /\ sessions[d.slot].conn = d.conn]
  /\ rxq' = Tail(rxq)
  /\ UNCHANGED <<linkVars, shape, startVars, sock, sessions, slots, conns, free,
                 work, out, dropped>>

\* local_protocol_on_open: hello, or close when it cannot be sent.
local_protocol_on_open(s) ==
  /\ local_server_send("hello", s) \/ local_server_session_close(s)
  /\ sessions' = [sessions EXCEPT ![s].strikes = 0]

\* The end of local_protocol_on_frame: the protocol may have come to run.
Judged(s, strikes) ==
  \E st \in {sessions[s].state,
             IF sessions[s].state = "connected" THEN "running"
             ELSE sessions[s].state} :
    sessions' = [sessions EXCEPT ![s].strikes = strikes, ![s].state = st]

\* local_protocol_on_frame: a strike; or an answer, or none.
local_protocol_on_frame(s) ==
  \/ /\ sessions[s].strikes + 1 >= Strikes
     /\ local_server_session_close(s)
     /\ UNCHANGED sessions
  \/ /\ sessions[s].strikes + 1 < Strikes
     /\ Judged(s, sessions[s].strikes + 1) /\ Finish
  \/ local_server_send("tx", s) /\ UNCHANGED sessions
  \/ Judged(s, sessions[s].strikes) /\ Finish

WorkerDo ==
  /\ wk # Idle /\ out = NoOut
  /\ LET s == wk.d.slot
     IN  CASE wk.live /\ wk.d.kind = "open" ->
                local_protocol_on_open(s) /\ UNCHANGED slots
           [] wk.live /\ wk.d.kind = "frame" /\ sessions[s].state # "closing" ->
                local_protocol_on_frame(s) /\ UNCHANGED slots
           [] wk.live /\ wk.d.kind = "close" /\ sessions[s].active ->
                sessions' = Cleaned(s) /\ slots' = slots + 1 /\ Finish
           [] OTHER -> UNCHANGED <<sessions, slots>> /\ Finish
  /\ UNCHANGED <<linkVars, shape, startVars, sock, conns, rxq, work, dropped>>

\* httpd_queue_work and httpd_sess_trigger_close, with what follows them.  A
\* send can also fail for want of memory.
WorkerUse ==
  /\ \/ /\ out.kind = "hello"
        /\ \/ Queue("tx", out.fd) /\ hd /\ Len(work) < WorkMax /\ Finish
           \/ local_server_session_close(out.slot) /\ UNCHANGED work
        /\ UNCHANGED sessions
     \/ /\ out.kind = "tx"
        /\ Queue("tx", out.fd) \/ UNCHANGED work
        /\ Judged(out.slot, sessions[out.slot].strikes) /\ Finish
     \/ /\ out.kind = "close"
        /\ Queue("close", sessions[out.slot].fd)
        /\ UNCHANGED sessions /\ Finish
  /\ UNCHANGED <<linkVars, shape, startVars, sock, slots, conns, rxq, dropped>>

\* timeout_scan, only when the queue has been empty for a second.
timeout_scan ==
  /\ wk = Idle /\ out = NoOut /\ rxq = <<>> /\ hd
  /\ \E s \in Slots :
       /\ sessions[s].active /\ sessions[s].state # "closing"
       /\ sessions[s].idle
       /\ [kind |-> "close", fd |-> sessions[s].fd] \notin
             {work[i] : i \in DOMAIN work}
       /\ Hold("close", s)
  /\ UNCHANGED <<linkVars, shape, startVars, sock, sessions, slots, conns, rxq,
                 work, dropped>>

\* LOCAL_IDLE_TIMEOUT_US without a frame.
Silence ==
  /\ \E s \in Slots : /\ sessions[s].active /\ ~ sessions[s].idle
                      /\ sessions' = [sessions EXCEPT ![s].idle = TRUE]
  /\ UNCHANGED <<linkVars, shape, startVars, sock, slots, conns, rxq, free, work,
                 wk, out, dropped>>

-----------------------------------------------------------------------------
Apart == UNCHANGED <<subs, unheard, hd, httpd, failed, epc, sessVars, shape>>
Link  == shape.scene \in {"boot", "restart"} /\ LinkNext /\ Apart

ServerNext ==
  \/ Link
  \/ Subscribe \/ MainCheck \/ MainStart
  \/ on_wlan_event \/ EventStart \/ Shutdown \/ StopDone
  \/ SocketEnds \/ Connect \/ Frame \/ RunWork
  \/ WorkerTake \/ WorkerDo \/ WorkerUse \/ timeout_scan \/ Silence

\* main, sys_evt, the timer, the starter, the event task, httpd and the
\* worker run; time passes.  Nothing is assumed of the radio and of clients,
\* but that a closing server closes its sockets.
Fairness ==
  /\ WF_serverVars(wlan_com_connect /\ Apart)
  /\ WF_serverVars(task_com_start /\ Apart)
  /\ WF_serverVars(StaStart /\ Apart) /\ WF_serverVars(GotIpDone /\ Apart)
  /\ WF_serverVars(LostDone /\ Apart) /\ WF_serverVars(reconn_timer_cb /\ Apart)
  /\ WF_serverVars(com_starter_task /\ Apart)
  /\ WF_serverVars(Subscribe) /\ WF_serverVars(MainCheck)
  /\ WF_serverVars(MainStart)
  /\ WF_serverVars(on_wlan_event) /\ WF_serverVars(EventStart)
  /\ WF_serverVars(Shutdown) /\ WF_serverVars(StopDone)
  /\ WF_serverVars(SocketEnds /\ httpd = "closing") /\ WF_serverVars(RunWork)
  /\ WF_serverVars(WorkerTake) /\ WF_serverVars(WorkerDo)
  /\ WF_serverVars(WorkerUse)
  /\ WF_serverVars(timeout_scan) /\ WF_serverVars(Silence)

ServerSpec == ServerInit /\ [][ServerNext]_serverVars /\ Fairness

-----------------------------------------------------------------------------
\* Properties.

\* The link, the table of sessions, the queues and the places of main, the
\* event task and the worker; free slots and buffers stay within their pools.
Descs == [kind : {"none", "open", "frame", "close"}, slot : Slots, conn : Nat]
ServerTypeOK ==
  /\ radio \in {"off", "start", "idle", "trying", "up"}
  /\ wlan \in {"disconnected", "connecting", "connected"}
  /\ handler \in {"none", "gotip", "lost"} /\ events \in Seq({"up", "down"})
  /\ {timer, shutdown, cb, sem, started, refused, missed, stuck} \subseteq BOOLEAN
  /\ boot \in {"wlan", "callback", "signal", "subscribe", "subscribe2", "check",
               "start", "done"}
  /\ shape \in Shapes /\ subs \subseteq {"up", "down"}
  /\ {unheard, hd, failed, dropped} \subseteq BOOLEAN
  /\ httpd \in {"none", "running", "closing"}
  /\ epc \in {"idle", "starting", "stopping"}
  /\ sock \in [Fds -> 0 .. shape.conns]
  /\ sessions \in [Slots -> [active : BOOLEAN, conn : Nat, fd : 0 .. Sockets,
                             state : {"free", "connected", "running", "closing"},
                             strikes : 0 .. Strikes, idle : BOOLEAN]]
  /\ slots \in 0 .. N /\ free \in 0 .. shape.pool /\ conns \in 0 .. shape.conns
  /\ rxq \in Seq(Descs) /\ wk \in [d : Descs, live : BOOLEAN]
  /\ out \in [kind : {"none", "hello", "tx", "close"}, slot : Slots,
              fd : 0 .. Sockets]
  /\ work \in Seq([kind : {"tx", "close"}, fd : Fds])

Enough == shape.depth >= 2 * N + shape.pool

\* A queue of two entries per client and one per buffer is never full: no
\* frame, hello or close is lost, and httpd never cleans up a session itself
\* (desc_enqueue, on_sess_free).  The defaults, one client, four buffers and
\* a depth of eight, are enough, as are two clients; three are not.
QueueSuffices == Enough => ~ dropped

\* While the worker handles a descriptor, without the lock, the session it
\* works on stays the one the descriptor was made for: it is neither wiped
\* nor given to another client under its hands.
WorkerOwnsSlot ==
  Enough /\ wk.live => LET s == sessions[wk.d.slot]
                       IN  s.active /\ s.conn = wk.d.conn

\* When the clients fall silent everything comes back, however sockets,
\* strikes, timeouts, a full queue and stops of the server met before: the
\* slots, the table and the buffers.  While one client keeps sending, the
\* worker need not find its queue empty, and an idle one is not timed out.
\* Excluded is a server whose handle was lost: main and the event task were
\* in server_start at once, the second failed on the port of the first and
\* cleared s_hd; every way to release a session tests s_hd, so a silent
\* client keeps its slot until the device restarts.
Clean == /\ slots = N /\ free = shape.pool
         /\ \A s \in Slots : ~ sessions[s].active
Orphaned == httpd = "running" /\ ~ hd /\ epc # "stopping"
NothingLeaks == []<><<Frame>>_serverVars \/ <>[]Clean \/ <>[]Orphaned

\* When the link comes up and stays, at boot or later, the local server runs
\* and the protocol is started; and while it is down the device keeps trying.
\* Exceptions: a start that failed, which only the next connect repeats; an
\* EVT_WLAN_CONNECTED dropped at a full event queue, which leaves the server
\* off on a lasting link (missed); an esp_wifi_connect the driver refuses,
\* which no event or timer repeats (stuck); and two defects of the start-up.
\* main and the event task may be in server_start at once: the second fails
\* on the port of the first and clears its handle.  And a connect may be
\* published before local_server_init subscribes and be set behind its look
\* at the link (unheard).  A dropped EVT_WLAN_DISCONNECTED leaves the server
\* running, which the next connect finds.
LinkBringsServices ==
  /\ <>[](wlan = "connected" /\ radio = "up")
       => <>[](/\ started \/ refused
               /\ hd \/ failed \/ unheard \/ missed)
  /\ []<>(radio \in {"off", "trying", "up"} \/ stuck)
=============================================================================
