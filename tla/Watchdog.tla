------------------------------ MODULE Watchdog ------------------------------
(***************************************************************************)
(* The application watchdog: src/components/watchdog/src/app_watchdog.c    *)
(* with the channels of src/main/watchdog_table.c and the deferred reboot  *)
(* of src/core/system.c.                                                   *)
(*                                                                         *)
(* Time is counted in check periods (WD_CHECK_PERIOD_MS).  A pass over the *)
(* channels takes one sample of the clock; while it runs, recover actions  *)
(* may block it for up to MaxLag periods and heartbeats keep arriving.     *)
(* Times are kept as ages: age[c] is the time since llLastBeatUs, lag the  *)
(* time since the sample llNow.                                            *)
(***************************************************************************)
EXTENDS Integers

CONSTANTS
  Channels,      \* number of registered channels, ids 0 .. Channels - 1
  Def,           \* wd_channel_def_t of each channel
  BrakeMax,      \* WD_REBOOT_BRAKE_MAX
  RebootTicks,   \* whole periods that may pass before a deferred reboot
  Wrap,          \* the elapsed time is cast to this range (2^32 ms)
  MaxLag,        \* longest time a pass may be blocked
  MaxBoots       \* bound on restarts

Ids == 0 .. Channels - 1

Defs == [deadline : Nat \ {0}, max_soft : Nat, gated : BOOLEAN,
         reboots : BOOLEAN]

ASSUME WatchdogAssumption ==
  /\ Channels \in Nat \ {0} /\ Def \in [Ids -> Defs]
  /\ BrakeMax \in Nat \ {0} /\ RebootTicks \in Nat \ {0}
  /\ Wrap \in Nat \ {0} /\ MaxLag \in Nat
  /\ MaxBoots \in Nat

VARIABLES
  age, soft, brake_logged,       \* per channel
  pc, idx, lag,                  \* the pass: stage, channel, time since sample
  tmp,                           \* operand of ucRebootsWithoutSuccess++
  pending, channel, count,       \* RTC memory
  diag,                          \* s_stDiag: channel of a watchdog reboot, or -1
  link,                          \* wlan_com_connected_get
  armed,                         \* age of the deferred reboot, or -1
  silent,                        \* history: time since the last real heartbeat
  by,                            \* history: channels that asked for a reboot
  restarts,                      \* history: watchdog reboots since a success
  overtaken,                     \* history: a success came after an escalation
  refused,                       \* history: the reboot hook failed in this boot
  boots                          \* bound counter

chanVars == <<age, soft, brake_logged>>
passVars == <<pc, idx, lag, tmp>>
rtcVars  == <<pending, channel, count>>
histVars == <<by, restarts, overtaken, refused, boots>>
vars == <<chanVars, passVars, rtcVars, diag, link, armed, silent, histVars>>

----------------------------------------------------------------------------
(* Any task: progress reports.                                             *)

wd_heartbeat(c) ==
  /\ age' = [age EXCEPT ![c] = 0]
  /\ soft' = [soft EXCEPT ![c] = 0]
  /\ brake_logged' = [brake_logged EXCEPT ![c] = FALSE]
  /\ silent' = [silent EXCEPT ![c] = 0]
  /\ UNCHANGED <<passVars, rtcVars, diag, link, armed, histVars>>

wd_session_success_note ==
  /\ count' = 0
  /\ restarts' = 0
  /\ overtaken' = (armed # -1 \/ pc = "hook")
  /\ UNCHANGED <<chanVars, passVars, pending, channel, diag, link, armed,
                 silent, by, refused, boots>>

----------------------------------------------------------------------------
(* The check task.                                                         *)

NextChannel ==
  /\ pc' = IF idx + 1 = Channels THEN "sleep" ELSE "check"
  /\ idx' = IF idx + 1 = Channels THEN 0 ELSE idx + 1
  /\ lag' = IF idx + 1 = Channels THEN 0 ELSE lag

elapsed(c) == (age[c] - lag) % Wrap      \* uint32_t of a signed difference

\* Mutant: a silent channel is re-armed without its stage being counted.
check_channel_uncounted ==
  /\ pc = "check"
  /\ IF elapsed(idx) >= Def[idx].deadline
     THEN age' = [age EXCEPT ![idx] = lag]
     ELSE UNCHANGED age
  /\ NextChannel
  /\ UNCHANGED <<soft, brake_logged, tmp, rtcVars, diag, link, armed, silent,
                 histVars>>

check_channel ==
  /\ pc = "check"
  /\ \/ /\ elapsed(idx) < Def[idx].deadline
        /\ NextChannel
        /\ UNCHANGED chanVars
     \/ /\ elapsed(idx) >= Def[idx].deadline
        /\ age' = [age EXCEPT ![idx] = lag]                  \* re-armed
        /\ \/ /\ soft[idx] < Def[idx].max_soft
              /\ soft' = [soft EXCEPT ![idx] = @ + 1]
              /\ NextChannel
           \/ /\ soft[idx] >= Def[idx].max_soft
              /\ ~Def[idx].reboots
              /\ NextChannel
              /\ UNCHANGED soft
           \/ /\ soft[idx] >= Def[idx].max_soft
              /\ Def[idx].reboots
              /\ pc' = "escalate"
              /\ UNCHANGED <<soft, idx, lag>>
        /\ UNCHANGED brake_logged
  /\ UNCHANGED <<tmp, rtcVars, diag, link, armed, silent, histVars>>

\* Mutant: the reboot brake is not consulted.
escalate_no_brake ==
  /\ pc = "escalate"
  /\ Def[idx].gated => link
  /\ pc' = "record"
  /\ UNCHANGED <<chanVars, idx, lag, tmp, rtcVars, diag, link, armed, silent,
                 histVars>>

\* escalate: the gate, the brake, the RTC record, the reboot hook
escalate ==
  /\ pc = "escalate"
  /\ \/ /\ Def[idx].gated /\ ~link
        /\ NextChannel
        /\ UNCHANGED brake_logged
     \/ /\ Def[idx].gated => link
        /\ count >= BrakeMax
        /\ brake_logged' = [brake_logged EXCEPT ![idx] = TRUE]
        /\ NextChannel
     \/ /\ Def[idx].gated => link
        /\ count < BrakeMax
        /\ pc' = "record"
        /\ UNCHANGED <<brake_logged, idx, lag>>
  /\ UNCHANGED <<age, soft, tmp, rtcVars, diag, link, armed, silent, histVars>>

\* The record is written field by field, and the counter is loaded before
\* it is stored: other tasks and restarts come in between.
record_reason ==
  /\ \/ /\ pc = "record" /\ pc' = "name"
        /\ pending' = TRUE /\ by' = by \cup {idx}
        /\ UNCHANGED <<channel, tmp, count>>
     \/ /\ pc = "name" /\ pc' = "load"
        /\ channel' = idx
        /\ UNCHANGED <<pending, by, tmp, count>>
     \/ /\ pc = "load" /\ pc' = "store"
        /\ tmp' = count
        /\ UNCHANGED <<pending, by, channel, count>>
     \/ /\ pc = "store" /\ pc' = "hook"
        /\ count' = tmp + 1
        /\ UNCHANGED <<pending, by, channel, tmp>>
  /\ UNCHANGED <<chanVars, idx, lag, diag, link, armed, silent, restarts,
                 overtaken, refused, boots>>

\* Mutant: a refused reboot leaves the record pending.
reboot_hook_keeps_record ==
  /\ pc = "hook"
  /\ \/ /\ armed' = IF armed = -1 THEN 0 ELSE armed
        /\ UNCHANGED <<by, refused>>
     \/ /\ refused' = TRUE /\ by' = by \ {idx}
        /\ UNCHANGED armed
  /\ NextChannel
  /\ UNCHANGED <<chanVars, tmp, rtcVars, diag, link, silent, restarts,
                 overtaken, boots>>

reboot_hook ==
  /\ pc = "hook"
  /\ \/ /\ armed' = IF armed = -1 THEN 0 ELSE armed
        /\ UNCHANGED <<pending, by, refused>>
     \/ /\ pending' = FALSE              \* the reboot task was not created
        /\ refused' = TRUE /\ by' = by \ {idx}
        /\ UNCHANGED armed
  /\ NextChannel
  /\ UNCHANGED <<chanVars, tmp, channel, count, diag, link, silent, restarts,
                 overtaken, boots>>

----------------------------------------------------------------------------
(* Time, the link and restarts.                                            *)

EscalationBound(c) ==
  (Def[c].max_soft + 1) * (Def[c].deadline + MaxLag) + MaxLag + RebootTicks

\* bound: where the history of a silent channel stops
SilenceCap(c) == IF Def[c].reboots /\ ~Def[c].gated
                 THEN EscalationBound(c) + 1 ELSE Def[c].deadline

Capped(n, m) == IF n < m THEN n + 1 ELSE n

Elapse ==
  /\ armed # -1 => armed < RebootTicks
  /\ age' = [c \in Ids |-> Capped(age[c], Def[c].deadline + MaxLag)]
  /\ silent' = [c \in Ids |-> Capped(silent[c], SilenceCap(c))]
  /\ armed' = IF armed = -1 THEN -1 ELSE armed + 1
  /\ UNCHANGED <<soft, brake_logged, idx, tmp, rtcVars, diag, link, histVars>>

wd_task == pc = "sleep" /\ pc' = "check" /\ Elapse /\ UNCHANGED lag

PassBlocked == pc # "sleep" /\ lag < MaxLag /\ lag' = lag + 1 /\ Elapse
               /\ UNCHANGED pc

LinkChange ==
  /\ link' = ~link
  /\ UNCHANGED <<chanVars, passVars, rtcVars, diag, armed, silent, histVars>>

\* RAM is lost, wd_init evaluates and clears the RTC record
wd_init(valid) ==
  /\ boots < MaxBoots /\ boots' = boots + 1
  /\ age' = [c \in Ids |-> 0] /\ soft' = [c \in Ids |-> 0]
  /\ brake_logged' = [c \in Ids |-> FALSE]
  /\ pc' = "sleep" /\ idx' = 0 /\ lag' = 0 /\ tmp' = 0
  /\ armed' = -1 /\ link' = FALSE
  /\ silent' = [c \in Ids |-> 0]
  /\ by' = {} /\ refused' = FALSE
  /\ pending' = FALSE
  /\ IF valid
     THEN /\ diag' = IF pending THEN channel ELSE -1
          /\ UNCHANGED <<channel, count>>
     ELSE diag' = -1 /\ channel' = 0 /\ count' = 0

esp_restart ==                       \* the deferred reboot of the watchdog
  /\ armed >= 1
  /\ wd_init(TRUE)
  /\ restarts' = restarts + 1
  /\ UNCHANGED overtaken

OtherRestart ==                      \* a command, an update, a panic
  /\ wd_init(TRUE)
  /\ UNCHANGED <<restarts, overtaken>>

PowerOn ==
  /\ wd_init(FALSE)
  /\ restarts' = 0 /\ overtaken' = FALSE

----------------------------------------------------------------------------
Init ==
  /\ age = [c \in Ids |-> 0] /\ soft = [c \in Ids |-> 0]
  /\ brake_logged = [c \in Ids |-> FALSE]
  /\ pc = "sleep" /\ idx = 0 /\ lag = 0 /\ tmp = 0
  /\ pending = FALSE /\ channel = 0 /\ count = 0 /\ diag = -1
  /\ link = FALSE /\ armed = -1
  /\ silent = [c \in Ids |-> 0]
  /\ by = {} /\ restarts = 0 /\ overtaken = FALSE /\ refused = FALSE
  /\ boots = 0

Next ==
  \/ \E c \in Ids : wd_heartbeat(c)
  \/ wd_session_success_note
  \/ wd_task \/ PassBlocked
  \/ check_channel \/ escalate \/ record_reason \/ reboot_hook
  \/ LinkChange
  \/ esp_restart \/ OtherRestart \/ PowerOn

Spec == Init /\ [][Next]_vars

----------------------------------------------------------------------------
TypeOK ==
  /\ age \in [Ids -> Nat] /\ soft \in [Ids -> Nat]
  /\ \A c \in Ids : soft[c] <= Def[c].max_soft
  /\ brake_logged \in [Ids -> BOOLEAN]
  /\ pc \in {"sleep", "check", "escalate", "record", "name", "load", "store",
             "hook"}
  /\ idx \in Ids /\ lag \in 0 .. MaxLag /\ tmp \in 0 .. BrakeMax - 1
  /\ pending \in BOOLEAN /\ channel \in Ids /\ count \in 0 .. BrakeMax
  /\ pc \in {"record", "name", "load"} => count < BrakeMax
  /\ diag \in Ids \cup {-1}
  /\ link \in BOOLEAN /\ armed \in -1 .. RebootTicks
  /\ silent \in [Ids -> Nat]
  /\ by \subseteq Ids /\ restarts \in Nat /\ overtaken \in BOOLEAN
  /\ refused \in BOOLEAN /\ boots \in 0 .. MaxBoots

(* The reboot brake holds: between two session successes (or power cycles) *)
(* the watchdog restarts the device at most WD_REBOOT_BRAKE_MAX times, one *)
(* more only if the success was reported after that reboot was decided.    *)
(* The counter is incremented and reset by two tasks without a lock.       *)
BrakeHolds == restarts <= BrakeMax + (IF overtaken THEN 1 ELSE 0)

(* The strengthening behind it: every restart, and the one that is armed   *)
(* or about to be, has been counted, except one overtaken by a success.    *)
Overtaken == IF overtaken THEN 1 ELSE 0
Armed     == IF armed # -1 THEN 1 ELSE 0

CountInv ==
  /\ restarts + Armed <= count + Overtaken
  /\ pc = "store" => restarts <= tmp + Overtaken
  /\ pc = "hook" => restarts + 1 <= count + Overtaken

IInv == TypeOK /\ CountInv

(* A dead channel that may reboot without a gate is not overlooked: after  *)
(* max_soft + 1 deadlines (each late by at most the time a pass can be     *)
(* blocked) and the deferral the device has restarted, unless the brake or *)
(* a failed reboot task prevented it.                                      *)
DeadChannelReboots ==
  \A c \in Ids :
    Def[c].reboots /\ ~Def[c].gated /\ silent[c] > EscalationBound(c)
      => refused \/ brake_logged[c]

(* A boot diagnosis is only reported if the watchdog had recorded an       *)
(* escalation in the run before and had not withdrawn it, and it names a   *)
(* channel that escalated.  Conversely, a restart by the watchdog is       *)
(* always reported, with such a channel.  Two interleavings are excluded:  *)
(* a restart between the writes of ucPending and ucChannel, which reports  *)
(* the channel of an older record, and a boot in which the reboot hook was *)
(* refused, since escalate then clears ucPending although the reboot of    *)
(* another channel may be on its way.  The restart that is reported need   *)
(* not be the watchdog's own: a command, an update or a panic between the  *)
(* record and the deferred reboot is reported too, unlike app_watchdog.h   *)
(* says of wd_boot_diag_get.                                               *)
DiagnosisIsTrue ==
  [][boots' # boots =>
       /\ diag' # -1 => diag' \in by \/ pc = "name"
       /\ restarts' > restarts => diag' \in by \/ refused]_vars
=============================================================================
