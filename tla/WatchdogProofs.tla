--------------------------- MODULE WatchdogProofs ---------------------------
(***************************************************************************)
(* For every set of channels and every limit: the reboot brake holds, the  *)
(* boot diagnosis is true, and no dead channel is overlooked.  And the     *)
(* server session, the channel whose success resets the brake: its types   *)
(* and that it never runs without a handshake of its own connection.       *)
(***************************************************************************)
EXTENDS Watchdog, FpSession, TLAPS

LEMMA TypeInit == Init => TypeOK
<1> SUFFICES ASSUME Init PROVE TypeOK
  OBVIOUS
<1> USE WatchdogAssumption
<1>1. /\ age \in [Ids -> Nat] /\ soft \in [Ids -> Nat] /\ silent \in [Ids -> Nat]
      /\ brake_logged \in [Ids -> BOOLEAN]
      /\ \A c \in Ids : soft[c] <= Def[c].max_soft
  BY DEF Init, Defs
<1>2. /\ idx \in Ids /\ channel \in Ids /\ diag \in Ids \cup {-1}
      /\ by \subseteq Ids
  BY DEF Init, Ids
<1>3. /\ pc = "sleep"
      /\ lag \in 0 .. MaxLag /\ tmp \in 0 .. BrakeMax - 1
      /\ count \in 0 .. BrakeMax /\ armed \in -1 .. RebootTicks
      /\ restarts \in Nat /\ boots \in 0 .. MaxBoots
  BY DEF Init
<1>4. /\ pending \in BOOLEAN /\ link \in BOOLEAN /\ overtaken \in BOOLEAN
      /\ refused \in BOOLEAN
  BY DEF Init
<1> QED
  BY <1>1, <1>2, <1>3, <1>4 DEF TypeOK

(* The next channel is a registered one, or the pass is over.              *)
LEMMA NextChannelType ==
  ASSUME TypeOK, NextChannel
  PROVE  pc' \in {"sleep", "check"} /\ idx' \in Ids /\ lag' \in 0 .. MaxLag
  BY WatchdogAssumption DEF TypeOK, NextChannel, Ids

LEMMA CheckType == TypeOK /\ check_channel => TypeOK'
<1> SUFFICES ASSUME TypeOK, check_channel PROVE TypeOK'
  OBVIOUS
<1> USE WatchdogAssumption
<1>1. /\ pc' \in {"sleep", "check", "escalate"} /\ idx' \in Ids
      /\ lag' \in 0 .. MaxLag
  BY NextChannelType DEF check_channel, TypeOK
<1>2. age' \in [Ids -> Nat]
  BY DEF check_channel, TypeOK, chanVars
<1>3. soft' \in [Ids -> Nat] /\ \A c \in Ids : soft'[c] <= Def[c].max_soft
  BY DEF check_channel, TypeOK, chanVars, Defs
<1>4. UNCHANGED <<brake_logged, tmp, pending, channel, count, diag, link, armed,
                  silent, by, restarts, overtaken, refused, boots>>
  BY DEF check_channel, chanVars, rtcVars, histVars
<1> QED
  BY <1>1, <1>2, <1>3, <1>4 DEF TypeOK

LEMMA EscalateType == TypeOK /\ escalate => TypeOK'
<1> SUFFICES ASSUME TypeOK, escalate PROVE TypeOK'
  OBVIOUS
<1> USE WatchdogAssumption
<1>1. /\ pc' \in {"sleep", "check", "record"} /\ idx' \in Ids
      /\ lag' \in 0 .. MaxLag
  BY NextChannelType DEF escalate, TypeOK
<1>2. pc' = "record" => count < BrakeMax
  BY NextChannelType DEF escalate
<1>3. brake_logged' \in [Ids -> BOOLEAN]
  BY DEF escalate, TypeOK
<1>4. UNCHANGED <<age, soft, tmp, pending, channel, count, diag, link, armed,
                  silent, by, restarts, overtaken, refused, boots>>
  BY DEF escalate, rtcVars, histVars
<1> QED
  BY <1>1, <1>2, <1>3, <1>4 DEF TypeOK

LEMMA HookType == TypeOK /\ (record_reason \/ reboot_hook) => TypeOK'
<1> USE WatchdogAssumption
<1>1. ASSUME TypeOK, record_reason PROVE TypeOK'
  <2>1. /\ pc' \in {"name", "load", "store", "hook"} /\ pending' \in BOOLEAN
        /\ channel' \in Ids /\ by' \subseteq Ids
    BY <1>1 DEF TypeOK, record_reason
  <2>2. /\ tmp' \in 0 .. BrakeMax - 1 /\ count' \in 0 .. BrakeMax
        /\ pc' \in {"record", "name", "load"} => count' < BrakeMax
    BY <1>1 DEF TypeOK, record_reason
  <2> QED
    BY <1>1, <2>1, <2>2 DEF TypeOK, record_reason, chanVars
<1>2. ASSUME TypeOK, reboot_hook PROVE TypeOK'
  <2>1. /\ pc' \in {"sleep", "check"} /\ idx' \in Ids /\ lag' \in 0 .. MaxLag
    BY <1>2, NextChannelType DEF reboot_hook
  <2>2. armed' \in -1 .. RebootTicks
    BY <1>2 DEF reboot_hook, TypeOK
  <2>3. pending' \in BOOLEAN /\ refused' \in BOOLEAN /\ by' \subseteq Ids
    BY <1>2 DEF reboot_hook, TypeOK
  <2>4. UNCHANGED <<age, soft, brake_logged, tmp, channel, count, diag, link,
                    silent, restarts, overtaken, boots>>
    BY <1>2 DEF reboot_hook, chanVars
  <2> QED
    BY <1>2, <2>1, <2>2, <2>3, <2>4 DEF TypeOK
<1> QED
  BY <1>1, <1>2

LEMMA ElapseType == TypeOK /\ (wd_task \/ PassBlocked) => TypeOK'
<1> SUFFICES ASSUME TypeOK, wd_task \/ PassBlocked PROVE TypeOK'
  OBVIOUS
<1> USE WatchdogAssumption
<1>1. Elapse
  BY DEF wd_task, PassBlocked
<1>2. /\ pc' \in {"sleep", "check", "escalate", "record", "name", "load",
                  "store", "hook"}
      /\ pc' = pc \/ pc' = "check"
      /\ lag' \in 0 .. MaxLag
  BY DEF wd_task, PassBlocked, TypeOK
<1>3. age' \in [Ids -> Nat] /\ silent' \in [Ids -> Nat]
  BY <1>1 DEF Elapse, TypeOK, Capped
<1>4. armed' \in -1 .. RebootTicks
  BY <1>1 DEF Elapse, TypeOK
<1>5. UNCHANGED <<soft, brake_logged, idx, tmp, pending, channel, count, diag,
                  link, by, restarts, overtaken, refused, boots>>
  BY <1>1 DEF Elapse, rtcVars, histVars
<1> QED
  BY <1>2, <1>3, <1>4, <1>5 DEF TypeOK

LEMMA BootType ==
  ASSUME TypeOK, NEW v \in BOOLEAN, wd_init(v),
         restarts' \in Nat, overtaken' \in BOOLEAN
  PROVE  TypeOK'
<1> USE WatchdogAssumption
<1>1. /\ age' \in [Ids -> Nat] /\ soft' \in [Ids -> Nat]
      /\ silent' \in [Ids -> Nat] /\ brake_logged' \in [Ids -> BOOLEAN]
      /\ \A c \in Ids : soft'[c] <= Def[c].max_soft
  BY DEF wd_init, Defs
<1>2. /\ pc' = "sleep" /\ idx' \in Ids /\ lag' \in 0 .. MaxLag
      /\ tmp' \in 0 .. BrakeMax - 1 /\ armed' \in -1 .. RebootTicks
      /\ boots' \in 0 .. MaxBoots
  BY DEF wd_init, Ids, TypeOK
<1>3. /\ channel' \in Ids /\ count' \in 0 .. BrakeMax
      /\ diag' \in Ids \cup {-1}
  BY DEF wd_init, Ids, TypeOK
<1>4. /\ pending' \in BOOLEAN /\ link' \in BOOLEAN /\ refused' \in BOOLEAN
      /\ by' \subseteq Ids
  BY DEF wd_init
<1> QED
  BY <1>1, <1>2, <1>3, <1>4 DEF TypeOK

LEMMA TypeStep == TypeOK /\ [Next]_vars => TypeOK'
<1> SUFFICES ASSUME TypeOK, [Next]_vars PROVE TypeOK'
  OBVIOUS
<1> USE WatchdogAssumption
<1>1. ASSUME NEW c \in Ids, wd_heartbeat(c) PROVE TypeOK'
  <2>1. age' \in [Ids -> Nat] /\ silent' \in [Ids -> Nat]
    BY <1>1 DEF wd_heartbeat, TypeOK
  <2>2. soft' \in [Ids -> Nat] /\ \A d \in Ids : soft'[d] <= Def[d].max_soft
    BY <1>1 DEF wd_heartbeat, TypeOK, Defs
  <2>3. brake_logged' \in [Ids -> BOOLEAN]
    BY <1>1 DEF wd_heartbeat, TypeOK
  <2>4. UNCHANGED <<pc, idx, lag, tmp, pending, channel, count, diag, link,
                    armed, by, restarts, overtaken, refused, boots>>
    BY <1>1 DEF wd_heartbeat, passVars, rtcVars, histVars
  <2> QED
    BY <2>1, <2>2, <2>3, <2>4 DEF TypeOK
<1>2. CASE wd_session_success_note
  BY <1>2 DEF wd_session_success_note, TypeOK, chanVars, passVars
<1>3. CASE LinkChange
  BY <1>3 DEF LinkChange, TypeOK, chanVars, passVars, rtcVars, histVars
<1>4. CASE esp_restart
  <2>1. restarts' \in Nat /\ overtaken' \in BOOLEAN
    BY <1>4 DEF esp_restart, TypeOK
  <2> QED
    BY <1>4, <2>1, BootType DEF esp_restart
<1>5. CASE OtherRestart
  <2>1. restarts' \in Nat /\ overtaken' \in BOOLEAN
    BY <1>5 DEF OtherRestart, TypeOK
  <2> QED
    BY <1>5, <2>1, BootType DEF OtherRestart
<1>6. CASE PowerOn
  BY <1>6, BootType DEF PowerOn
<1>7. CASE UNCHANGED vars
  BY <1>7 DEF vars, TypeOK, chanVars, passVars, rtcVars, histVars
<1> QED
  BY <1>1, <1>2, <1>3, <1>4, <1>5, <1>6, <1>7, CheckType, EscalateType, HookType,
     ElapseType DEF Next

----------------------------------------------------------------------------
LEMMA CountStep == IInv /\ [Next]_vars => CountInv'
<1> SUFFICES ASSUME TypeOK, CountInv, [Next]_vars PROVE CountInv'
  BY DEF IInv
<1> USE WatchdogAssumption
<1>0. /\ restarts \in Nat /\ count \in 0 .. BrakeMax /\ tmp \in Nat
      /\ armed \in Int /\ overtaken \in BOOLEAN
  BY DEF TypeOK
<1>1. ASSUME NEW c \in Ids, wd_heartbeat(c) PROVE CountInv'
  BY <1>1 DEF wd_heartbeat, CountInv, Armed, Overtaken, passVars, rtcVars, histVars
<1>2. CASE wd_session_success_note
  <2>1. /\ count' = 0 /\ restarts' = 0
        /\ UNCHANGED <<pc, tmp, armed>>
    BY <1>2 DEF wd_session_success_note, passVars
  <2>2. CASE armed # -1 \/ pc = "hook"
    <3>1. overtaken'
      BY <1>2, <2>2 DEF wd_session_success_note
    <3> QED
      BY <1>0, <2>1, <3>1 DEF CountInv, Armed, Overtaken
  <2>3. CASE ~(armed # -1 \/ pc = "hook")
    <3>1. ~overtaken'
      BY <1>2, <2>3 DEF wd_session_success_note
    <3> QED
      BY <1>0, <2>1, <2>3, <3>1 DEF CountInv, Armed, Overtaken
  <2> QED
    BY <2>2, <2>3
<1>3. CASE wd_task \/ PassBlocked
  <2>1. UNCHANGED <<tmp, count, restarts, overtaken>>
    BY <1>3 DEF wd_task, PassBlocked, Elapse, rtcVars, histVars
  <2>2. armed' # -1 <=> armed # -1
    BY <1>3 DEF wd_task, PassBlocked, Elapse, TypeOK
  <2>3. pc' \in {"store", "hook"} => pc' = pc
    BY <1>3 DEF wd_task, PassBlocked
  <2> QED
    BY <2>1, <2>2, <2>3 DEF CountInv, Armed, Overtaken
<1>4. CASE check_channel
  <2>1. UNCHANGED <<tmp, count, armed, restarts, overtaken>>
    BY <1>4 DEF check_channel, rtcVars, histVars
  <2>2. pc' \notin {"store", "hook"}
    BY <1>4 DEF check_channel, NextChannel
  <2> QED
    BY <2>1, <2>2 DEF CountInv, Armed, Overtaken
<1>5. CASE escalate
  <2>1. UNCHANGED <<count, armed, restarts, overtaken>>
    BY <1>5 DEF escalate, rtcVars, histVars
  <2>2. pc' \notin {"store", "hook"}
    BY <1>5 DEF escalate, NextChannel
  <2> QED
    BY <1>0, <2>1, <2>2 DEF CountInv, Armed, Overtaken
<1>6. CASE record_reason
  BY <1>0, <1>6 DEF record_reason, CountInv, Armed, Overtaken
<1>7. CASE reboot_hook
  <2>1. UNCHANGED <<count, restarts, overtaken>>
    BY <1>7 DEF reboot_hook
  <2>2. pc' \notin {"store", "hook"} /\ pc = "hook"
    BY <1>7 DEF reboot_hook, NextChannel
  <2> QED
    BY <1>0, <2>1, <2>2 DEF CountInv, Armed, Overtaken
<1>8. CASE LinkChange
  BY <1>8 DEF LinkChange, CountInv, Armed, Overtaken, passVars, rtcVars, histVars
<1>9. CASE esp_restart
  <2>1. /\ armed >= 1 /\ armed' = -1 /\ pc' = "sleep"
        /\ restarts' = restarts + 1 /\ UNCHANGED <<count, overtaken>>
    BY <1>9 DEF esp_restart, wd_init
  <2> QED
    BY <1>0, <2>1 DEF CountInv, Armed, Overtaken
<1>10. CASE OtherRestart
  <2>1. /\ armed' = -1 /\ pc' = "sleep"
        /\ UNCHANGED <<count, overtaken, restarts>>
    BY <1>10 DEF OtherRestart, wd_init
  <2> QED
    BY <1>0, <2>1 DEF CountInv, Armed, Overtaken
<1>11. CASE PowerOn
  <2>1. /\ armed' = -1 /\ pc' = "sleep" /\ restarts' = 0 /\ count' = 0
        /\ overtaken' = FALSE
    BY <1>11 DEF PowerOn, wd_init
  <2> QED
    BY <2>1 DEF CountInv, Armed, Overtaken
<1>12. CASE UNCHANGED vars
  BY <1>12 DEF vars, CountInv, Armed, Overtaken, passVars, rtcVars, histVars
<1> QED
  BY <1>1, <1>2, <1>3, <1>4, <1>5, <1>6, <1>7, <1>8, <1>9, <1>10, <1>11, <1>12
     DEF Next

(* The inductive invariant: types, and no restart escapes the counter that *)
(* app_watchdog.c keeps in RTC memory.                                     *)
THEOREM WatchdogInvariant == Spec => []IInv
<1>1. Init => IInv
  <2>1. Init => CountInv
    BY DEF Init, CountInv, Armed, Overtaken
  <2> QED
    BY <2>1, TypeInit DEF IInv
<1>2. IInv /\ [Next]_vars => IInv'
  BY TypeStep, CountStep DEF IInv
<1> QED
  BY <1>1, <1>2, PTL DEF Spec

(* The watchdog never restarts the device more often than its brake        *)
(* allows, however many channels escalate at once, and although the        *)
(* counter is updated by two tasks without a lock.                         *)
THEOREM BrakeIsEffective == Spec => []BrakeHolds
<1>1. IInv => BrakeHolds
  BY WatchdogAssumption DEF IInv, TypeOK, CountInv, Armed, Overtaken, BrakeHolds
<1> QED
  BY <1>1, WatchdogInvariant, PTL

----------------------------------------------------------------------------
(* The boot diagnosis.                                                     *)

\* From the first field on the record is pending, and complete from the
\* second: a pending record names a channel that escalated.  A reboot on its
\* way has its record, unless a refused hook withdrew it.
RecordInv ==
  /\ pc \in {"name", "load", "store", "hook"} => pending /\ idx \in by
  /\ pc \in {"load", "store", "hook"} => channel = idx
  /\ pending /\ pc # "name" => channel \in by
  /\ armed # -1 /\ ~ refused => pending /\ channel \in by

LEMMA RecordStep == RecordInv /\ [Next]_vars => RecordInv'
<1> SUFFICES ASSUME RecordInv, [Next]_vars PROVE RecordInv'
  OBVIOUS
<1>1. CASE record_reason
  BY <1>1 DEF record_reason, RecordInv
<1>2. CASE reboot_hook
  <2>1. pc = "hook" /\ pc' \in {"sleep", "check"} /\ channel' = channel
    BY <1>2 DEF reboot_hook, NextChannel
  <2>2. \/ UNCHANGED <<pending, by, refused>>
        \/ ~ pending' /\ refused'
    BY <1>2 DEF reboot_hook
  <2> QED
    BY <2>1, <2>2 DEF RecordInv
<1>3. CASE esp_restart \/ OtherRestart \/ PowerOn
  <2>1. ~ pending' /\ armed' = -1 /\ pc' = "sleep"
    BY <1>3 DEF esp_restart, OtherRestart, PowerOn, wd_init
  <2> QED
    BY <2>1 DEF RecordInv
<1>4. CASE /\ UNCHANGED <<pending, channel, by, refused>>
           /\ armed' # -1 => armed # -1
           /\ pc' \in {"name", "load", "store", "hook"} \/ pc = "name"
                => UNCHANGED <<pc, idx>>
  BY <1>4 DEF RecordInv
<1>5. ASSUME \/ \E c \in Ids : wd_heartbeat(c)
             \/ wd_session_success_note \/ wd_task \/ PassBlocked
             \/ check_channel \/ escalate \/ LinkChange \/ UNCHANGED vars
      PROVE  /\ UNCHANGED <<pending, channel, by, refused>>
             /\ armed' # -1 => armed # -1
             /\ pc' \in {"name", "load", "store", "hook"} \/ pc = "name"
                  => UNCHANGED <<pc, idx>>
  BY <1>5 DEF wd_heartbeat, wd_session_success_note, wd_task, PassBlocked, Elapse,
     check_channel, escalate, NextChannel, LinkChange, vars, passVars, rtcVars,
     histVars
<1> QED
  BY <1>1, <1>2, <1>3, <1>4, <1>5 DEF Next

(* A restart that wd_init attributes to the watchdog follows an escalation *)
(* of the channel it names, in the run before: a record whose reboot was   *)
(* refused is withdrawn, and one that was already reported is not reported *)
(* again.  And every restart by the watchdog is attributed to it.  The     *)
(* exclusions are those of DiagnosisIsTrue: a restart between the first    *)
(* two fields of the record, and a refused hook.                           *)
THEOREM DiagnosisIsSound == Spec => DiagnosisIsTrue
<1> DEFINE Told == boots' # boots =>
             /\ diag' # -1 => diag' \in by \/ pc = "name"
             /\ restarts' > restarts => diag' \in by \/ refused
<1>1. Init => RecordInv
  BY DEF Init, RecordInv
<1>2. RecordInv /\ [Next]_vars => RecordInv'
  BY RecordStep
<1>3. IInv /\ RecordInv /\ [Next]_vars => [Told]_vars
  <2> SUFFICES ASSUME IInv, RecordInv, Next, boots' # boots
               PROVE  /\ diag' # -1 => diag' \in by \/ pc = "name"
                      /\ restarts' > restarts => diag' \in by \/ refused
    OBVIOUS
  <2>1. esp_restart \/ OtherRestart \/ PowerOn
    BY DEF Next, wd_heartbeat, wd_session_success_note, wd_task, PassBlocked,
       Elapse, check_channel, escalate, record_reason, reboot_hook, LinkChange,
       histVars
  <2>2. PICK v \in BOOLEAN : wd_init(v)
    BY <2>1 DEF esp_restart, OtherRestart, PowerOn
  <2>3. diag' # -1 => diag' \in by \/ pc = "name"
    BY <2>2 DEF wd_init, RecordInv
  <2>4. restarts' > restarts => esp_restart
    <3>1. restarts \in Nat
      BY DEF IInv, TypeOK
    <3>2. OtherRestart => restarts' = restarts
      BY DEF OtherRestart
    <3>3. PowerOn => restarts' = 0
      BY DEF PowerOn
    <3>4. ~ (restarts > restarts) /\ ~ (0 > restarts)
      BY <3>1
    <3> QED
      BY <2>1, <3>2, <3>3, <3>4
  <2>5. esp_restart => diag' \in by \/ refused
    BY DEF esp_restart, wd_init, RecordInv
  <2> QED
    BY <2>3, <2>4, <2>5
<1> QED
  BY <1>1, <1>2, <1>3, WatchdogInvariant, PTL DEF Spec, DiagnosisIsTrue

----------------------------------------------------------------------------
(* How long a channel can be silent.                                       *)

\* The cast of the elapsed time does not fold a deadline.
NoWrap == \A c \in Ids : Def[c].deadline + MaxLag < Wrap

Watched(c) == Def[c].reboots /\ ~Def[c].gated /\ ~refused /\ ~brake_logged[c]

\* The longest time between two stages of a silent channel, and the time
\* from its last heartbeat to the sample that escalates it.
Stage(c) == Def[c].deadline + MaxLag
Full(c)  == (Def[c].max_soft + 1) * Stage(c)

\* The pass is at the escalation of c; it has still to check c; it will
\* find c silent.
Recording     == {"record", "name", "load", "store", "hook"}
Escalating(c) == idx = c /\ pc \in {"escalate"} \cup Recording
Unchecked(c)  == IF pc = "check" THEN idx <= c ELSE pc # "sleep" /\ idx < c
Due(c)        == age[c] >= Def[c].deadline + lag

USE DEF Recording

\* The silence of a channel is accounted for by its stages, its age and,
\* once a reboot is armed, the time since then.
Silence(c) ==
  IF armed # -1 THEN silent[c] <= Full(c) + MaxLag + armed
  ELSE IF Escalating(c) THEN silent[c] <= Full(c) + lag
  ELSE IF Unchecked(c)
  THEN silent[c] <= soft[c] * Stage(c)
                      + (IF Due(c) THEN Stage(c) + lag ELSE age[c])
  ELSE /\ silent[c] <= soft[c] * Stage(c) + age[c]
       /\ age[c] < Def[c].deadline + (IF pc = "sleep" THEN MaxLag ELSE lag)

PassInv == /\ pc = "sleep" => idx = 0 /\ lag = 0
           /\ \A c \in Ids : age[c] <= Stage(c)

SilenceInv == PassInv /\ \A c \in Ids : Watched(c) => Silence(c)

\* Numbers of a channel: its stages fit into the time to its escalation.
LEMMA StageNumbers ==
  ASSUME NEW c \in Ids
  PROVE  /\ Def[c].deadline \in Nat \ {0} /\ Def[c].max_soft \in Nat
         /\ MaxLag \in Nat /\ Stage(c) \in Nat /\ Full(c) \in Nat
         /\ Stage(c) = Def[c].deadline + MaxLag
         /\ 0 * Stage(c) = 0
         /\ \A n \in Nat : n * Stage(c) \in Nat
         /\ \A n \in Nat : (n + 1) * Stage(c) = n * Stage(c) + Stage(c)
         /\ \A n \in Nat : n <= Def[c].max_soft
              => n * Stage(c) + Stage(c) <= Full(c)
<1>1. /\ Def[c].deadline \in Nat \ {0} /\ Def[c].max_soft \in Nat
      /\ MaxLag \in Nat
  BY WatchdogAssumption DEF Defs
<1>2. Stage(c) \in Nat /\ Stage(c) = Def[c].deadline + MaxLag
  BY <1>1 DEF Stage
<1>3. ASSUME NEW s \in Nat, NEW m \in Nat
      PROVE  /\ 0 * s = 0 /\ m * s \in Nat /\ (m + 1) * s = m * s + s
             /\ \A n \in Nat : n * s \in Nat
             /\ \A n \in Nat : (n + 1) * s = n * s + s
             /\ \A n \in Nat : n <= m => n * s + s <= (m + 1) * s
  <2>1. \A n \in Nat : n * s \in Nat /\ (n + 1) * s = n * s + s
    OBVIOUS
  <2>2. ASSUME NEW n \in Nat, n <= m
        PROVE  n * s + s <= (m + 1) * s
    <3>1. PICK k \in Nat : m = n + k
      <4>1. m - n \in Nat /\ m = n + (m - n)
        BY <2>2
      <4> QED
        BY <4>1
    <3>2. (n + 1 + k) * s = (n + 1) * s + k * s /\ k * s \in Nat
      OBVIOUS
    <3>3. m + 1 = n + 1 + k
      BY <3>1
    <3> QED
      BY <2>1, <3>2, <3>3
  <2> QED
    BY <2>1, <2>2
<1>4. Full(c) \in Nat
  BY <1>1, <1>2, <1>3 DEF Full
<1> QED
  BY <1>1, <1>2, <1>3, <1>4 DEF Full

\* Whatever the pass is doing, the silence of a watched channel is bounded.
LEMMA SilenceBound ==
  ASSUME TypeOK, PassInv, NEW c \in Ids, Silence(c)
  PROVE  silent[c] <= Full(c) + MaxLag + (IF armed = -1 THEN 0 ELSE armed)
<1>1. /\ silent[c] \in Nat /\ soft[c] \in Nat /\ age[c] \in Nat
      /\ lag \in 0 .. MaxLag /\ armed \in Int /\ age[c] <= Stage(c)
      /\ soft[c] <= Def[c].max_soft
  BY WatchdogAssumption DEF TypeOK, PassInv
<1>2. soft[c] * Stage(c) \in Nat /\ soft[c] * Stage(c) + Stage(c) <= Full(c)
  BY <1>1, StageNumbers
<1>3. /\ Stage(c) \in Nat /\ Full(c) \in Nat /\ MaxLag \in Nat
      /\ Stage(c) = Def[c].deadline + MaxLag /\ Def[c].deadline \in Nat
  BY StageNumbers
<1> QED
  BY <1>1, <1>2, <1>3 DEF Silence

\* A step that changes nothing the silence depends on.
LEMMA SilenceAside ==
  ASSUME NEW c \in Ids, Silence(c),
         UNCHANGED <<silent, soft, age, armed, idx, pc, lag>>
  PROVE  Silence(c)'
BY DEF Silence, Escalating, Unchecked, Due

\* The pass goes on from another channel.
LEMMA NextAside ==
  ASSUME TypeOK, NEW c \in Ids, Silence(c), NextChannel, idx # c, pc # "sleep",
         UNCHANGED <<silent, armed>>, age'[c] = age[c], soft'[c] = soft[c]
  PROVE  Silence(c)'
<1>0. MaxLag \in Nat /\ Def[c].deadline \in Nat
  BY StageNumbers
<1>1. /\ idx \in Int /\ c \in Int /\ c < Channels /\ Channels \in Int
      /\ lag \in 0 .. MaxLag /\ age[c] \in Nat
  BY WatchdogAssumption DEF TypeOK, Ids
<1>2. CASE armed # -1
  BY <1>2 DEF Silence
<1>3. CASE armed = -1 /\ idx < c
  <2>1. pc' = "check" /\ idx' = idx + 1 /\ lag' = lag
    BY <1>1, <1>3 DEF NextChannel
  <2>2. ~ Escalating(c) /\ Unchecked(c) /\ ~ Escalating(c)' /\ Unchecked(c)'
    BY <1>1, <1>3, <2>1 DEF Escalating, Unchecked
  <2> QED
    BY <1>3, <2>1, <2>2 DEF Silence, Due
<1>4. CASE armed = -1 /\ idx > c
  <2>1. ~ Escalating(c) /\ ~ Unchecked(c)
    BY <1>1, <1>4 DEF Escalating, Unchecked
  <2>2. ~ Escalating(c)' /\ ~ Unchecked(c)'
    BY <1>1, <1>4 DEF Escalating, Unchecked, NextChannel
  <2>3. /\ silent[c] <= soft[c] * Stage(c) + age[c]
        /\ age[c] < Def[c].deadline + lag
    BY <1>4, <2>1 DEF Silence
  <2>4. lag' = lag \/ pc' = "sleep"
    BY DEF NextChannel
  <2> QED
    BY <1>0, <1>1, <1>4, <2>2, <2>3, <2>4 DEF Silence
<1> QED
  BY <1>1, <1>2, <1>3, <1>4

\* The pass goes on from the channel itself, which was found alive or whose
\* stage was counted.
LEMMA NextOwn ==
  ASSUME TypeOK, NEW c \in Ids, Silence(c), NextChannel, idx = c,
         UNCHANGED <<silent, armed>>, soft'[c] \in Nat, age'[c] \in Nat,
         armed = -1 => /\ silent[c] <= soft'[c] * Stage(c) + age'[c]
                       /\ age'[c] < Def[c].deadline + lag
  PROVE  Silence(c)'
<1>0. MaxLag \in Nat /\ Def[c].deadline \in Nat
  BY StageNumbers
<1>1. idx \in Int /\ lag \in 0 .. MaxLag
  BY DEF TypeOK, Ids
<1>2. CASE armed # -1
  BY <1>2 DEF Silence
<1>3. CASE armed = -1
  <2>1. pc' = "sleep" \/ (pc' = "check" /\ idx' = idx + 1 /\ lag' = lag)
    BY DEF NextChannel
  <2>2. ~ Escalating(c)' /\ ~ Unchecked(c)'
    BY <1>1, <2>1 DEF Escalating, Unchecked
  <2> QED
    BY <1>0, <1>1, <1>3, <2>1, <2>2 DEF Silence
<1> QED
  BY <1>2, <1>3


\* A heartbeat ends the silence.
LEMMA SilentBeat ==
  ASSUME TypeOK, NEW c \in Ids, NEW d \in Ids, Silence(c), wd_heartbeat(d)
  PROVE  Silence(c)'
<1>1. UNCHANGED <<armed, idx, pc, lag>>
  BY DEF wd_heartbeat, passVars
<1>2. CASE c # d
  <2>1. silent'[c] = silent[c] /\ soft'[c] = soft[c] /\ age'[c] = age[c]
    BY <1>2 DEF wd_heartbeat, TypeOK
  <2> QED
    BY <1>1, <2>1 DEF Silence, Escalating, Unchecked, Due
<1>3. CASE c = d
  <2>1. silent'[c] = 0 /\ soft'[c] = 0 /\ age'[c] = 0
    BY <1>3 DEF wd_heartbeat, TypeOK
  <2>2. /\ MaxLag \in Nat /\ Full(c) \in Nat /\ Stage(c) \in Nat
        /\ Def[c].deadline \in Nat \ {0} /\ 0 * Stage(c) = 0
    BY StageNumbers
  <2>3. lag' \in Nat /\ armed' \in Int /\ (armed' # -1 => armed' >= 0)
    BY <1>1, WatchdogAssumption DEF TypeOK
  <2> QED
    BY <1>1, <2>1, <2>2, <2>3 DEF Silence, Due
<1> QED
  BY <1>2, <1>3

\* Time passes: the silence grows by one, and so does the age, the lag of
\* the pass or the age of the reboot.
LEMMA SilentElapse ==
  ASSUME TypeOK, PassInv, NEW c \in Ids, Silence(c), wd_task \/ PassBlocked
  PROVE  Silence(c)' /\ age'[c] <= Stage(c)
<1>0. Elapse
  BY DEF wd_task, PassBlocked
<1>1. /\ silent[c] \in Nat /\ age[c] \in Nat /\ lag \in Nat /\ lag <= MaxLag
      /\ armed \in Int /\ age[c] <= Stage(c) /\ idx \in Int
      /\ soft[c] \in Nat
  BY WatchdogAssumption DEF TypeOK, PassInv, Ids
<1>2. /\ MaxLag \in Nat /\ Full(c) \in Nat /\ Stage(c) \in Nat
      /\ Def[c].deadline \in Nat \ {0} /\ Stage(c) = Def[c].deadline + MaxLag
      /\ soft[c] * Stage(c) \in Nat
  BY <1>1, StageNumbers
<1>3. silent'[c] <= silent[c] + 1 /\ silent'[c] \in Nat
  <2>1. silent'[c] = Capped(silent[c], SilenceCap(c))
    BY <1>0 DEF Elapse
  <2> QED
    BY <1>1, <2>1 DEF Capped
<1>4. age'[c] = IF age[c] < Stage(c) THEN age[c] + 1 ELSE age[c]
  BY <1>0, <1>2 DEF Elapse, Capped
<1>5. soft' = soft /\ idx' = idx /\ armed' = IF armed = -1 THEN -1 ELSE armed + 1
  BY <1>0 DEF Elapse
<1>6. CASE armed # -1
  <2>1. armed' # -1 /\ armed' = armed + 1
    BY <1>1, <1>5, <1>6 DEF TypeOK
  <2> QED
    BY <1>1, <1>2, <1>3, <1>4, <1>6, <2>1 DEF Silence
<1>7. CASE armed = -1 /\ wd_task
  <2>1. /\ pc = "sleep" /\ pc' = "check" /\ lag = 0 /\ lag' = 0 /\ idx = 0
        /\ armed' = -1
    BY <1>5, <1>7 DEF wd_task, PassInv
  <2>2. /\ silent[c] <= soft[c] * Stage(c) + age[c]
        /\ age[c] < Def[c].deadline + MaxLag
    BY <1>7, <2>1 DEF Silence, Escalating, Unchecked
  <2>3. 0 <= c
    BY DEF Ids
  <2>4. ~ Escalating(c)' /\ Unchecked(c)'
    BY <1>5, <2>1, <2>3 DEF Escalating, Unchecked
  <2>5. silent'[c] <= soft[c] * Stage(c)
                        + (IF Due(c)' THEN Stage(c) + lag' ELSE age'[c])
    BY <1>1, <1>2, <1>3, <1>4, <2>1, <2>2 DEF Due
  <2> QED
    BY <1>1, <1>2, <1>4, <1>5, <2>1, <2>4, <2>5 DEF Silence
<1>8. CASE armed = -1 /\ PassBlocked
  <2>1. /\ pc # "sleep" /\ pc' = pc /\ lag' = lag + 1 /\ armed' = -1
        /\ lag < MaxLag
    BY <1>5, <1>8 DEF PassBlocked
  <2>2. (Escalating(c)' <=> Escalating(c)) /\ (Unchecked(c)' <=> Unchecked(c))
    BY <1>5, <2>1 DEF Escalating, Unchecked
  <2>3. CASE Escalating(c)
    BY <1>1, <1>2, <1>3, <1>4, <1>8, <2>1, <2>2, <2>3 DEF Silence
  <2>4. CASE ~ Escalating(c) /\ Unchecked(c)
    <3>1. silent[c] <= soft[c] * Stage(c)
                         + (IF Due(c) THEN Stage(c) + lag ELSE age[c])
      BY <1>8, <2>4 DEF Silence
    <3>2. silent'[c] <= soft[c] * Stage(c)
                          + (IF Due(c)' THEN Stage(c) + lag' ELSE age'[c])
      BY <1>1, <1>2, <1>3, <1>4, <2>1, <3>1 DEF Due
    <3> QED
      BY <1>1, <1>2, <1>4, <1>5, <2>1, <2>2, <2>4, <3>2 DEF Silence
  <2>5. CASE ~ Escalating(c) /\ ~ Unchecked(c)
    BY <1>1, <1>2, <1>3, <1>4, <1>5, <1>8, <2>1, <2>2, <2>5 DEF Silence
  <2> QED
    BY <2>3, <2>4, <2>5
<1> QED
  BY <1>6, <1>7, <1>8

\* A check finds a channel silent once its deadline has passed.
LEMMA DueFires ==
  ASSUME NoWrap, TypeOK, PassInv, NEW c \in Ids, elapsed(c) < Def[c].deadline
  PROVE  age[c] < Def[c].deadline + lag
<1>1. /\ age[c] \in Nat /\ lag \in Nat /\ age[c] <= Stage(c)
      /\ Wrap \in Nat \ {0}
  BY WatchdogAssumption DEF TypeOK, PassInv
<1>2. /\ MaxLag \in Nat /\ Def[c].deadline \in Nat
      /\ Stage(c) = Def[c].deadline + MaxLag /\ Stage(c) < Wrap
  BY StageNumbers DEF NoWrap
<1>3. ASSUME NEW x \in Nat, x < Wrap
      PROVE  x % Wrap = x
  BY <1>1, <1>3
<1>4. ASSUME age[c] >= Def[c].deadline + lag
      PROVE  FALSE
  <2>1. age[c] - lag \in Nat /\ age[c] - lag < Wrap
    BY <1>1, <1>2, <1>4
  <2>2. elapsed(c) = age[c] - lag
    BY <1>3, <2>1 DEF elapsed
  <2> QED
    BY <1>1, <1>2, <1>4, <2>2
<1> QED
  BY <1>1, <1>2, <1>4

\* The check of a channel: alive, a stage counted, or escalated.
LEMMA SilentCheck ==
  ASSUME NoWrap, TypeOK, TypeOK', PassInv, NEW c \in Ids, Silence(c),
         Def[c].reboots, check_channel
  PROVE  Silence(c)'
<1>0. /\ pc = "check" /\ UNCHANGED <<silent, armed>>
  BY DEF check_channel
<1>1. /\ silent[c] \in Nat /\ age[c] \in Nat /\ lag \in Nat /\ lag <= MaxLag
      /\ soft[c] \in Nat /\ soft[c] <= Def[c].max_soft
      /\ idx \in Int /\ c \in Int
      /\ soft'[c] \in Nat /\ age'[c] \in Nat
  BY WatchdogAssumption DEF TypeOK, Ids
<1>2. /\ MaxLag \in Nat /\ Full(c) \in Nat /\ Stage(c) \in Nat
      /\ Def[c].deadline \in Nat \ {0} /\ Stage(c) = Def[c].deadline + MaxLag
      /\ soft[c] * Stage(c) \in Nat /\ Def[c].max_soft \in Nat
      /\ (soft[c] + 1) * Stage(c) = soft[c] * Stage(c) + Stage(c)
      /\ soft[c] * Stage(c) + Stage(c) <= Full(c)
  BY <1>1, StageNumbers
<1>3. CASE idx # c
  <2>1. age'[c] = age[c] /\ soft'[c] = soft[c]
    BY <1>3 DEF check_channel, TypeOK, chanVars
  <2>2. CASE NextChannel
    BY <1>0, <1>3, <2>1, <2>2, NextAside
  <2>3. CASE pc' = "escalate" /\ UNCHANGED <<idx, lag>>
    <3>1. /\ ~ Escalating(c) /\ ~ Escalating(c)'
          /\ (Unchecked(c)' <=> Unchecked(c))
      BY <1>0, <1>1, <1>3, <2>3 DEF Escalating, Unchecked
    <3> QED
      BY <1>0, <2>1, <2>3, <3>1 DEF Silence, Due
  <2> QED
    BY <2>2, <2>3 DEF check_channel
<1>4. CASE idx = c
  <2>0. armed = -1 => silent[c] <= soft[c] * Stage(c)
                        + (IF Due(c) THEN Stage(c) + lag ELSE age[c])
    BY <1>0, <1>1, <1>4 DEF Silence, Escalating, Unchecked
  <2>00. elapsed(idx) \in Int
    BY <1>1, <1>4, WatchdogAssumption DEF elapsed
  <2>1. CASE elapsed(idx) < Def[idx].deadline
    <3>1. NextChannel /\ age' = age /\ soft' = soft
      BY <1>2, <1>4, <2>00, <2>1 DEF check_channel, chanVars
    <3>2. age[c] < Def[c].deadline + lag
      BY <1>4, <2>1, DueFires
    <3>3. ~ Due(c)
      BY <1>1, <1>2, <3>2 DEF Due
    <3> QED
      BY <1>0, <1>1, <1>4, <2>0, <3>1, <3>2, <3>3, NextOwn
  <2>2. CASE elapsed(idx) >= Def[idx].deadline /\ soft[idx] < Def[idx].max_soft
    <3>1. NextChannel
      BY <1>1, <1>2, <1>4, <2>00, <2>2 DEF check_channel
    <3>2. age'[c] = lag /\ soft'[c] = soft[c] + 1
      BY <1>1, <1>2, <1>4, <2>00, <2>2 DEF check_channel, TypeOK
    <3>3. armed = -1 => silent[c] <= soft'[c] * Stage(c) + age'[c]
      BY <1>1, <1>2, <2>0, <3>2 DEF Due
    <3>4. age'[c] < Def[c].deadline + lag
      BY <1>1, <1>2, <3>2
    <3> QED
      BY <1>0, <1>1, <1>4, <3>1, <3>3, <3>4, NextOwn
  <2>3. CASE elapsed(idx) >= Def[idx].deadline /\ soft[idx] >= Def[idx].max_soft
    <3>1. pc' = "escalate" /\ UNCHANGED <<idx, lag>>
      BY <1>1, <1>2, <1>4, <2>00, <2>3 DEF check_channel
    <3>2. Escalating(c)'
      BY <1>4, <3>1 DEF Escalating
    <3>3. armed = -1 => silent[c] <= Full(c) + lag
      BY <1>1, <1>2, <2>0 DEF Due
    <3> QED
      BY <1>0, <3>1, <3>2, <3>3 DEF Silence
  <2> QED
    BY <1>1, <1>4, <2>1, <2>2, <2>3 DEF check_channel
<1> QED
  BY <1>3, <1>4

\* The escalation of a channel: it ends in a reboot that is armed, in the
\* brake or in a refusal.
LEMMA SilentEscalation ==
  ASSUME TypeOK, TypeOK', PassInv, NEW c \in Ids, Watched(c)', Silence(c),
         escalate \/ record_reason \/ reboot_hook
  PROVE  Silence(c)'
<1>0. /\ pc \in {"escalate"} \cup Recording /\ UNCHANGED <<silent, age, soft>>
  BY DEF escalate, record_reason, reboot_hook, chanVars
<1>1. /\ idx \in Int /\ c \in Int
  BY DEF TypeOK, Ids
<1>2. CASE NextChannel /\ UNCHANGED armed
  <2>1. CASE idx # c
    BY <1>0, <1>2, <2>1, NextAside
  <2>2. CASE idx = c
    <3>1. CASE escalate
      <4>1. ~ Def[c].gated /\ ~ brake_logged'[c]
        BY DEF Watched
      <4>2. pc' # "record"
        BY <1>2 DEF NextChannel
      <4>3. brake_logged' = [brake_logged EXCEPT ![c] = TRUE]
        BY <2>2, <3>1, <4>1, <4>2 DEF escalate
      <4> QED
        BY <4>1, <4>3 DEF TypeOK
    <3>2. CASE record_reason
      BY <1>2, <3>2 DEF record_reason, NextChannel
    <3>3. CASE reboot_hook
      <4>1. armed # -1
        BY <1>2, <3>3 DEF reboot_hook, Watched
      <4> QED
        BY <1>0, <1>2, <4>1 DEF Silence
    <3> QED
      BY <3>1, <3>2, <3>3
  <2> QED
    BY <2>1, <2>2
<1>3. CASE pc' \in Recording /\ UNCHANGED <<idx, lag, armed>>
  <2>1. /\ (Escalating(c)' <=> Escalating(c)) /\ (Unchecked(c)' <=> Unchecked(c))
        /\ pc # "sleep" /\ pc' # "sleep"
    BY <1>0, <1>3 DEF Escalating, Unchecked
  <2> QED
    BY <1>0, <1>3, <2>1 DEF Silence, Due
<1>4. CASE armed = -1 /\ armed' = 0
  <2>1. silent[c] <= Full(c) + MaxLag + 0
    BY <1>4, SilenceBound
  <2> QED
    BY <1>0, <1>4, <2>1 DEF Silence
<1> QED
  BY <1>2, <1>3, <1>4 DEF escalate, record_reason, reboot_hook

\* After a restart nothing was silent yet.
LEMMA SilentBoot ==
  ASSUME NEW v \in BOOLEAN, wd_init(v), NEW c \in Ids
  PROVE  Silence(c)' /\ PassInv'
<1>1. /\ silent'[c] = 0 /\ soft'[c] = 0 /\ age' = [d \in Ids |-> 0]
      /\ pc' = "sleep" /\ armed' = -1 /\ idx' = 0 /\ lag' = 0
  BY DEF wd_init
<1>2. \A d \in Ids : Stage(d) \in Nat
  BY StageNumbers
<1>3. PassInv'
  BY <1>1, <1>2 DEF PassInv
<1>4. /\ MaxLag \in Nat /\ Stage(c) \in Nat /\ 0 * Stage(c) = 0
      /\ Def[c].deadline \in Nat \ {0}
  BY StageNumbers
<1>5. ~ Escalating(c)' /\ ~ Unchecked(c)'
  BY <1>1 DEF Escalating, Unchecked
<1> QED
  BY <1>1, <1>3, <1>4, <1>5 DEF Silence

\* The ages stay within a stage and the pass rests at its beginning.
LEMMA PassStep ==
  ASSUME TypeOK, PassInv, [Next]_vars
  PROVE  PassInv'
<1>0. ASSUME NEW d \in Ids PROVE Stage(d) \in Nat /\ MaxLag <= Stage(d)
  <2>1. /\ Stage(d) = Def[d].deadline + MaxLag /\ MaxLag \in Nat
        /\ Def[d].deadline \in Nat
    BY StageNumbers
  <2> QED
    BY <2>1
<1>00. lag \in 0 .. MaxLag /\ MaxLag \in Nat /\ age \in [Ids -> Nat]
  BY WatchdogAssumption DEF TypeOK
<1>1. ASSUME NEW d \in Ids, wd_heartbeat(d) PROVE PassInv'
  BY <1>0, <1>00, <1>1 DEF PassInv, wd_heartbeat, passVars
<1>2. CASE wd_task \/ PassBlocked
  <2>1. \A d \in Ids : age'[d] <= Stage(d)
    BY <1>0, <1>00, <1>2 DEF PassInv, wd_task, PassBlocked, Elapse, Capped, Stage
  <2> QED
    BY <1>2, <2>1 DEF PassInv, wd_task, PassBlocked
<1>3. CASE check_channel
  <2>1. \A d \in Ids : age'[d] <= Stage(d)
    BY <1>0, <1>00, <1>3 DEF PassInv, check_channel, chanVars
  <2> QED
    BY <1>3, <2>1 DEF PassInv, check_channel, NextChannel
<1>4. CASE escalate \/ record_reason \/ reboot_hook
  BY <1>4 DEF PassInv, escalate, record_reason, reboot_hook, NextChannel, chanVars
<1>5. CASE wd_session_success_note \/ LinkChange \/ UNCHANGED vars
  BY <1>5 DEF PassInv, wd_session_success_note, LinkChange, vars, chanVars,
     passVars
<1>6. CASE esp_restart \/ OtherRestart \/ PowerOn
  <2>1. 0 \in Ids
    BY WatchdogAssumption DEF Ids
  <2> QED
    BY <1>6, <2>1, SilentBoot DEF esp_restart, OtherRestart, PowerOn
<1> QED
  BY <1>1, <1>2, <1>3, <1>4, <1>5, <1>6 DEF Next

\* Every step accounts for the silence of every watched channel.
LEMMA SilenceStep ==
  ASSUME NoWrap, TypeOK, SilenceInv, [Next]_vars
  PROVE  SilenceInv'
<1>0. TypeOK' /\ PassInv /\ PassInv'
  BY TypeStep, PassStep DEF SilenceInv
<1> SUFFICES ASSUME NEW c \in Ids, Watched(c)' PROVE Silence(c)'
  BY <1>0 DEF SilenceInv
<1>1. CASE esp_restart \/ OtherRestart \/ PowerOn
  BY <1>1, SilentBoot DEF esp_restart, OtherRestart, PowerOn
<1>2. ASSUME NEW d \in Ids, wd_heartbeat(d) PROVE Silence(c)'
  <2>1. CASE Watched(c)
    BY <1>2, <2>1, SilentBeat DEF SilenceInv
  <2>2. CASE ~ Watched(c)
    <3>1. refused' = refused /\ (c # d => brake_logged'[c] = brake_logged[c])
      BY <1>2 DEF wd_heartbeat, histVars, TypeOK
    <3>2. c = d
      BY <2>2, <3>1 DEF Watched
    <3>3. /\ silent'[c] = 0 /\ soft'[c] = 0 /\ age'[c] = 0
          /\ UNCHANGED <<armed, pc, lag>>
      BY <1>2, <3>2 DEF wd_heartbeat, TypeOK, passVars
    <3>4. /\ MaxLag \in Nat /\ Full(c) \in Nat /\ Stage(c) \in Nat
          /\ Def[c].deadline \in Nat \ {0} /\ 0 * Stage(c) = 0
      BY StageNumbers
    <3>5. lag' \in Nat /\ armed' \in Int /\ (armed' # -1 => armed' >= 0)
      BY <3>3, WatchdogAssumption DEF TypeOK
    <3> QED
      BY <3>3, <3>4, <3>5 DEF Silence, Due
  <2> QED
    BY <2>1, <2>2
<1>3. ASSUME UNCHANGED <<refused, brake_logged>> \/ escalate \/ reboot_hook
      PROVE  Silence(c)
  <2>1. Watched(c)
    <3>1. CASE UNCHANGED <<refused, brake_logged>>
      BY <3>1 DEF Watched
    <3>2. CASE escalate
      BY <3>2 DEF Watched, escalate, TypeOK, histVars
    <3>3. CASE reboot_hook
      BY <1>0, <3>3 DEF Watched, reboot_hook, chanVars, TypeOK
    <3> QED
      BY <1>3, <3>1, <3>2, <3>3
  <2> QED
    BY <2>1 DEF SilenceInv
<1>4. CASE wd_task \/ PassBlocked
  <2>1. UNCHANGED <<refused, brake_logged>>
    BY <1>4 DEF wd_task, PassBlocked, Elapse, histVars
  <2> QED
    BY <1>0, <1>3, <1>4, <2>1, SilentElapse
<1>5. CASE check_channel
  <2>1. UNCHANGED <<refused, brake_logged>> /\ Def[c].reboots
    BY <1>5 DEF check_channel, histVars, chanVars, Watched
  <2> QED
    BY <1>0, <1>3, <1>5, <2>1, SilentCheck
<1>6. CASE escalate \/ record_reason \/ reboot_hook
  <2>1. record_reason => UNCHANGED <<refused, brake_logged>>
    BY DEF record_reason, chanVars
  <2> QED
    BY <1>0, <1>3, <1>6, <2>1, SilentEscalation
<1>7. CASE wd_session_success_note \/ LinkChange \/ UNCHANGED vars
  <2>1. UNCHANGED <<refused, brake_logged, silent, soft, age, armed, idx, pc, lag>>
    BY <1>7 DEF wd_session_success_note, LinkChange, vars, chanVars, passVars,
       histVars
  <2> QED
    BY <1>3, <2>1, SilenceAside
<1> QED
  BY <1>1, <1>2, <1>4, <1>5, <1>6, <1>7 DEF Next

(* A channel that may reboot without a gate is never overlooked: whatever  *)
(* the pass is blocked by and whoever else escalates meanwhile, after its  *)
(* stages and the deferral the device has restarted, unless the brake or a *)
(* failed reboot task prevented it.  The elapsed time must not fold.       *)
THEOREM DeadChannelsReboot == NoWrap => (Spec => []DeadChannelReboots)
<1> SUFFICES ASSUME NoWrap PROVE Spec => []DeadChannelReboots
  OBVIOUS
<1>1. Init => SilenceInv
  <2> SUFFICES ASSUME Init PROVE SilenceInv
    OBVIOUS
  <2>1. /\ silent = [c \in Ids |-> 0] /\ soft = [c \in Ids |-> 0]
        /\ age = [c \in Ids |-> 0]
        /\ pc = "sleep" /\ armed = -1 /\ idx = 0 /\ lag = 0
    BY DEF Init
  <2>2. PassInv
    BY <2>1, StageNumbers DEF PassInv
  <2>3. ASSUME NEW c \in Ids PROVE Silence(c)
    <3>1. /\ MaxLag \in Nat /\ Stage(c) \in Nat /\ 0 * Stage(c) = 0
          /\ Def[c].deadline \in Nat \ {0}
      BY StageNumbers
    <3>2. ~ Escalating(c) /\ ~ Unchecked(c)
      BY <2>1 DEF Escalating, Unchecked
    <3> QED
      BY <2>1, <3>1, <3>2 DEF Silence
  <2> QED
    BY <2>2, <2>3 DEF SilenceInv
<1>2. TypeOK /\ SilenceInv /\ [Next]_vars => SilenceInv'
  BY SilenceStep
<1>3. TypeOK /\ SilenceInv => DeadChannelReboots
  <2> SUFFICES ASSUME TypeOK, SilenceInv, NEW c \in Ids, Def[c].reboots,
                      ~ Def[c].gated, ~ refused, ~ brake_logged[c]
               PROVE  ~ (silent[c] > EscalationBound(c))
    BY DEF DeadChannelReboots
  <2>1. silent[c] <= Full(c) + MaxLag + (IF armed = -1 THEN 0 ELSE armed)
    BY SilenceBound DEF SilenceInv, Watched
  <2>2. silent[c] \in Nat /\ armed \in -1 .. RebootTicks /\ RebootTicks \in Nat
    BY WatchdogAssumption DEF TypeOK
  <2>3. Full(c) \in Nat /\ MaxLag \in Nat
    BY StageNumbers
  <2>4. EscalationBound(c) = Full(c) + MaxLag + RebootTicks
    BY DEF EscalationBound, Full, Stage
  <2> QED
    BY <2>1, <2>2, <2>3, <2>4
<1>4. Spec => []TypeOK
  <2>1. IInv => TypeOK
    BY DEF IInv
  <2> QED
    BY <2>1, WatchdogInvariant, PTL
<1> QED
  BY <1>1, <1>2, <1>3, <1>4, PTL DEF Spec

-----------------------------------------------------------------------------
(***************************************************************************)
(* The server session (FpSession).  OTA_NONE sets running without a look   *)
(* at negotiated: that the hello of the same connection was accepted       *)
(* before follows from the order of the messages alone.                    *)
(***************************************************************************)

(* The parts of the type invariant: flags, stages of the tasks, queues. *)
SessionFlags == /\ negotiated \in BOOLEAN /\ running \in BOOLEAN
                /\ progress \in BOOLEAN /\ was_running \in BOOLEAN
                /\ session_up \in BOOLEAN /\ fed \in BOOLEAN
SessionStages ==
  /\ lock \in {"free", "ws", "poll"}
  /\ ws \in Messages \cup {"idle", "CONNECTED", "DISCONNECTED", "send",
                           "publish", "relock"}
  /\ frame \in Frames
  /\ poll \in {"sleep", "lost", "lock", "send"}
  /\ jobs \in [Jobs -> {"none", "run", "note", "ready"}]
  /\ wd \in {"watch", "stop"}
  /\ sock \in {"down", "up", "wedged"}
  /\ srv \in {"new", "hello", "acked", "checked", "open", "closed"}
  /\ inbox \in (Messages \ Requests) \cup {"none"} /\ wedges \in 0 .. MaxWedges
SessionQueues ==
  /\ txq \in Seq(Frames) /\ Len(txq) <= Depth
  /\ events \in Seq({"READY", "LOST"}) /\ Len(events) <= EventDepth

LEMMA TypesSplit ==
  SessionTypeOK <=> SessionFlags /\ SessionStages /\ SessionQueues
  BY DEF SessionTypeOK, SessionFlags, SessionStages, SessionQueues

(* Every assignment to a flag is a truth value. *)
LEMMA FlagsKeep == SessionFlags /\ [SessionNext]_fpVars => SessionFlags'
  BY DEF SessionFlags, SessionNext, fpVars, sessVars, wsVars, pollVars,
     evtVars, wdVars, netVars, WsTask, on_ws, on_connected, on_disconnected,
     fp_session_reset, fp_session_message_handle, handle_hello_ack,
     handle_ota_none, handle_dp_read, handle_command, handle_log_read,
     ota_start, Reply, Done, send_msg, cb_on_ready, ws_event, Connect,
     PollTask, task_fn, cb_on_session_lost, poll_lock,
     fp_session_dp_report_send, tx_task_fn, event_dispatch, WdTask, Deadline,
     fp_ws_restart, OtaTask, ota_run, fountain_proto_ota_failed_note,
     fp_session_ota_failed_note, ota_ready, Wedge, DropNoticed, ServerReplies,
     ServerAsks, event_manager_publish, tx_enqueue_owned, AnswerHello,
     AnswerCheck

LEMMA StagesKeep == SessionStages /\ [SessionNext]_fpVars => SessionStages'
<1> SUFFICES ASSUME SessionStages, [SessionNext]_fpVars PROVE SessionStages'
  OBVIOUS
<1> USE SessionAssumption DEF SessionStages, sessVars, wsVars, pollVars,
   evtVars, wdVars, netVars
<1>1. CASE WsTask
  BY <1>1 DEF WsTask, on_ws, on_connected, on_disconnected, fp_session_reset,
     fp_session_message_handle, handle_hello_ack, handle_ota_none,
     handle_dp_read, handle_command, handle_log_read, ota_start, Reply, Done,
     send_msg, cb_on_ready, ws_event, Connect, Frames
<1>2. CASE PollTask
  BY <1>2 DEF  PollTask, task_fn, cb_on_session_lost, poll_lock,
     fp_session_dp_report_send
<1>3. CASE tx_task_fn \/ event_dispatch
  BY <1>3 DEF tx_task_fn, event_dispatch
<1>4. CASE WdTask
  BY <1>4 DEF  WdTask, Deadline, fp_ws_restart
<1>5. CASE \E j \in Jobs : OtaTask(j)
  BY <1>5 DEF OtaTask, ota_run, fountain_proto_ota_failed_note,
     fp_session_ota_failed_note, ota_ready
<1>6. CASE Wedge \/ DropNoticed
  BY <1>6 DEF Wedge, DropNoticed
<1>7. CASE ServerReplies
  BY <1>7 DEF ServerReplies, AnswerHello, AnswerCheck, Messages, Requests,
     Stale
<1>8. CASE ServerAsks
  BY <1>8 DEF ServerAsks
<1>9. CASE UNCHANGED fpVars
  BY <1>9 DEF fpVars
<1> QED
  BY <1>1, <1>2, <1>3, <1>4, <1>5, <1>6, <1>7, <1>8, <1>9 DEF SessionNext
(* A queue takes what fits and gives its head. *)
LEMMA QueueStep ==
  ASSUME NEW S, NEW n \in Nat, NEW q \in Seq(S), Len(q) <= n, NEW e \in S
  PROVE  /\ LET r == IF Len(q) < n THEN Append(q, e) ELSE q
            IN  r \in Seq(S) /\ Len(r) <= n
         /\ q # <<>> => Tail(q) \in Seq(S) /\ Len(Tail(q)) <= n
  OBVIOUS

LEMMA QueuesKeep ==
  SessionStages /\ SessionQueues /\ [SessionNext]_fpVars => SessionQueues'
<1> SUFFICES ASSUME SessionStages, SessionQueues, [SessionNext]_fpVars
             PROVE  SessionQueues'
  OBVIOUS
<1>a. Depth \in Nat /\ EventDepth \in Nat
  BY SessionAssumption
<1>b. frame \in Frames /\ "data" \in Frames /\ "READY" \in {"READY", "LOST"} /\
   "LOST" \in {"READY", "LOST"}
  BY DEF SessionStages, Frames
<1>1. \/ UNCHANGED txq
      \/ txq # <<>> /\ txq' = Tail(txq)
      \/ \E f \in Frames : tx_enqueue_owned(f)
  <2> USE <1>b DEF sessVars, wsVars, pollVars, evtVars, wdVars, netVars
  <2>1. CASE WsTask
    BY <2>1 DEF WsTask, on_ws, send_msg, cb_on_ready, ws_event, Connect
  <2>2. CASE PollTask
    BY <2>2 DEF  PollTask, task_fn, cb_on_session_lost, poll_lock,
       fp_session_dp_report_send
  <2>3. CASE tx_task_fn \/ event_dispatch \/ WdTask
    BY <2>3 DEF tx_task_fn, event_dispatch, WdTask, Deadline, fp_ws_restart
  <2>4. CASE \E j \in Jobs : OtaTask(j)
    BY <2>4 DEF OtaTask, ota_run, fountain_proto_ota_failed_note, ota_ready
  <2>5. CASE Wedge \/ DropNoticed \/ ServerReplies \/ ServerAsks
    BY <2>5 DEF Wedge, DropNoticed, ServerReplies, ServerAsks
  <2>6. CASE UNCHANGED fpVars
    BY <2>6 DEF fpVars
  <2> QED
    BY <2>1, <2>2, <2>3, <2>4, <2>5, <2>6 DEF SessionNext
<1>2. \/ UNCHANGED events
      \/ events # <<>> /\ events' = Tail(events)
      \/ \E e \in {"READY", "LOST"} : event_manager_publish(e)
  <2> USE <1>b DEF sessVars, wsVars, pollVars, evtVars, wdVars, netVars
  <2>1. CASE WsTask
    BY <2>1 DEF WsTask, on_ws, send_msg, cb_on_ready, ws_event, Connect
  <2>2. CASE PollTask
    BY <2>2 DEF  PollTask, task_fn, cb_on_session_lost, poll_lock,
       fp_session_dp_report_send
  <2>3. CASE tx_task_fn \/ event_dispatch \/ WdTask
    BY <2>3 DEF tx_task_fn, event_dispatch, WdTask, Deadline, fp_ws_restart
  <2>4. CASE \E j \in Jobs : OtaTask(j)
    BY <2>4 DEF OtaTask, ota_run, fountain_proto_ota_failed_note, ota_ready
  <2>5. CASE Wedge \/ DropNoticed \/ ServerReplies \/ ServerAsks
    BY <2>5 DEF Wedge, DropNoticed, ServerReplies, ServerAsks
  <2>6. CASE UNCHANGED fpVars
    BY <2>6 DEF fpVars
  <2> QED
    BY <2>1, <2>2, <2>3, <2>4, <2>5, <2>6 DEF SessionNext
<1>3. txq' \in Seq(Frames) /\ Len(txq') <= Depth
  BY <1>1, <1>a, <1>b, QueueStep DEF SessionQueues, tx_enqueue_owned
<1>4. events' \in Seq({"READY", "LOST"}) /\ Len(events') <= EventDepth
  BY <1>2, <1>a, <1>b, QueueStep DEF SessionQueues, event_manager_publish
<1> QED
  BY <1>3, <1>4 DEF SessionQueues

(* Every variable of the session keeps its type, and the two queues their  *)
(* depth, for every size, set of messages and number of jobs.              *)
THEOREM SessionTypes == SessionSpec => []SessionTypeOK
<1>1. SessionInit => SessionFlags /\ SessionStages /\ SessionQueues
  <2>1. SessionInit => SessionFlags
    BY Zenon DEF SessionInit, SessionFlags
  <2>2. SessionInit => SessionStages
    BY SessionAssumption DEF SessionInit, SessionStages, Frames
  <2>3. SessionInit => SessionQueues
    BY SessionAssumption DEF SessionInit, SessionQueues
  <2> QED  BY <2>1, <2>2, <2>3
<1>2. /\ SessionFlags /\ SessionStages /\ SessionQueues
      /\ [SessionNext]_fpVars
      => (SessionFlags /\ SessionStages /\ SessionQueues)'
  BY FlagsKeep, StagesKeep, QueuesKeep
<1> QED
  BY <1>1, <1>2, TypesSplit, PTL DEF SessionSpec

(* The stages of a server that has accepted the hello. *)
Accepted == {"acked", "checked", "open"}

(* Nothing is under way on a connection that is not up; a DISCONNECTED is  *)
(* handled before the next connection is opened.                           *)
LinkInv ==
  /\ sock # "up" => inbox = "none"
  /\ ws = "DISCONNECTED" => sock = "down"

(* An accepted hello is known to the session, or the news is under way;    *)
(* CONNECTED, which resets the session, is handled before that news.       *)
HelloInv ==
  /\ sock = "up" /\ srv \in Accepted =>
       negotiated \/ inbox = "HELLO_ACK" \/ ws = "HELLO_ACK"
  /\ sock = "up" /\ ws = "CONNECTED" =>
       srv \notin Accepted \/ inbox = "HELLO_ACK"

(* The answer to the update check comes behind an accepted hello. *)
OfferInv ==
  /\ inbox \in {"OTA_NONE", "OTA_AVAILABLE"} => srv = "open"
  /\ ws = "OTA_NONE" => negotiated
  /\ inbox = "HELLO_ACK" => srv \in {"acked", "checked"}

InboxType == inbox \in {"none", "HELLO_ACK", "HELLO_REJECT", "OTA_NONE",
                        "OTA_AVAILABLE"}
FlagType  == negotiated \in BOOLEAN /\ running \in BOOLEAN

SessionInv == /\ FlagType /\ InboxType /\ LinkInv /\ HelloInv /\ OfferInv
              /\ RunsOnlyNegotiated

LEMMA SessionInvInit == SessionInit => SessionInv
  BY DEF SessionInit, SessionInv, FlagType, InboxType, LinkInv, HelloInv,
     OfferInv, RunsOnlyNegotiated, Accepted

(* on_ws: the handlers run one at a time, each for the event in ws. *)
LEMMA OnWsKeeps == SessionInv /\ on_ws => SessionInv'
<1> SUFFICES ASSUME SessionInv, on_ws PROVE SessionInv'
  OBVIOUS
<1> USE DEF SessionInv, FlagType, InboxType, LinkInv, HelloInv, OfferInv,
        RunsOnlyNegotiated, Accepted
<1>a. UNCHANGED <<sock, srv, inbox>>
  BY DEF on_ws, netVars
<1>1. CASE on_connected
  BY <1>1, <1>a DEF on_connected, fp_session_reset, Reply
<1>2. CASE on_disconnected
  BY <1>2, <1>a DEF on_disconnected, fp_session_reset, Done
<1>3. CASE handle_hello_ack
  BY <1>3, <1>a DEF handle_hello_ack, Reply, Done
<1>4. CASE handle_ota_none
  BY <1>4, <1>a DEF handle_ota_none
<1>5. CASE handle_dp_read
  BY <1>5, <1>a DEF handle_dp_read, Reply, sessVars
<1>6. CASE handle_command
  BY <1>6, <1>a DEF handle_command, Reply, Done, sessVars
<1>7. CASE handle_log_read
  BY <1>7, <1>a DEF handle_log_read, Reply, Done, sessVars
<1>8. CASE ota_start
  BY <1>8, <1>a DEF ota_start, Reply, Done, sessVars
<1> QED
  BY <1>1, <1>2, <1>3, <1>4, <1>5, <1>6, <1>7, <1>8
     DEF on_ws, fp_session_message_handle

(* The rest of the websocket task. *)
LEMMA WsTaskKeeps == SessionInv /\ WsTask => SessionInv'
<1> SUFFICES ASSUME SessionInv, WsTask PROVE SessionInv'
  OBVIOUS
<1>1. CASE on_ws
  BY <1>1, OnWsKeeps
<1> USE DEF SessionInv, FlagType, InboxType, LinkInv, HelloInv, OfferInv,
        RunsOnlyNegotiated, Accepted
<1>2. CASE send_msg
  BY <1>2 DEF send_msg, sessVars, netVars
<1>3. CASE cb_on_ready
  BY <1>3 DEF cb_on_ready, sessVars, netVars
<1>4. CASE ws_event
  BY <1>4 DEF ws_event, sessVars
<1>5. CASE Connect
  BY <1>5 DEF Connect, sessVars
<1> QED
  BY <1>1, <1>2, <1>3, <1>4, <1>5 DEF WsTask

(* A job of an earlier connection cannot start a session that has not been *)
(* negotiated anew.                                                        *)
LEMMA OtaKeeps ==
  ASSUME SessionInv, NEW j \in Jobs, OtaTask(j)
  PROVE  SessionInv'
<1> USE DEF SessionInv, FlagType, InboxType, LinkInv, HelloInv, OfferInv,
        RunsOnlyNegotiated, Accepted
<1>1. CASE ota_run(j)
  BY <1>1 DEF ota_run, sessVars, wsVars, netVars
<1>2. CASE fountain_proto_ota_failed_note(j)
  BY <1>2 DEF fountain_proto_ota_failed_note, fp_session_ota_failed_note,
     wsVars, netVars
<1>3. CASE ota_ready(j)
  BY <1>3 DEF ota_ready, sessVars, wsVars, netVars
<1> QED
  BY <1>1, <1>2, <1>3 DEF OtaTask

(* Protocol task, sender, event task and watchdog. *)
LEMMA TasksKeep ==
  ASSUME SessionInv,
         PollTask \/ tx_task_fn \/ event_dispatch \/ WdTask
  PROVE  SessionInv'
<1> USE DEF SessionInv, FlagType, InboxType, LinkInv, HelloInv, OfferInv,
        RunsOnlyNegotiated, Accepted
<1>1. CASE PollTask
  BY <1>1 DEF PollTask, task_fn, cb_on_session_lost, poll_lock,
     fp_session_dp_report_send, sessVars, wsVars, netVars
<1>2. CASE tx_task_fn
  BY <1>2 DEF tx_task_fn, sessVars, wsVars
<1>3. CASE event_dispatch
  BY <1>3 DEF event_dispatch, sessVars, wsVars, netVars
<1>4. CASE WdTask
  BY <1>4 DEF WdTask, Deadline, fp_ws_restart, sessVars, wsVars, netVars
<1> QED
  BY <1>1, <1>2, <1>3, <1>4

(* Network and server. *)
LEMMA NetworkKeeps ==
  ASSUME SessionInv, Wedge \/ DropNoticed \/ ServerReplies \/ ServerAsks
  PROVE  SessionInv'
<1> USE DEF SessionInv, FlagType, InboxType, LinkInv, HelloInv, OfferInv,
        RunsOnlyNegotiated, Accepted
<1>1. CASE Wedge
  BY <1>1 DEF Wedge, sessVars, wsVars
<1>2. CASE DropNoticed
  BY <1>2 DEF DropNoticed, sessVars
<1>3. CASE ServerReplies
  BY <1>3 DEF ServerReplies, AnswerHello, AnswerCheck, sessVars, wsVars
<1>4. CASE ServerAsks
  BY <1>4 DEF ServerAsks, Requests, Stale, sessVars, netVars
<1> QED
  BY <1>1, <1>2, <1>3, <1>4

LEMMA SessionStep == SessionInv /\ [SessionNext]_fpVars => SessionInv'
<1> SUFFICES ASSUME SessionInv, [SessionNext]_fpVars PROVE SessionInv'
  OBVIOUS
<1>1. CASE WsTask
  BY <1>1, WsTaskKeeps
<1>2. CASE PollTask \/ tx_task_fn \/ event_dispatch \/ WdTask
  BY <1>2, TasksKeep
<1>3. CASE \E j \in Jobs : OtaTask(j)
  BY <1>3, OtaKeeps
<1>4. CASE Wedge \/ DropNoticed \/ ServerReplies \/ ServerAsks
  BY <1>4, NetworkKeeps
<1>5. CASE UNCHANGED fpVars
  BY <1>5 DEF SessionInv, FlagType, InboxType, LinkInv, HelloInv, OfferInv,
     RunsOnlyNegotiated, fpVars, sessVars, wsVars, netVars
<1> QED
  BY <1>1, <1>2, <1>3, <1>4, <1>5 DEF SessionNext

(* fp_session.c: whatever messages are lost, stale or crossed, and         *)
(* whichever connection an OTA job belongs to, the session runs only after *)
(* the hello of its own connection was accepted.                           *)
THEOREM RunsAreNegotiated == SessionSpec => []RunsOnlyNegotiated
<1>1. SessionInit => SessionInv
  BY SessionInvInit
<1>2. SessionInv /\ [SessionNext]_fpVars => SessionInv'
  BY SessionStep
<1>3. SessionInv => RunsOnlyNegotiated
  BY DEF SessionInv
<1> QED
  BY <1>1, <1>2, <1>3, PTL DEF SessionSpec
=============================================================================
