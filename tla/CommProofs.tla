----------------------------- MODULE CommProofs -----------------------------
(***************************************************************************)
(* Two parts of the network side.  CommAdaptation: the parts of the power  *)
(* mode agree outside of a transition, for every set of requesting tasks,  *)
(* queue length and override.  LocalServer: for every number of clients,   *)
(* sockets and buffers and every depth of the queue, nothing stays taken   *)
(* once the sockets are closed and the queue is worked off; a queue with   *)
(* two entries per client and one per buffer is never full, and then no    *)
(* session is taken from under the worker.                                 *)
(***************************************************************************)
EXTENDS CommAdaptation, LocalServer, FiniteSetTheorems, TLAPS

(* Steps of mode_apply, and those that the event task may be in. *)
FirstApply == {"grid1", "gridSet1", "sleep1", "sleepSet1"}
SecondApply == {"grid2", "gridSet2", "sleep2", "sleepSet2"}
ModeSteps == {"pm", "flag1", "flag2", "done"} \cup FirstApply \cup SecondApply
Steps == ModeSteps \cup {"rest", "note", "noteTest", "toHigh", "toLow",
                         "decide", "link", "tick"}
Callers == Tasks \ {"evt"}

ModeTypes ==
    /\ pc \in [Tasks -> Steps]
    /\ pc["evt"] \in FirstApply \cup {"rest"}
    /\ lock \in Callers \cup {"none"}
    /\ low \in BOOLEAN /\ target \in BOOLEAN /\ powerLow \in BOOLEAN
    /\ cpu \in Int

(* The holder of the lock is the task that is in mode_apply. *)
LockInv == \A t \in Callers : lock = t <=> pc[t] \in ModeSteps

ClockOf(b) == IF b THEN 0 ELSE 1

(* How far the holder is: the PM lock follows first, then the flag. *)
HolderInv ==
    \A t \in Callers : pc[t] \in ModeSteps =>
        /\ target = ~low
        /\ pc[t] = "pm" => cpu = ClockOf(low)
        /\ pc[t] # "pm" => cpu = ClockOf(target)
        /\ pc[t] \in {"pm", "flag1"} => powerLow = low
        /\ pc[t] \notin {"pm", "flag1"} => powerLow = target

IInv == ModeTypes /\ LockInv /\ HolderInv /\ ModeIsWhole

(* power_mgmt_init establishes the invariant. *)
LEMMA InitMode == Init => IInv
  <1> SUFFICES ASSUME Init PROVE IInv
    OBVIOUS
  <1>1. low \in BOOLEAN /\ target \in BOOLEAN /\ powerLow \in BOOLEAN
    BY Zenon DEF Init
  <1>2. pc \in [Tasks -> Steps] /\ \A t \in Tasks : pc[t] = "rest"
    BY DEF Init, Steps
  <1>a. low = FALSE /\ powerLow = FALSE
    BY Zenon DEF Init
  <1>b. lock = "none" /\ cpu = 1 /\ cpu \in Int
    BY DEF Init
  <1>c. ModeIsWhole
    BY <1>a, <1>b, Zenon DEF ModeIsWhole
  <1>3. lock = "none" /\ cpu \in Int /\ ModeIsWhole
    BY <1>b, <1>c
  <1>4. ModeTypes
    BY <1>1, <1>2, <1>3 DEF ModeTypes, Tasks
  <1>5. LockInv /\ HolderInv
    BY <1>2, <1>3, CommAssumption DEF LockInv, HolderInv, Callers, Tasks,
       ModeSteps, FirstApply, SecondApply
  <1> QED  BY <1>3, <1>4, <1>5 DEF IInv

(* Mutual exclusion: two tasks are never in mode_apply together. *)
LEMMA OneHolder ==
  ASSUME ModeTypes, LockInv, NEW t \in Callers, NEW u \in Callers,
         pc[t] \in ModeSteps, pc[u] \in ModeSteps
  PROVE  t = u /\ lock = t
  BY DEF LockInv

(* A step of a caller outside of mode_apply. *)
LEMMA OutsideStep ==
  ASSUME IInv, NEW t \in Callers, NEW s \in Steps \ ModeSteps,
         pc[t] \notin ModeSteps, pc' = [pc EXCEPT ![t] = s],
         UNCHANGED <<lock, target, low, cpu, powerLow>>
  PROVE  IInv'
  <1>1. ModeTypes'
    BY DEF IInv, ModeTypes, Callers, Tasks
  <1>2. LockInv' /\ HolderInv'
    BY DEF IInv, ModeTypes, LockInv, HolderInv, Callers, ClockOf
  <1>3. ModeIsWhole'
    BY DEF IInv, ModeIsWhole
  <1> QED  BY <1>1, <1>2, <1>3 DEF IInv

(* Taking the lock for a transition. *)
LEMMA EnterStep ==
  ASSUME IInv, NEW t \in Callers, TakeLock(t), lock' = t
  PROVE  IInv'
  <1>1. /\ pc[t] \in {"toHigh", "toLow"} /\ lock = "none"
        /\ pc' = [pc EXCEPT ![t] = "pm"]
        /\ UNCHANGED <<low, cpu, powerLow>>
    BY CommAssumption DEF TakeLock, Go, mode, switches, Callers, Tasks
  <1>2. target' = (pc[t] = "toLow") /\ low = (pc[t] = "toHigh")
    BY CommAssumption DEF TakeLock, Callers, Tasks
  <1>3. target' \in BOOLEAN /\ target' = ~low
    BY <1>1, <1>2
  <1>4. ModeTypes'
    BY <1>1, <1>3 DEF IInv, ModeTypes, Callers, Tasks, Steps, ModeSteps
  <1>5. \A u \in Callers : pc[u] \notin ModeSteps
    BY <1>1, CommAssumption DEF IInv, LockInv, Callers, Tasks
  <1>6. \A u \in Callers : pc'[u] = IF u = t THEN "pm" ELSE pc[u]
    BY <1>1 DEF IInv, ModeTypes, Callers, Tasks
  <1>7. LockInv'
    BY <1>5, <1>6 DEF LockInv, ModeSteps
  <1>8. HolderInv'
    BY <1>1, <1>3, <1>5, <1>6 DEF IInv, HolderInv, ModeIsWhole, ClockOf
  <1>9. ModeIsWhole'
    BY CommAssumption DEF ModeIsWhole, Callers, Tasks
  <1> QED  BY <1>4, <1>7, <1>8, <1>9 DEF IInv

(* A step of the holder that stays in mode_apply keeps the lock. *)
LEMMA HolderStep ==
  ASSUME IInv, NEW t \in Callers, NEW s \in ModeSteps,
         pc[t] \in ModeSteps, pc' = [pc EXCEPT ![t] = s],
         UNCHANGED <<lock, target, low>>,
         cpu' \in Int, powerLow' \in BOOLEAN,
         s # "pm", cpu' = ClockOf(target),
         s = "flag1" => powerLow' = low, s # "flag1" => powerLow' = target
  PROVE  IInv'
  <1>1. ModeTypes'
    BY DEF IInv, ModeTypes, Callers, Tasks, Steps
  <1>2. /\ lock = t /\ target = ~low
        /\ \A u \in Callers : u # t => pc[u] \notin ModeSteps
    BY OneHolder DEF IInv, LockInv, HolderInv
  <1>3. \A u \in Callers : pc'[u] = IF u = t THEN s ELSE pc[u]
    BY DEF IInv, ModeTypes, Callers, Tasks
  <1>4. LockInv'
    BY <1>2, <1>3 DEF IInv, LockInv
  <1>5. HolderInv'
    BY <1>2, <1>3 DEF HolderInv, ClockOf
  <1>6. ModeIsWhole'
    BY <1>2, CommAssumption DEF ModeIsWhole, Callers, Tasks
  <1> QED  BY <1>1, <1>4, <1>5, <1>6 DEF IInv

(* The end of a transition: the mode is stored and the lock given. *)
LEMMA LeaveStep ==
  ASSUME IInv, NEW t \in Callers, ModeDone(t)
  PROVE  IInv'
  <1>1. /\ pc[t] = "done" /\ lock' = "none" /\ low' = target
        /\ pc' = [pc EXCEPT ![t] = Return(t)]
        /\ UNCHANGED <<target, cpu, powerLow>>
    BY DEF ModeDone, Go, switches
  <1>2. Return(t) \in {"link", "rest"}
    BY DEF Return
  <1>3. /\ lock = t /\ cpu = ClockOf(target) /\ powerLow = target
        /\ \A u \in Callers : u # t => pc[u] \notin ModeSteps
    BY <1>1, OneHolder DEF IInv, LockInv, HolderInv, ModeSteps
  <1>4. ModeTypes'
    BY <1>1, <1>2 DEF IInv, ModeTypes, Callers, Tasks, Steps
  <1>5. \A u \in Callers : pc'[u] \notin ModeSteps
    BY <1>1, <1>2, <1>3 DEF IInv, ModeTypes, Callers, Tasks, ModeSteps,
       FirstApply, SecondApply
  <1>6. LockInv' /\ HolderInv'
    BY <1>1, <1>5, CommAssumption DEF LockInv, HolderInv, Callers, Tasks
  <1>7. ModeIsWhole'
    BY <1>1, <1>3 DEF ModeIsWhole, ClockOf
  <1> QED  BY <1>4, <1>6, <1>7 DEF IInv

(* The event task does not touch the mode. *)
LEMMA EventStep ==
  ASSUME IInv, NEW s \in FirstApply \cup {"rest"},
         pc' = [pc EXCEPT !["evt"] = s],
         UNCHANGED <<lock, target, low, cpu, powerLow>>
  PROVE  IInv'
  <1>1. ModeTypes'
    BY DEF IInv, ModeTypes, Callers, Tasks, Steps, ModeSteps
  <1>2. \A t \in Callers : pc'[t] = pc[t]
    BY DEF IInv, ModeTypes, Callers, Tasks
  <1>3. LockInv' /\ HolderInv' /\ ModeIsWhole'
    BY <1>2 DEF IInv, LockInv, HolderInv, ModeIsWhole
  <1> QED  BY <1>1, <1>3 DEF IInv

(* A caller in mode_apply. *)
LEMMA ModeApplyStep ==
  ASSUME IInv, NEW t \in Callers, ModeApply(t)
  PROVE  IInv'
  <1>0. t # "evt" /\ t \in Tasks
    BY DEF Callers
  <1>1. CASE PmLock(t)
    <2>1. /\ pc[t] = "pm" /\ pc' = [pc EXCEPT ![t] = "flag1"]
          /\ UNCHANGED <<lock, target, low, powerLow>>
          /\ cpu' = IF target THEN cpu - 1 ELSE cpu + 1
      BY <1>1 DEF PmLock, Go, switches
    <2>2. target = ~low /\ cpu = ClockOf(low) /\ powerLow = low
      BY <2>1 DEF IInv, HolderInv, ModeSteps
    <2>a. (low => ~target) /\ (~low => target)
      BY <2>2, Zenon DEF IInv, ModeTypes
    <2>b. ASSUME low PROVE cpu' \in Int /\ cpu' = ClockOf(target)
      <3>1. cpu = 0 /\ ~target
        BY <2>2, <2>a, <2>b DEF ClockOf
      <3>2. cpu' = 1
        BY <2>1, <3>1
      <3> QED  BY <3>1, <3>2 DEF ClockOf
    <2>c. ASSUME ~low PROVE cpu' \in Int /\ cpu' = ClockOf(target)
      <3>1. cpu = 1 /\ target
        BY <2>2, <2>a, <2>c DEF ClockOf
      <3>2. cpu' = 0
        BY <2>1, <3>1
      <3> QED  BY <3>1, <3>2 DEF ClockOf
    <2>3. cpu' \in Int /\ cpu' = ClockOf(target)
      BY <2>b, <2>c
    <2> QED
      BY <2>1, <2>2, <2>3, HolderStep DEF IInv, ModeTypes, ModeSteps
  <1>2. CASE Provider(t)
    <2>1. PICK s \in {"grid1", "grid2"} : pc' = [pc EXCEPT ![t] = s]
      BY <1>2 DEF Provider, Go
    <2>2. /\ pc[t] \in {"flag1", "flag2"} /\ powerLow' = target
          /\ UNCHANGED <<lock, target, low, cpu>>
      BY <1>2 DEF Provider, mode
    <2>3. cpu = ClockOf(target)
      BY <2>2 DEF IInv, HolderInv, ModeSteps
    <2> QED
      BY <2>1, <2>2, <2>3, HolderStep DEF IInv, ModeTypes, ModeSteps,
         FirstApply, SecondApply
  <1>3. CASE ApplySwitches(t)
    <2>1. PICK s \in SecondApply \cup FirstApply \cup {"flag2", "done"} :
            s # "pm" /\ s # "flag1" /\ pc' = [pc EXCEPT ![t] = s]
      BY <1>3, <1>0 DEF ApplySwitches, comm_adaptation_apply, AfterApply, Go,
         FirstApply, SecondApply
    <2>2. /\ pc[t] \in FirstApply \cup SecondApply
          /\ UNCHANGED <<lock, target, low, cpu, powerLow>>
      BY <1>3 DEF ApplySwitches, comm_adaptation_apply, FirstApply, SecondApply,
         mode, switches
    <2>3. cpu = ClockOf(target) /\ powerLow = target
      BY <2>2 DEF IInv, HolderInv, ModeSteps, FirstApply, SecondApply
    <2> QED
      BY <2>1, <2>2, <2>3, HolderStep DEF IInv, ModeTypes, ModeSteps
  <1>4. CASE ModeDone(t)
    BY <1>4, LeaveStep
  <1> QED  BY <1>1, <1>2, <1>3, <1>4 DEF ModeApply

(* A caller in power_mgmt_activity_note. *)
LEMMA NoteStep ==
  ASSUME IInv, NEW t \in Callers, NoteStart(t) \/ Note(t)
  PROVE  IInv'
  <1>0. Return(t) \in {"link", "rest"}
    BY DEF Return
  <1>1. CASE NoteStart(t) \/ NoteTest(t)
    <2>1. PICK s \in {"noteTest", "toHigh", "link", "rest"} :
            pc' = [pc EXCEPT ![t] = s]
      BY <1>0, <1>1 DEF NoteStart, NoteTest, Go
    <2>2. /\ pc[t] \in {"rest", "note", "noteTest"}
          /\ UNCHANGED <<lock, target, low, cpu, powerLow>>
      BY <1>1 DEF NoteStart, NoteTest, mode, switches
    <2> QED
      BY <2>1, <2>2, OutsideStep DEF Steps, ModeSteps, FirstApply, SecondApply
  <1>2. CASE TakeLock(t) /\ lock' = t
    BY <1>2, EnterStep
  <1>3. CASE TakeLock(t) /\ lock' # t
    <2>1. /\ pc[t] \in {"toHigh", "toLow"}
          /\ pc' = [pc EXCEPT ![t] = Return(t)]
          /\ UNCHANGED <<lock, target, low, cpu, powerLow>>
      BY <1>3 DEF TakeLock, Go, mode, switches
    <2> QED
      BY <1>0, <2>1, OutsideStep DEF Steps, ModeSteps, FirstApply, SecondApply
  <1> QED  BY <1>1, <1>2, <1>3 DEF Note

(* Every step keeps the invariant. *)
LEMMA StepMode == IInv /\ [Next]_vars => IInv'
  <1> SUFFICES ASSUME IInv, [Next]_vars PROVE IInv'
    OBVIOUS
  <1>0. "mon" \in Callers /\ \A t \in Requesters : t \in Callers
    BY CommAssumption DEF Callers, Tasks
  <1>1. CASE TickProbe \/ TickDecide \/ link_quality_tick \/ MonitorTick
    <2>1. PICK s \in {"decide", "note", "toLow", "link", "tick", "rest"} :
            pc' = [pc EXCEPT !["mon"] = s]
      BY <1>1 DEF TickProbe, TickDecide, link_quality_tick, MonitorTick, Go
    <2>2. /\ pc["mon"] \in {"rest", "decide", "link", "tick"}
          /\ UNCHANGED <<lock, target, low, cpu, powerLow>>
      BY <1>1 DEF TickProbe, TickDecide, link_quality_tick, MonitorTick, mode, switches
    <2> QED
      BY <1>0, <2>1, <2>2, OutsideStep DEF Steps, ModeSteps, FirstApply,
         SecondApply
  <1>2. CASE NoteStart("mon") \/ Note("mon")
    BY <1>0, <1>2, NoteStep
  <1>3. CASE ModeApply("mon")
    BY <1>0, <1>3, ModeApplyStep
  <1>4. CASE \E t \in Requesters : NoteStart(t) \/ Note(t) \/ ModeApply(t)
    BY <1>0, <1>4, NoteStep, ModeApplyStep
  <1>5. CASE Dispatch
    <2>1. UNCHANGED <<lock, target, low, cpu, powerLow>>
      BY <1>5 DEF Dispatch, mode
    <2>2. pc' = pc \/ pc' = [pc EXCEPT !["evt"] = "grid1"]
      BY <1>5 DEF Dispatch, Go
    <2>3. CASE pc' = pc
      BY <2>1, <2>3 DEF IInv, ModeTypes, LockInv, HolderInv, ModeIsWhole
    <2> QED
      BY <2>1, <2>2, <2>3, EventStep DEF FirstApply
  <1>6. CASE ApplySwitches("evt")
    <2>1. pc["evt"] \in FirstApply \cup {"rest"}
      BY DEF IInv, ModeTypes
    <2>2. PICK s \in FirstApply \cup {"rest"} : pc' = [pc EXCEPT !["evt"] = s]
      BY <1>6, <2>1 DEF ApplySwitches, comm_adaptation_apply, AfterApply, Go,
         FirstApply
    <2>3. UNCHANGED <<lock, target, low, cpu, powerLow>>
      BY <1>6 DEF ApplySwitches, comm_adaptation_apply, mode, switches
    <2> QED  BY <2>2, <2>3, EventStep
  <1>7. CASE IdleElapses \/ PumpToggles \/ SessionToggles
    <2>1. UNCHANGED <<pc, lock, target, low, cpu, powerLow>>
      BY <1>7 DEF IdleElapses, PumpToggles, SessionToggles, mode, switches
    <2> QED
      BY <2>1 DEF IInv, ModeTypes, LockInv, HolderInv, ModeIsWhole
  <1>8. CASE UNCHANGED vars
    BY <1>8 DEF vars, mode, switches, IInv, ModeTypes, LockInv, HolderInv,
       ModeIsWhole
  <1> QED
    BY <1>1, <1>2, <1>3, <1>4, <1>5, <1>6, <1>7, <1>8 DEF Next, Monitor

(* power_mgmt.c with any number of tasks that note activity: whenever no   *)
(* transition is under way, the PM lock, the flag of main.c and the mode   *)
(* agree.  Two tests of s_bLow, one before and one under the mutex, are    *)
(* what makes HolderInv hold.                                              *)
THEOREM ModeStaysWhole == Spec => []ModeIsWhole
  <1>1. IInv => ModeIsWhole
    BY DEF IInv
  <1> QED  BY <1>1, InitMode, StepMode, PTL DEF Spec

-----------------------------------------------------------------------------
(***************************************************************************)
(* The local maintenance server (LocalServer).                             *)
(***************************************************************************)

(* Where the frames are in the queue of descriptors. *)
FramesIn(q) == {i \in 1 .. Len(q) : q[i].kind = "frame"}

(* Every buffer is free, with a frame in the queue, or in the worker's hands. *)
Handled == IF wk.d.kind = "frame" THEN 1 ELSE 0
BuffersInv == Cardinality(FramesIn(rxq)) + free + Handled = shape.pool

(* The table: a connection has at most one entry and one socket, and a     *)
(* socket in use has an entry that is not closing.                         *)
TableInv ==
  /\ \A s \in Slots : /\ sessions[s].active <=> sessions[s].conn # 0
                      /\ sessions[s].active => sessions[s].fd # 0
                      /\ sessions[s].conn <= conns
  /\ \A s, t \in Slots :
       sessions[s].active /\ sessions[s].conn = sessions[t].conn => s = t
  /\ \A f \in Fds : sock[f] # 0 =>
       \E s \in Slots : sessions[s].conn = sock[f] /\ sessions[s].state # "closing"
  /\ \A f, g \in Fds : sock[f] # 0 /\ sock[f] = sock[g] => f = g

Owned(d) == sessions[d.slot].active /\ sessions[d.slot].conn = d.conn

(* The queue: an open and a close belong to the session they were made     *)
(* for, and of one slot there is at most an open and, behind it, a close.  *)
QueueInv ==
  /\ \A i \in 1 .. Len(rxq) :
       /\ rxq[i].kind # "none"
       /\ rxq[i].kind # "frame" => Owned(rxq[i])
       /\ rxq[i].kind = "close" => sessions[rxq[i].slot].state = "closing"
  /\ \A i, j \in 1 .. Len(rxq) :
       i < j /\ rxq[i].slot = rxq[j].slot
         /\ rxq[i].kind # "frame" /\ rxq[j].kind # "frame" =>
       rxq[i].kind = "open" /\ rxq[j].kind = "close"

(* The worker: what it found alive is still the session it looked at, and  *)
(* a close it handles is the last of its slot.                             *)
WorkerInv ==
  /\ wk.live => Owned(wk.d)
  /\ wk.d.kind = "close" =>
       /\ wk.live /\ sessions[wk.d.slot].state = "closing"
       /\ \A i \in 1 .. Len(rxq) :
            rxq[i].slot = wk.d.slot => rxq[i].kind = "frame"

(* The types of the variables the queue and its users share. *)
Entries == [active : BOOLEAN, conn : Nat, fd : 0 .. Sockets,
            state : {"free", "connected", "running", "closing"},
            strikes : 0 .. Strikes, idle : BOOLEAN]
TableTypes ==
  /\ shape \in Shapes
  /\ sock \in [Fds -> Nat] /\ sessions \in [Slots -> Entries]
  /\ conns \in 0 .. shape.conns /\ free \in Nat /\ dropped \in BOOLEAN
  /\ rxq \in Seq(Descs) /\ wk \in [d : Descs, live : BOOLEAN]
  /\ work \in Seq([kind : {"tx", "close"}, fd : Fds])

(* A close: it is for a session that still has its entry and waits for it. *)
Ends(d) == d.kind = "close" => Owned(d) /\ sessions[d.slot].state = "closing"
ClosesInv ==
  /\ \A i \in 1 .. Len(rxq) : Ends(rxq[i])
  /\ \A i, j \in 1 .. Len(rxq) :
       i # j /\ rxq[i].kind = "close" /\ rxq[j].kind = "close" =>
       rxq[i].slot # rxq[j].slot
  /\ Ends(wk.d)
  /\ wk.d.kind = "close" =>
       /\ wk.live
       /\ \A i \in 1 .. Len(rxq) : rxq[i].kind = "close" => rxq[i].slot # wk.d.slot

(* The semaphore counts the free entries of the table. *)
Busy == {s \in Slots : sessions[s].active}
SlotsInv == slots \in Nat /\ Cardinality(Busy) + slots = N

(* Somebody will free an active entry: its socket is open, or its close is *)
(* in the queue or with the worker.                                        *)
CloseAhead(s) ==
  \/ wk.d.kind = "close" /\ wk.d.slot = s
  \/ \E i \in 1 .. Len(rxq) : rxq[i].kind = "close" /\ rxq[i].slot = s
Held(s) == (\E f \in Fds : sock[f] = sessions[s].conn) \/ CloseAhead(s)
FreedInv == \A s \in Slots : sessions[s].active => Held(s)

(* What the worker is about to hand to httpd; a close is never left so. *)
Outs == [kind : {"none", "hello", "tx", "close"}, slot : Slots, fd : 0 .. Sockets]
OutInv == out \in Outs /\ (wk.d.kind = "close" => out = NoOut)

(* What holds for every depth of the queue, and what for one that is enough. *)
BaseInv ==
  /\ TableTypes /\ BuffersInv /\ TableInv
  /\ ClosesInv /\ SlotsInv /\ FreedInv
ServerInv == BaseInv /\ QueueInv /\ WorkerInv /\ ~ dropped

(* A server without sockets whose queue and worker are empty has           *)
(* everything back: every slot of the semaphore, every entry of the table  *)
(* and every buffer (on_sess_free, session_cleanup, local_buffer_release). *)
QuietIsClean ==
  rxq = <<>> /\ wk = Idle /\ (\A f \in Fds : sock[f] = 0) => Clean

(* A sequence over a set is one over a larger set. *)
LEMMA SeqSubset ==
  ASSUME NEW S, NEW T, NEW q \in Seq(S),
         \A i \in 1 .. Len(q) : q[i] \in T
  PROVE  q \in Seq(T)
<1>1. q \in [1 .. Len(q) -> T] /\ Len(q) \in Nat
  OBVIOUS
<1> QED  BY <1>1

-----------------------------------------------------------------------------
(* Counting descriptors. *)

Kinds == {"none", "open", "frame", "close"}
AnyDescs == [kind : Kinds, slot : Nat, conn : Nat]

LEMMA FramesFinite ==
  ASSUME NEW q \in Seq(AnyDescs)
  PROVE  /\ IsFiniteSet(FramesIn(q)) /\ Cardinality(FramesIn(q)) \in Nat
         /\ FramesIn(q) \subseteq 1 .. Len(q)
<1>1. IsFiniteSet(1 .. Len(q))
  BY FS_Interval
<1>2. FramesIn(q) \in SUBSET (1 .. Len(q))
  BY DEF FramesIn
<1>3. IsFiniteSet(FramesIn(q))
  BY <1>1, <1>2, FS_Subset
<1> QED  BY <1>2, <1>3, FS_CardinalityType

(* A frame is one more at the end of the queue, one less at its head. *)
LEMMA FramesAppend ==
  ASSUME NEW q \in Seq(AnyDescs), NEW d \in AnyDescs
  PROVE  Cardinality(FramesIn(Append(q, d))) =
           Cardinality(FramesIn(q)) + (IF d.kind = "frame" THEN 1 ELSE 0)
<1>1. /\ Len(Append(q, d)) = Len(q) + 1 /\ Len(q) \in Nat
      /\ Append(q, d)[Len(q) + 1] = d
      /\ \A i \in 1 .. Len(q) : Append(q, d)[i] = q[i]
  OBVIOUS
<1>2. CASE d.kind = "frame"
  <2>1. FramesIn(Append(q, d)) = FramesIn(q) \cup {Len(q) + 1}
    BY <1>1, <1>2 DEF FramesIn
  <2>2. Len(q) + 1 \notin FramesIn(q)
    BY <1>1 DEF FramesIn
  <2> QED  BY <2>1, <2>2, <1>2, FramesFinite, FS_AddElement
<1>3. CASE d.kind # "frame"
  <2>1. FramesIn(Append(q, d)) = FramesIn(q)
    BY <1>1, <1>3 DEF FramesIn
  <2> QED  BY <2>1, <1>3, FramesFinite
<1> QED  BY <1>2, <1>3

LEMMA FramesTail ==
  ASSUME NEW q \in Seq(AnyDescs), q # <<>>
  PROVE  Cardinality(FramesIn(q)) =
           Cardinality(FramesIn(Tail(q)))
             + (IF Head(q).kind = "frame" THEN 1 ELSE 0)
<1> DEFINE S == FramesIn(q) \ {1}  T == FramesIn(Tail(q))
           f == [i \in S |-> i - 1]
<1>1. /\ Len(q) \in Nat \ {0} /\ Len(Tail(q)) = Len(q) - 1 /\ Head(q) = q[1]
      /\ Tail(q) \in Seq(AnyDescs)
      /\ \A i \in 1 .. Len(q) - 1 : Tail(q)[i] = q[i + 1]
  OBVIOUS
<1>2. S = {i \in 2 .. Len(q) : q[i].kind = "frame"}
  BY <1>1 DEF FramesIn
<1>3. T = {i \in 1 .. Len(q) - 1 : q[i + 1].kind = "frame"}
  BY <1>1 DEF FramesIn
<1> HIDE DEF S, T
<1>4. f \in [S -> T]
  BY <1>1, <1>2, <1>3
<1>5. \A i, j \in S : f[i] = f[j] => i = j
  BY <1>2
<1>6. \A k \in T : k + 1 \in S /\ f[k + 1] = k
  BY <1>1, <1>2, <1>3
<1> HIDE DEF f
<1>7. f \in Bijection(S, T)
  BY <1>4, <1>5, <1>6 DEF Bijection, Injection, Surjection, IsInjective
<1>8. ExistsBijection(S, T)
  BY <1>7 DEF ExistsBijection
<1>9. /\ IsFiniteSet(S)
      /\ Cardinality(S) = IF 1 \in FramesIn(q) THEN Cardinality(FramesIn(q)) - 1
                          ELSE Cardinality(FramesIn(q))
  BY FramesFinite, FS_RemoveElement DEF S
<1>10. Cardinality(T) = Cardinality(S)
  BY <1>8, <1>9, FS_Bijection
<1>11. 1 \in FramesIn(q) <=> Head(q).kind = "frame"
  BY <1>1 DEF FramesIn
<1> QED
  BY <1>9, <1>10, <1>11, FramesFinite DEF T

(* The others: of one slot there is at most an open and a close, so they   *)
(* are no more than the codes they can have.                               *)
Code(n, d) == IF d.kind = "open" THEN d.slot ELSE n + d.slot

LEMMA LengthBound ==
  ASSUME NEW q \in Seq(AnyDescs), NEW n \in Nat, NEW C \in SUBSET (1 .. 2 * n),
         \A i \in 1 .. Len(q) : q[i].kind # "frame" =>
            q[i].kind \in {"open", "close"} /\ q[i].slot \in 1 .. n
              /\ Code(n, q[i]) \in C,
         \A i, j \in 1 .. Len(q) :
            i < j /\ q[i].slot = q[j].slot
              /\ q[i].kind # "frame" /\ q[j].kind # "frame" =>
            q[i].kind = "open" /\ q[j].kind = "close"
  PROVE  IsFiniteSet(C) /\ Len(q) <= Cardinality(FramesIn(q)) + Cardinality(C)
<1> DEFINE S == (1 .. Len(q)) \ FramesIn(q)
           f == [i \in S |-> Code(n, q[i])]
<1>0. Len(q) \in Nat
  OBVIOUS
<1>1. S = {i \in 1 .. Len(q) : q[i].kind # "frame"}
  BY DEF FramesIn
<1>2. IsFiniteSet(C) /\ Cardinality(C) \in Nat
  <2>0. 1 \in Int /\ 2 * n \in Int
    OBVIOUS
  <2>1. IsFiniteSet(1 .. 2 * n)
    BY <2>0, FS_Interval
  <2> QED  BY <2>1, FS_Subset, FS_CardinalityType
<1>3. /\ IsFiniteSet(S) /\ Cardinality(S) \in Nat
      /\ Cardinality(S) = Len(q) - Cardinality(FramesIn(q))
  <2>1. IsFiniteSet(1 .. Len(q)) /\ Cardinality(1 .. Len(q)) = Len(q)
    <3> DEFINE l == Len(q)
    <3>1. 1 \in Int /\ l \in Int /\ l \in Nat
      BY <1>0
    <3> HIDE DEF l
    <3>2. /\ IsFiniteSet(1 .. l)
          /\ Cardinality(1 .. l) = IF 1 > l THEN 0 ELSE l - 1 + 1
      BY <3>1, FS_Interval
    <3>3. (IF 1 > l THEN 0 ELSE l - 1 + 1) = l
      BY <3>1
    <3>4. IsFiniteSet(1 .. l) /\ Cardinality(1 .. l) = l
      BY <3>2, <3>3
    <3> QED  BY <3>4 DEF l
  <2>2. (1 .. Len(q)) \cap FramesIn(q) = FramesIn(q)
    BY FramesFinite
  <2> HIDE DEF S
  <2>a. /\ IsFiniteSet((1 .. Len(q)) \ FramesIn(q))
        /\ Cardinality((1 .. Len(q)) \ FramesIn(q)) =
             Cardinality(1 .. Len(q)) - Cardinality((1 .. Len(q)) \cap FramesIn(q))
    BY <2>1, FS_Difference
  <2>3. IsFiniteSet(S) /\ Cardinality(S) = Len(q) - Cardinality(FramesIn(q))
    BY <2>1, <2>2, <2>a DEF S
  <2> QED  BY <2>3, FS_CardinalityType
<1> HIDE DEF S
<1>4. f \in [S -> C]
  BY <1>1
<1>5. ASSUME NEW i \in S, NEW j \in S, f[i] = f[j] PROVE i = j
  <2>1. /\ q[i].slot \in 1 .. n /\ q[j].slot \in 1 .. n
        /\ q[i].kind \in {"open", "close"} /\ q[j].kind \in {"open", "close"}
        /\ Code(n, q[i]) = Code(n, q[j]) /\ i \in 1 .. Len(q) /\ j \in 1 .. Len(q)
    BY <1>1, <1>5
  <2>2. q[i].slot = q[j].slot /\ q[i].kind = q[j].kind
    BY <2>1 DEF Code
  <2>3. ~ (i < j) /\ ~ (j < i)
    BY <2>1, <2>2
  <2> QED  BY <2>1, <2>3
<1> HIDE DEF f
<1>6. f \in Injection(S, C)
  BY <1>4, <1>5 DEF Injection, IsInjective
<1>7. Cardinality(S) <= Cardinality(C)
  BY <1>2, <1>6, FS_Injection
<1> QED  BY <1>0, <1>2, <1>3, <1>7, FramesFinite

-----------------------------------------------------------------------------
(* What the types of the table give the other proofs. *)

LEMMA ShapeTypes ==
  ASSUME TableTypes
  PROVE  /\ shape \in Shapes /\ N \in Nat \ {0}
         /\ shape.pool \in Nat \ {0} /\ shape.depth \in Nat \ {0}
         /\ rxq \in Seq(AnyDescs)
         /\ \A i \in 1 .. Len(rxq) : rxq[i] \in Descs
         /\ shape.conns \in Nat /\ conns \in Nat
<1>1. /\ shape \in Shapes /\ N \in Nat \ {0}
      /\ shape.pool \in Nat \ {0} /\ shape.depth \in Nat \ {0}
      /\ shape.conns \in Nat /\ conns \in Nat
  BY ServerAssumption DEF TableTypes, N
<1>2. \A d \in Descs : d \in AnyDescs
  BY <1>1 DEF Descs, AnyDescs, Kinds, Slots
<1>3. rxq \in Seq(Descs)
  BY DEF TableTypes
<1>4. \A i \in 1 .. Len(rxq) : rxq[i] \in Descs
  BY <1>3
<1>5. rxq \in Seq(AnyDescs)
  BY <1>2, <1>3, <1>4, SeqSubset
<1> QED  BY <1>1, <1>4, <1>5

-----------------------------------------------------------------------------
(* Steps that leave the queue alone. *)

(* What the worker queues for httpd. *)
Works == [kind : {"tx", "close"}, fd : Fds]

(* The build is fixed. *)
LEMMA ShapeKept ==
  ASSUME UNCHANGED shape
  PROVE  N' = N /\ Slots' = Slots /\ Descs' = Descs
  BY DEF N, Slots, Descs

LEMMA TypesKept ==
  ASSUME TableTypes, UNCHANGED shape,
         sock' \in [Fds -> Nat], sessions' \in [Slots -> Entries],
         conns' \in 0 .. shape.conns, free' \in Nat, rxq' \in Seq(Descs),
         wk' \in [d : Descs, live : BOOLEAN], work' \in Seq(Works),
         dropped' \in BOOLEAN
  PROVE  TableTypes'
  BY ShapeKept DEF TableTypes, Works

(* The step leaves of every entry what the invariant looks at. *)
Alike ==
  \A s \in Slots :
    /\ sessions'[s].active <=> sessions[s].active
    /\ sessions'[s].conn = sessions[s].conn
    /\ sessions'[s].fd = sessions[s].fd
    /\ sessions'[s].state = "closing" <=> sessions[s].state = "closing"

LEMMA TableAlike ==
  ASSUME TableInv, Alike, UNCHANGED <<shape, sock, conns>>
  PROVE  TableInv'
<1>1. Slots' = Slots
  BY ShapeKept
<1> QED
  BY <1>1 DEF TableInv, Alike

(* Slots and holders of a step that lets sockets, slots and the use of     *)
(* every entry be and takes no close away.                                 *)
LEMMA SlotsAside ==
  ASSUME SlotsInv, FreedInv, Alike, UNCHANGED <<shape, sock, slots>>,
         \A s \in Slots : CloseAhead(s) => CloseAhead(s)'
  PROVE  SlotsInv' /\ FreedInv'
<1>1. Slots' = Slots /\ N' = N
  BY ShapeKept
<1>2. Busy' = Busy
  BY <1>1 DEF Busy, Alike
<1>3. SlotsInv'
  BY <1>1, <1>2 DEF SlotsInv
<1>4. ASSUME NEW s \in Slots, sessions'[s].active
      PROVE  Held(s)'
  <2>1. sessions[s].active /\ sessions'[s].conn = sessions[s].conn
    BY <1>4 DEF Alike
  <2>2. Held(s)
    BY <2>1 DEF FreedInv
  <2> QED  BY <2>1, <2>2 DEF Held
<1> QED  BY <1>1, <1>3, <1>4 DEF FreedInv

(* A step that only notes something in the table or in the work of httpd. *)
LEMMA BaseAside ==
  ASSUME BaseInv, Alike, sessions' \in [Slots -> Entries],
         work' \in Seq(Works),
         UNCHANGED <<shape, sock, conns, slots, rxq, free, wk, dropped>>
  PROVE  BaseInv'
<1>1. TableTypes /\ TableInv /\ SlotsInv /\ FreedInv /\ BuffersInv /\ ClosesInv
  BY DEF BaseInv
<1>2. TableTypes'
  BY <1>1, TypesKept DEF TableTypes
<1>3. TableInv'
  BY <1>1, TableAlike
<1>4. BuffersInv'
  BY <1>1 DEF BuffersInv, Handled
<1>5. ClosesInv'
  <2>1. wk.d.slot \in Slots /\ \A i \in 1 .. Len(rxq) : rxq[i].slot \in Slots
    BY <1>1, ShapeTypes DEF TableTypes, Descs
  <2> QED  BY <1>1, <2>1 DEF ClosesInv, Ends, Owned, Alike
<1>6. \A s \in Slots : CloseAhead(s) => CloseAhead(s)'
  BY DEF CloseAhead
<1>7. SlotsInv' /\ FreedInv'
  BY <1>1, <1>6, SlotsAside
<1> QED  BY <1>2, <1>3, <1>4, <1>5, <1>7 DEF BaseInv

(* What the worker asks of httpd names a socket. *)
LEMMA WorkKept ==
  ASSUME TableTypes, NEW k \in {"tx", "close"}, NEW f \in 0 .. Sockets,
         Queue(k, f) \/ UNCHANGED work
  PROVE  work' \in Seq(Works)
<1>1. work \in Seq(Works)
  BY DEF TableTypes, Works
<1>2. f # 0 => [kind |-> k, fd |-> f] \in Works
  BY ServerAssumption DEF Works, Fds
<1>3. work' = work \/ (f # 0 /\ work' = Append(work, [kind |-> k, fd |-> f]))
  BY DEF Queue
<1> QED  BY <1>1, <1>2, <1>3

(* The entries in use are finitely many. *)
LEMMA BusyFinite ==
  ASSUME TableTypes
  PROVE  IsFiniteSet(Busy) /\ Cardinality(Busy) \in Nat /\ N \in Nat
<1>1. N \in Nat
  BY ShapeTypes
<1>2. IsFiniteSet(1 .. N)
  BY <1>1, FS_Interval
<1>3. Busy \subseteq 1 .. N
  BY DEF Busy, Slots
<1>4. IsFiniteSet(Busy)
  BY <1>2, <1>3, FS_Subset
<1> QED  BY <1>1, <1>4, FS_CardinalityType

(* session_cleanup of a session whose socket is gone, with its slot. *)
LEMMA EntryWiped ==
  ASSUME TableTypes, TableInv, SlotsInv, NEW s \in Slots, sessions[s].active,
         sessions' = Cleaned(s), slots' = slots + 1, UNCHANGED <<shape, conns>>,
         \A g \in Fds : sock'[g] # 0 =>
           sock'[g] = sock[g] /\ sock[g] # sessions[s].conn
  PROVE  /\ sessions' \in [Slots -> Entries] /\ TableInv' /\ SlotsInv'
         /\ \A t \in Slots : t # s => sessions'[t] = sessions[t]
         /\ ~ sessions'[s].active
<1>1. Free \in Entries /\ ~ Free.active /\ Free.conn = 0
  BY ServerAssumption DEF Free, Entries
<1>2. sessions \in [Slots -> Entries] /\ conns \in Nat
  BY ShapeTypes DEF TableTypes
<1>3. /\ sessions' \in [Slots -> Entries]
      /\ \A t \in Slots : t # s => sessions'[t] = sessions[t]
      /\ ~ sessions'[s].active /\ sessions'[s].conn = 0
  BY <1>1, <1>2 DEF Cleaned
<1>4. Slots' = Slots /\ N' = N
  BY ShapeKept
<1>5. TableInv'
  <2>1. /\ \A t \in Slots : /\ sessions[t].active <=> sessions[t].conn # 0
                            /\ sessions[t].active => sessions[t].fd # 0
                            /\ sessions[t].conn <= conns
        /\ \A t, u \in Slots :
             sessions[t].active /\ sessions[t].conn = sessions[u].conn => t = u
        /\ \A g, h \in Fds : sock[g] # 0 /\ sock[g] = sock[h] => g = h
    BY DEF TableInv
  <2>2. ASSUME NEW g \in Fds, sock'[g] # 0
        PROVE  \E t \in Slots : /\ sessions'[t].conn = sock'[g]
                                /\ sessions'[t].state # "closing"
    <3>1. PICK t \in Slots : /\ sessions[t].conn = sock[g]
                             /\ sessions[t].state # "closing"
      BY <2>2 DEF TableInv
    <3>2. t # s
      BY <2>2, <3>1
    <3> QED  BY <2>2, <3>1, <3>2, <1>3
  <2>3. \A g, h \in Fds : sock'[g] # 0 /\ sock'[g] = sock'[h] => g = h
    BY <2>1
  <2>4. \A t \in Slots : /\ sessions'[t].active <=> sessions'[t].conn # 0
                         /\ sessions'[t].active => sessions'[t].fd # 0
                         /\ sessions'[t].conn <= conns'
    BY <2>1, <1>2, <1>3
  <2>5. \A t, u \in Slots :
          sessions'[t].active /\ sessions'[t].conn = sessions'[u].conn => t = u
    BY <2>1, <1>3
  <2> QED  BY <1>4, <2>2, <2>3, <2>4, <2>5 DEF TableInv
<1>6. SlotsInv'
  <2>1. Busy' = Busy \ {s} /\ s \in Busy
    BY <1>3, <1>4 DEF Busy
  <2>2. IsFiniteSet(Busy) /\ Cardinality(Busy) \in Nat /\ N \in Nat
    BY BusyFinite
  <2>3. Cardinality(Busy') = Cardinality(Busy) - 1
    BY <2>1, <2>2, FS_RemoveElement
  <2>4. slots \in Nat /\ Cardinality(Busy) + slots = N
    BY DEF SlotsInv
  <2>5. slots' \in Nat /\ Cardinality(Busy') + slots' = N
    BY <2>2, <2>3, <2>4
  <2> QED  BY <1>4, <2>5 DEF SlotsInv
<1> QED  BY <1>3, <1>5, <1>6

-----------------------------------------------------------------------------
(* httpd adds a descriptor: the new one is the last, or it is refused. *)

LEMMA Appended ==
  ASSUME TableTypes, NEW d \in Descs, rxq' = Append(rxq, d)
  PROVE  /\ rxq' \in Seq(Descs) /\ Len(rxq') = Len(rxq) + 1 /\ Len(rxq) \in Nat
         /\ rxq'[Len(rxq) + 1] = d
         /\ \A i \in 1 .. Len(rxq) : rxq'[i] = rxq[i]
<1>1. rxq \in Seq(Descs)
  BY DEF TableTypes
<1> QED  BY <1>1

(* What desc_enqueue does to queue and buffers. *)
LEMMA Enqueued ==
  ASSUME TableTypes, BuffersInv, NEW d \in Descs, desc_enqueue(d),
         d.kind = "frame" => free > 0, UNCHANGED <<shape, wk>>
  PROVE  /\ free' \in Nat /\ BuffersInv' /\ dropped' \in BOOLEAN
         /\ rxq' \in Seq(Descs) /\ (rxq' = Append(rxq, d) \/ rxq' = rxq)
         /\ Len(rxq) < shape.depth => rxq' = Append(rxq, d) /\ UNCHANGED dropped
         /\ ~ (Len(rxq) < shape.depth) => rxq' = rxq
<1>1. rxq \in Seq(AnyDescs) /\ free \in Nat /\ d \in AnyDescs /\ shape.pool \in Nat
  BY ShapeTypes DEF TableTypes, Descs, AnyDescs, Kinds, Slots
<1>2. CASE Len(rxq) < shape.depth
  <2>1. /\ rxq' = Append(rxq, d) /\ free' = IF d.kind = "frame" THEN free - 1 ELSE free
        /\ UNCHANGED dropped
    BY <1>2 DEF desc_enqueue, local_buffer_acquire
  <2>2. free' \in Nat
    BY <1>1, <2>1
  <2>3. Cardinality(FramesIn(rxq')) =
          Cardinality(FramesIn(rxq)) + (IF d.kind = "frame" THEN 1 ELSE 0)
    BY <1>1, <2>1, FramesAppend
  <2>4. Cardinality(FramesIn(rxq)) \in Nat
    BY <1>1, FramesFinite
  <2>5. Handled' = Handled /\ Handled \in {0, 1}
    BY DEF Handled
  <2>6. Cardinality(FramesIn(rxq)) + free + Handled = shape.pool
    BY DEF BuffersInv
  <2>7. Cardinality(FramesIn(rxq')) + free' + Handled' = shape.pool
    BY <1>1, <2>1, <2>3, <2>4, <2>5, <2>6
  <2>8. BuffersInv'
    BY <2>7 DEF BuffersInv
  <2>9. rxq' \in Seq(Descs) /\ dropped' \in BOOLEAN
    BY <2>1, Appended DEF TableTypes
  <2> QED  BY <1>2, <2>1, <2>2, <2>8, <2>9
<1>3. CASE ~ (Len(rxq) < shape.depth)
  <2>1. rxq' = rxq /\ free' = free /\ dropped' = TRUE
    BY <1>1, <1>3 DEF desc_enqueue, local_buffer_acquire, local_buffer_release
  <2>2. BuffersInv'
    BY <2>1 DEF BuffersInv, Handled
  <2> QED  BY <1>1, <1>3, <2>1, <2>2 DEF TableTypes
<1> QED  BY <1>2, <1>3

(* A descriptor more, or none: the others are where they were. *)
LEMMA OneMore ==
  ASSUME TableTypes, NEW d \in Descs, rxq' = Append(rxq, d) \/ rxq' = rxq
  PROVE  /\ \A i \in 1 .. Len(rxq') : \/ i \in 1 .. Len(rxq) /\ rxq'[i] = rxq[i]
                                      \/ i = Len(rxq) + 1 /\ rxq'[i] = d
         /\ \A i \in 1 .. Len(rxq) : i \in 1 .. Len(rxq') /\ rxq'[i] = rxq[i]
         /\ \A i \in 1 .. Len(rxq) : rxq[i].slot \in Slots
<1>1. \A i \in 1 .. Len(rxq) : rxq[i].slot \in Slots
  BY ShapeTypes DEF Descs
<1>2. CASE rxq' = rxq
  BY <1>1, <1>2
<1>3. CASE rxq' = Append(rxq, d)
  <2>1. /\ Len(rxq') = Len(rxq) + 1 /\ Len(rxq) \in Nat
        /\ rxq'[Len(rxq) + 1] = d
        /\ \A i \in 1 .. Len(rxq) : rxq'[i] = rxq[i]
    BY <1>3, Appended
  <2> QED  BY <1>1, <2>1
<1> QED  BY <1>2, <1>3

(* An open or a frame more leaves the closes alone, if active entries stay. *)
LEMMA ClosesKept ==
  ASSUME TableTypes, ClosesInv, NEW d \in Descs, d.kind # "close",
         rxq' = Append(rxq, d) \/ rxq' = rxq, UNCHANGED wk,
         \A s \in Slots : sessions[s].active =>
           /\ sessions'[s].active /\ sessions'[s].conn = sessions[s].conn
           /\ sessions[s].state = "closing" => sessions'[s].state = "closing"
  PROVE  ClosesInv' /\ \A s : CloseAhead(s) => CloseAhead(s)'
<1>1. /\ \A i \in 1 .. Len(rxq') : \/ i \in 1 .. Len(rxq) /\ rxq'[i] = rxq[i]
                                   \/ i = Len(rxq) + 1 /\ rxq'[i] = d
      /\ \A i \in 1 .. Len(rxq) : i \in 1 .. Len(rxq') /\ rxq'[i] = rxq[i]
      /\ \A i \in 1 .. Len(rxq) : rxq[i].slot \in Slots
  BY OneMore
<1>2. \A i \in 1 .. Len(rxq') : rxq'[i].kind = "close" =>
         i \in 1 .. Len(rxq) /\ rxq'[i] = rxq[i]
  BY <1>1
<1>3. wk.d.slot \in Slots
  BY DEF TableTypes, Descs
<1>4. \A i \in 1 .. Len(rxq') : Ends(rxq[i])'
  BY <1>1, <1>2 DEF ClosesInv, Ends, Owned
<1>5. \A i, j \in 1 .. Len(rxq') :
        i # j /\ rxq'[i].kind = "close" /\ rxq'[j].kind = "close" =>
        rxq'[i].slot # rxq'[j].slot
  BY <1>2 DEF ClosesInv
<1>6. Ends(wk.d)'
  BY <1>3 DEF ClosesInv, Ends, Owned
<1>7. wk.d.kind = "close" =>
        /\ wk.live
        /\ \A i \in 1 .. Len(rxq') : rxq'[i].kind = "close" => rxq'[i].slot # wk.d.slot
  BY <1>2 DEF ClosesInv
<1>8. ClosesInv'
  BY <1>4, <1>5, <1>6, <1>7 DEF ClosesInv
<1>9. \A s : CloseAhead(s) => CloseAhead(s)'
  BY <1>1 DEF CloseAhead
<1> QED  BY <1>8, <1>9

(* SlotOf finds the entry of a socket in use. *)
LEMMA SlotFound ==
  ASSUME TableInv, NEW f \in Fds, sock[f] # 0
  PROVE  /\ SlotOf(f) \in Slots /\ sessions[SlotOf(f)].conn = sock[f]
         /\ sessions[SlotOf(f)].active /\ sessions[SlotOf(f)].state # "closing"
<1>1. PICK s \in Slots : sessions[s].conn = sock[f] /\ sessions[s].state # "closing"
  BY DEF TableInv
<1>2. SlotOf(f) \in Slots /\ sessions[SlotOf(f)].conn = sock[f]
  BY <1>1 DEF SlotOf
<1>3. sessions[SlotOf(f)].active
  BY <1>2 DEF TableInv
<1>4. SlotOf(f) = s
  BY <1>1, <1>2, <1>3 DEF TableInv
<1> QED  BY <1>1, <1>2, <1>3, <1>4

(* A frame: a descriptor more, if there is room. *)
LEMMA BaseFrame ==
  ASSUME BaseInv, Frame
  PROVE  BaseInv'
<1>0. TableTypes /\ TableInv /\ SlotsInv /\ FreedInv /\ BuffersInv /\ ClosesInv
  BY DEF BaseInv
<1>1. PICK f \in Fds :
        /\ sock[f] # 0
        /\ desc_enqueue(Desc("frame", SlotOf(f), sessions[SlotOf(f)].conn))
        /\ sessions' = [sessions EXCEPT ![SlotOf(f)].idle = FALSE]
  BY DEF Frame
<1>2. PICK s \in Slots : s = SlotOf(f)
  BY <1>0, <1>1, SlotFound
<1> DEFINE d == Desc("frame", s, sessions[s].conn)
<1>3. /\ free > 0 /\ UNCHANGED <<shape, sock, slots, conns, work, wk>>
  BY DEF Frame
<1>4. sessions \in [Slots -> Entries]
  BY <1>0 DEF TableTypes
<1>5. d \in Descs /\ d.kind = "frame"
  BY <1>4 DEF Desc, Descs, Entries
<1>6. desc_enqueue(d)
  BY <1>1, <1>2
<1> HIDE DEF d
<1>7. /\ free' \in Nat /\ BuffersInv' /\ dropped' \in BOOLEAN
      /\ rxq' \in Seq(Descs) /\ (rxq' = Append(rxq, d) \/ rxq' = rxq)
  BY <1>0, <1>3, <1>5, <1>6, Enqueued
<1>8. sessions' \in [Slots -> Entries] /\ Alike
  BY <1>1, <1>2, <1>4 DEF Alike, Entries
<1>9. TableTypes'
  BY <1>0, <1>3, <1>7, <1>8, TypesKept DEF TableTypes, Works
<1>10. TableInv'
  BY <1>0, <1>3, <1>8, TableAlike
<1>11. ClosesInv' /\ \A t : CloseAhead(t) => CloseAhead(t)'
  <2>1. \A t \in Slots : sessions[t].active =>
          /\ sessions'[t].active /\ sessions'[t].conn = sessions[t].conn
          /\ sessions[t].state = "closing" => sessions'[t].state = "closing"
    BY <1>8 DEF Alike
  <2> QED  BY <1>0, <1>3, <1>5, <1>7, <2>1, ClosesKept
<1>12. SlotsInv' /\ FreedInv'
  BY <1>0, <1>3, <1>8, <1>11, SlotsAside
<1> QED  BY <1>7, <1>9, <1>10, <1>11, <1>12 DEF BaseInv

(* A new client takes a slot and a free entry, and has a socket. *)
LEMMA BaseConnect ==
  ASSUME BaseInv, Connect
  PROVE  BaseInv'
<1>0. TableTypes /\ TableInv /\ SlotsInv /\ FreedInv /\ BuffersInv /\ ClosesInv
  BY DEF BaseInv
<1>1. PICK f \in Fds, s \in Slots :
        /\ sock[f] = 0 /\ ~ sessions[s].active
        /\ conns' = conns + 1
        /\ sock' = [sock EXCEPT ![f] = conns + 1]
        /\ sessions' = [sessions EXCEPT ![s] =
              [active |-> TRUE, conn |-> conns + 1, fd |-> f,
               state |-> "connected", strikes |-> 0, idle |-> FALSE]]
        /\ desc_enqueue(Desc("open", s, conns + 1))
  BY DEF Connect
<1> DEFINE d == Desc("open", s, conns + 1)
<1>2. /\ UNCHANGED <<shape, work, wk>> /\ slots > 0 /\ slots' = slots - 1
      /\ conns < shape.conns
  BY DEF Connect
<1>3. /\ sessions \in [Slots -> Entries] /\ sock \in [Fds -> Nat]
      /\ conns \in Nat /\ shape.conns \in Nat
  BY <1>0, ShapeTypes DEF TableTypes
<1>4. d \in Descs /\ d.kind = "open"
  BY <1>3 DEF Desc, Descs
<1>5. desc_enqueue(d)
  BY <1>1
<1> HIDE DEF d
<1>6. /\ free' \in Nat /\ BuffersInv' /\ dropped' \in BOOLEAN
      /\ rxq' \in Seq(Descs) /\ (rxq' = Append(rxq, d) \/ rxq' = rxq)
  BY <1>0, <1>2, <1>4, <1>5, Enqueued
<1>7. /\ sessions' \in [Slots -> Entries]
      /\ \A t \in Slots : t # s => sessions'[t] = sessions[t]
      /\ sessions'[s].active /\ sessions'[s].conn = conns + 1
      /\ sessions'[s].fd = f /\ sessions'[s].state = "connected"
  BY <1>1, <1>3, ServerAssumption DEF Entries, Fds
<1>8. /\ sock' \in [Fds -> Nat] /\ sock'[f] = conns + 1
      /\ \A g \in Fds : g # f => sock'[g] = sock[g]
  BY <1>1, <1>3
<1>9. TableTypes'
  <2>1. conns' \in 0 .. shape.conns
    BY <1>1, <1>2, <1>3
  <2> QED  BY <1>0, <1>2, <1>6, <1>7, <1>8, <2>1, TypesKept DEF TableTypes, Works
<1>10. Slots' = Slots /\ N' = N
  BY <1>2, ShapeKept
<1>11. TableInv'
  <2>1. /\ \A t \in Slots : /\ sessions[t].active <=> sessions[t].conn # 0
                            /\ sessions[t].active => sessions[t].fd # 0
                            /\ sessions[t].conn <= conns /\ sessions[t].conn \in Nat
        /\ \A t, u \in Slots :
             sessions[t].active /\ sessions[t].conn = sessions[u].conn => t = u
        /\ \A g, h \in Fds : sock[g] # 0 /\ sock[g] = sock[h] => g = h
    BY <1>0, <1>3 DEF TableInv, Entries
  <2>2. /\ f # 0 /\ conns + 1 # 0 /\ conns + 1 <= conns'
        /\ \A t \in Slots : sessions[t].conn <= conns' /\ sessions[t].conn # conns + 1
    BY <1>1, <1>3, <2>1 DEF Fds
  <2>3. \A t \in Slots : /\ sessions'[t].active <=> sessions'[t].conn # 0
                         /\ sessions'[t].active => sessions'[t].fd # 0
                         /\ sessions'[t].conn <= conns'
    BY <2>1, <2>2, <1>7
  <2>4. \A t, u \in Slots :
          sessions'[t].active /\ sessions'[t].conn = sessions'[u].conn => t = u
    BY <2>1, <2>2, <1>7
  <2>5. ASSUME NEW g \in Fds, sock'[g] # 0
        PROVE  \E t \in Slots : /\ sessions'[t].conn = sock'[g]
                                /\ sessions'[t].state # "closing"
    <3>1. CASE g = f
      BY <3>1, <1>7, <1>8
    <3>2. CASE g # f
      <4>1. sock'[g] = sock[g] /\ sock[g] # 0
        BY <2>5, <3>2, <1>8
      <4>2. PICK t \in Slots : /\ sessions[t].conn = sock[g]
                               /\ sessions[t].state # "closing"
        BY <1>0, <4>1 DEF TableInv
      <4>3. t # s
        BY <4>1, <4>2, <2>1, <1>1
      <4> QED  BY <4>1, <4>2, <4>3, <1>7
    <3> QED  BY <3>1, <3>2
  <2>6. \A g \in Fds : sock[g] # conns + 1
    <3> SUFFICES ASSUME NEW g \in Fds, sock[g] = conns + 1 PROVE FALSE
      OBVIOUS
    <3>1. PICK t \in Slots : sessions[t].conn = sock[g]
      BY <1>0, <2>2 DEF TableInv
    <3> QED  BY <3>1, <2>2
  <2>7. \A g, h \in Fds : sock'[g] # 0 /\ sock'[g] = sock'[h] => g = h
    BY <2>1, <2>6, <1>8
  <2> QED  BY <2>3, <2>4, <2>5, <2>7, <1>10 DEF TableInv
<1>12. ClosesInv' /\ \A t : CloseAhead(t) => CloseAhead(t)'
  <2>1. \A t \in Slots : sessions[t].active =>
          /\ sessions'[t].active /\ sessions'[t].conn = sessions[t].conn
          /\ sessions[t].state = "closing" => sessions'[t].state = "closing"
    BY <1>1, <1>7
  <2> QED  BY <1>0, <1>2, <1>4, <1>6, <2>1, ClosesKept
<1>13. SlotsInv'
  <2>1. Busy' = Busy \cup {s} /\ s \notin Busy
    BY <1>1, <1>7, <1>10 DEF Busy
  <2>2. IsFiniteSet(Busy) /\ Cardinality(Busy) \in Nat /\ N \in Nat
    BY <1>0, BusyFinite
  <2>3. Cardinality(Busy') = Cardinality(Busy) + 1
    BY <2>1, <2>2, FS_AddElement
  <2>4. slots \in Nat /\ Cardinality(Busy) + slots = N
    BY <1>0 DEF SlotsInv
  <2>5. slots' \in Nat /\ Cardinality(Busy') + slots' = N
    BY <1>2, <2>2, <2>3, <2>4
  <2> QED  BY <1>10, <2>5 DEF SlotsInv
<1>14. ASSUME NEW t \in Slots, sessions'[t].active
       PROVE  Held(t)'
  <2>1. CASE t = s
    BY <1>7, <1>8, <2>1 DEF Held
  <2>2. CASE t # s
    <3>1. sessions[t].active /\ sessions'[t].conn = sessions[t].conn
      BY <1>7, <1>14, <2>2
    <3>2. Held(t) /\ sessions[t].conn # 0
      BY <1>0, <3>1 DEF FreedInv, TableInv
    <3>3. CASE CloseAhead(t)
      BY <1>12, <3>3 DEF Held
    <3>4. CASE \E g \in Fds : sock[g] = sessions[t].conn
      <4>1. PICK g \in Fds : sock[g] = sessions[t].conn
        BY <3>4
      <4>2. g # f /\ sock'[g] = sock[g]
        BY <1>1, <1>8, <3>2, <4>1
      <4> QED  BY <3>1, <4>1, <4>2 DEF Held
    <3> QED  BY <3>2, <3>3, <3>4 DEF Held
  <2> QED  BY <2>1, <2>2
<1>15. FreedInv'
  BY <1>10, <1>14 DEF FreedInv
<1> QED  BY <1>6, <1>9, <1>11, <1>12, <1>13, <1>15 DEF BaseInv

(* A socket ends: its close is in the queue now, or httpd wiped its entry. *)
LEMMA BaseClose ==
  ASSUME BaseInv, NEW f \in Fds, CloseSocket(f),
         UNCHANGED <<shape, conns, wk>>, work' \in Seq(Works)
  PROVE  BaseInv'
<1>0. TableTypes /\ TableInv /\ SlotsInv /\ FreedInv /\ BuffersInv /\ ClosesInv
  BY DEF BaseInv
<1>1. PICK s \in Slots : s = SlotOf(f)
  BY <1>0, SlotFound DEF CloseSocket
<1>2. /\ sock[f] # 0 /\ sock' = [sock EXCEPT ![f] = 0]
      /\ sessions[s].conn = sock[f] /\ sessions[s].active
      /\ sessions[s].state # "closing" /\ on_sess_free(s)
  BY <1>0, <1>1, SlotFound DEF CloseSocket
<1> DEFINE d == Desc("close", s, sessions[s].conn)
<1>3. /\ sessions \in [Slots -> Entries] /\ sock \in [Fds -> Nat] /\ wk.d.slot \in Slots
      /\ \A i \in 1 .. Len(rxq) : rxq[i].slot \in Slots
  BY <1>0, ShapeTypes DEF TableTypes, Descs
<1>4. d \in Descs /\ d.kind = "close" /\ d.slot = s /\ d.conn = sessions[s].conn
  BY <1>3 DEF Desc, Descs, Entries
<1>5. desc_enqueue(d)
  BY <1>2 DEF on_sess_free
<1>6. \/ /\ Len(rxq) < shape.depth
         /\ sessions' = [sessions EXCEPT ![s].state = "closing"] /\ UNCHANGED slots
      \/ /\ ~ (Len(rxq) < shape.depth)
         /\ sessions' = Cleaned(s) /\ slots' = slots + 1
  BY <1>2 DEF on_sess_free
<1> HIDE DEF d
<1>7. /\ free' \in Nat /\ BuffersInv' /\ dropped' \in BOOLEAN
      /\ rxq' \in Seq(Descs)
      /\ Len(rxq) < shape.depth => rxq' = Append(rxq, d)
      /\ ~ (Len(rxq) < shape.depth) => rxq' = rxq
  BY <1>0, <1>4, <1>5, Enqueued
<1>8. /\ sock' \in [Fds -> Nat] /\ sock'[f] = 0
      /\ \A g \in Fds : g # f => sock'[g] = sock[g]
  BY <1>2, <1>3
<1>9. Slots' = Slots /\ N' = N
  BY ShapeKept
<1>10. /\ wk.d.kind = "close" => wk.d.slot # s
       /\ \A i \in 1 .. Len(rxq) : rxq[i].kind = "close" => rxq[i].slot # s
  BY <1>0, <1>2 DEF ClosesInv, Ends
<1>11. ASSUME NEW t \in Slots, t # s, sessions[t].active,
              sessions'[t].conn = sessions[t].conn,
              CloseAhead(t) => CloseAhead(t)'
       PROVE  Held(t)'
  <2>1. Held(t) /\ sessions[t].conn # sock[f]
    BY <1>0, <1>2, <1>11 DEF FreedInv, TableInv
  <2>2. CASE CloseAhead(t)
    BY <1>11, <2>2 DEF Held
  <2>3. CASE \E g \in Fds : sock[g] = sessions[t].conn
    <3>1. PICK g \in Fds : sock[g] = sessions[t].conn
      BY <2>3
    <3>2. g # f /\ sock'[g] = sock[g]
      BY <1>8, <2>1, <3>1
    <3> QED  BY <1>11, <3>1, <3>2 DEF Held
  <2> QED  BY <2>1, <2>2, <2>3 DEF Held
<1>12. CASE /\ Len(rxq) < shape.depth
            /\ sessions' = [sessions EXCEPT ![s].state = "closing"] /\ UNCHANGED slots
  <2>1. /\ sessions' \in [Slots -> Entries]
        /\ \A t \in Slots : /\ sessions'[t].active <=> sessions[t].active
                            /\ sessions'[t].conn = sessions[t].conn
                            /\ sessions'[t].fd = sessions[t].fd
                            /\ t # s => sessions'[t].state = sessions[t].state
        /\ sessions'[s].state = "closing"
    BY <1>3, <1>12 DEF Entries
  <2>2. /\ \A i \in 1 .. Len(rxq') : \/ i \in 1 .. Len(rxq) /\ rxq'[i] = rxq[i]
                                     \/ i = Len(rxq) + 1 /\ rxq'[i] = d
        /\ \A i \in 1 .. Len(rxq) : i \in 1 .. Len(rxq') /\ rxq'[i] = rxq[i]
        /\ Len(rxq) + 1 \in 1 .. Len(rxq') /\ rxq'[Len(rxq) + 1] = d
    BY <1>0, <1>4, <1>7, <1>12, OneMore, Appended
  <2>3. TableTypes'
    BY <1>0, <1>7, <1>8, <2>1, TypesKept DEF TableTypes
  <2>4. TableInv'
    <3>1. /\ \A t \in Slots : /\ sessions[t].active <=> sessions[t].conn # 0
                              /\ sessions[t].active => sessions[t].fd # 0
                              /\ sessions[t].conn <= conns
          /\ \A t, u \in Slots :
               sessions[t].active /\ sessions[t].conn = sessions[u].conn => t = u
          /\ \A g, h \in Fds : sock[g] # 0 /\ sock[g] = sock[h] => g = h
      BY <1>0 DEF TableInv
    <3>2. ASSUME NEW g \in Fds, sock'[g] # 0
          PROVE  \E t \in Slots : /\ sessions'[t].conn = sock'[g]
                                  /\ sessions'[t].state # "closing"
      <4>1. g # f /\ sock'[g] = sock[g] /\ sock[g] # 0
        BY <3>2, <1>8
      <4>2. PICK t \in Slots : /\ sessions[t].conn = sock[g]
                               /\ sessions[t].state # "closing"
        BY <1>0, <4>1 DEF TableInv
      <4>3. t # s
        BY <4>1, <4>2, <1>2, <3>1
      <4> QED  BY <4>1, <4>2, <4>3, <2>1
    <3>3. \A g, h \in Fds : sock'[g] # 0 /\ sock'[g] = sock'[h] => g = h
      BY <3>1, <1>8
    <3> QED  BY <3>1, <3>2, <3>3, <2>1, <1>9 DEF TableInv
  <2>5. ClosesInv'
    <3>1. \A i \in 1 .. Len(rxq') : Ends(rxq[i])'
      <4> SUFFICES ASSUME NEW i \in 1 .. Len(rxq'), rxq'[i].kind = "close"
                   PROVE  Owned(rxq[i])' /\ sessions'[rxq'[i].slot].state = "closing"
        BY DEF Ends
      <4>1. CASE rxq'[i] = d
        BY <1>2, <1>4, <2>1, <4>1 DEF Owned
      <4>2. CASE i \in 1 .. Len(rxq) /\ rxq'[i] = rxq[i]
        BY <1>0, <1>3, <1>10, <2>1, <4>2 DEF ClosesInv, Ends, Owned
      <4> QED  BY <2>2, <4>1, <4>2
    <3>2. \A i, j \in 1 .. Len(rxq') :
            i # j /\ rxq'[i].kind = "close" /\ rxq'[j].kind = "close" =>
            rxq'[i].slot # rxq'[j].slot
      BY <1>0, <1>4, <1>10, <2>2 DEF ClosesInv
    <3>3. Ends(wk.d)'
      BY <1>0, <1>3, <1>10, <2>1 DEF ClosesInv, Ends, Owned
    <3>4. wk.d.kind = "close" =>
            /\ wk.live
            /\ \A i \in 1 .. Len(rxq') : rxq'[i].kind = "close" => rxq'[i].slot # wk.d.slot
      BY <1>0, <1>4, <1>10, <2>2 DEF ClosesInv
    <3> QED  BY <3>1, <3>2, <3>3, <3>4 DEF ClosesInv
  <2>6. SlotsInv'
    <3>1. Busy' = Busy
      BY <1>9, <2>1 DEF Busy
    <3> QED  BY <1>0, <1>9, <1>12, <3>1 DEF SlotsInv
  <2>7. FreedInv'
    <3>1. \A t : CloseAhead(t) => CloseAhead(t)'
      BY <2>2 DEF CloseAhead
    <3>2. Held(s)'
      BY <1>4, <2>2 DEF Held, CloseAhead
    <3> QED  BY <1>9, <1>11, <2>1, <3>1, <3>2 DEF FreedInv
  <2> QED  BY <1>7, <2>3, <2>4, <2>5, <2>6, <2>7 DEF BaseInv
<1>13. CASE /\ ~ (Len(rxq) < shape.depth)
            /\ sessions' = Cleaned(s) /\ slots' = slots + 1
  <2>1. \A g \in Fds : sock'[g] # 0 =>
          sock'[g] = sock[g] /\ sock[g] # sessions[s].conn
    BY <1>0, <1>2, <1>8 DEF TableInv
  <2>2. /\ sessions' \in [Slots -> Entries] /\ TableInv' /\ SlotsInv'
        /\ \A t \in Slots : t # s => sessions'[t] = sessions[t]
        /\ ~ sessions'[s].active
    BY <1>0, <1>2, <1>13, <2>1, EntryWiped
  <2>3. rxq' = rxq
    BY <1>7, <1>13
  <2>4. TableTypes'
    BY <1>0, <1>7, <1>8, <2>2, TypesKept DEF TableTypes
  <2>5. ClosesInv'
    BY <1>0, <1>3, <1>10, <2>2, <2>3 DEF ClosesInv, Ends, Owned
  <2>6. FreedInv'
    <3>1. \A t : CloseAhead(t) => CloseAhead(t)'
      BY <2>3 DEF CloseAhead
    <3> QED  BY <1>9, <1>11, <2>2, <3>1 DEF FreedInv
  <2> QED  BY <1>7, <2>2, <2>4, <2>5, <2>6 DEF BaseInv
<1> QED  BY <1>6, <1>12, <1>13

-----------------------------------------------------------------------------
(* The worker takes a descriptor from the head of the queue. *)

(* What is left in the queue, and what the worker holds. *)
LEMMA Taken ==
  ASSUME TableTypes, WorkerTake
  PROVE  /\ wk = Idle /\ UNCHANGED <<shape, sock, sessions, slots, conns, free, work, dropped>>
         /\ Len(rxq) \in Nat \ {0} /\ rxq' = Tail(rxq) /\ Len(rxq') = Len(rxq) - 1
         /\ rxq' \in Seq(Descs) /\ 1 \in 1 .. Len(rxq)
         /\ \A i \in 1 .. Len(rxq') : i + 1 \in 1 .. Len(rxq) /\ rxq'[i] = rxq[i + 1]
         /\ wk'.d = rxq[1] /\ rxq[1] \in Descs /\ rxq[1].slot \in Slots
         /\ wk' \in [d : Descs, live : BOOLEAN]
         /\ wk'.live <=> Owned(rxq[1])
<1> DEFINE d == Head(rxq)
<1>1. /\ wk = Idle /\ rxq # <<>> /\ rxq' = Tail(rxq)
      /\ wk' = [d |-> d, live |-> /\ sessions[d.slot].active
                                  /\ sessions[d.slot].conn = d.conn]
      /\ UNCHANGED <<shape, sock, sessions, slots, conns, free, work, dropped>>
  BY DEF WorkerTake
<1>2. rxq \in Seq(Descs)
  BY DEF TableTypes
<1>3. /\ Len(rxq) \in Nat \ {0} /\ Len(rxq') = Len(rxq) - 1 /\ d = rxq[1]
      /\ rxq' \in Seq(Descs) /\ 1 \in 1 .. Len(rxq)
      /\ \A i \in 1 .. Len(rxq) - 1 : rxq'[i] = rxq[i + 1]
  BY <1>1, <1>2
<1>4. \A i \in 1 .. Len(rxq') : i + 1 \in 1 .. Len(rxq) /\ rxq'[i] = rxq[i + 1]
  BY <1>3
<1>5. d \in Descs /\ d.slot \in Slots
  <2>1. \A i \in 1 .. Len(rxq) : rxq[i] \in Descs
    BY ShapeTypes
  <2>2. d \in Descs
    BY <1>3, <2>1
  <2> QED  BY <2>2 DEF Descs
<1>6. /\ wk' \in [d : Descs, live : BOOLEAN] /\ wk'.d = d
      /\ wk'.live <=> Owned(d)
  BY <1>1, <1>5 DEF Owned
<1> QED  BY <1>1, <1>3, <1>4, <1>5, <1>6

(* A close the worker takes has its session still; it is the only one. *)
LEMMA BaseTake ==
  ASSUME BaseInv, WorkerTake
  PROVE  BaseInv'
<1>0. TableTypes /\ TableInv /\ SlotsInv /\ FreedInv /\ BuffersInv /\ ClosesInv
  BY DEF BaseInv
<1>1. /\ wk = Idle /\ UNCHANGED <<shape, sock, sessions, slots, conns, free, work, dropped>>
      /\ Len(rxq) \in Nat \ {0} /\ rxq' = Tail(rxq) /\ Len(rxq') = Len(rxq) - 1
      /\ rxq' \in Seq(Descs) /\ 1 \in 1 .. Len(rxq)
      /\ \A i \in 1 .. Len(rxq') : i + 1 \in 1 .. Len(rxq) /\ rxq'[i] = rxq[i + 1]
      /\ wk'.d = rxq[1] /\ rxq[1].slot \in Slots
      /\ wk' \in [d : Descs, live : BOOLEAN] /\ (wk'.live <=> Owned(rxq[1]))
  BY <1>0, Taken
<1>2. TableTypes'
  BY <1>0, <1>1, TypesKept DEF TableTypes, Works
<1>3. TableInv'
  <2>1. Alike
    BY <1>1 DEF Alike
  <2> QED  BY <1>0, <1>1, <2>1, TableAlike
<1>4. BuffersInv'
  <2>1. rxq \in Seq(AnyDescs) /\ rxq # <<>> /\ rxq[1] = Head(rxq) /\ free \in Nat
        /\ shape.pool \in Nat
    BY <1>0, <1>1, ShapeTypes DEF TableTypes
  <2>2. Cardinality(FramesIn(rxq)) =
          Cardinality(FramesIn(rxq')) + (IF rxq[1].kind = "frame" THEN 1 ELSE 0)
    BY <1>1, <2>1, FramesTail
  <2>3. Handled = 0 /\ Handled' = IF rxq[1].kind = "frame" THEN 1 ELSE 0
    BY <1>1 DEF Handled, Idle, NoDesc
  <2>4. rxq' \in Seq(AnyDescs)
    BY <1>1, <2>1
  <2>5. Cardinality(FramesIn(rxq')) \in Nat
    BY <2>4, FramesFinite
  <2>6. Cardinality(FramesIn(rxq)) + free + Handled = shape.pool
    BY <1>0 DEF BuffersInv
  <2>7. Cardinality(FramesIn(rxq')) + free + Handled' = shape.pool
    BY <2>1, <2>2, <2>3, <2>5, <2>6
  <2> QED  BY <1>1, <2>7 DEF BuffersInv
<1>5. ClosesInv'
  <2>1. /\ \A i \in 1 .. Len(rxq) : Ends(rxq[i])
        /\ \A i, j \in 1 .. Len(rxq) :
             i # j /\ rxq[i].kind = "close" /\ rxq[j].kind = "close" =>
             rxq[i].slot # rxq[j].slot
    BY <1>0 DEF ClosesInv
  <2>2. \A i \in 1 .. Len(rxq') : Ends(rxq[i])'
    BY <1>1, <2>1 DEF Ends, Owned
  <2>3. ASSUME NEW i \in 1 .. Len(rxq'), NEW j \in 1 .. Len(rxq'), i # j,
               rxq'[i].kind = "close", rxq'[j].kind = "close"
        PROVE  rxq'[i].slot # rxq'[j].slot
    <3>1. /\ i + 1 \in 1 .. Len(rxq) /\ j + 1 \in 1 .. Len(rxq) /\ i + 1 # j + 1
          /\ rxq'[i] = rxq[i + 1] /\ rxq'[j] = rxq[j + 1]
      BY <1>1, <2>3
    <3> QED  BY <2>1, <2>3, <3>1
  <2>4. Ends(wk.d)' /\ (wk'.d.kind = "close" => wk'.live)
    BY <1>1, <2>1 DEF Ends, Owned
  <2>5. ASSUME wk'.d.kind = "close", NEW i \in 1 .. Len(rxq'), rxq'[i].kind = "close"
        PROVE  rxq'[i].slot # wk'.d.slot
    <3>1. i + 1 \in 1 .. Len(rxq) /\ i + 1 # 1 /\ rxq'[i] = rxq[i + 1]
      BY <1>1, <2>5
    <3> QED  BY <1>1, <2>1, <2>5, <3>1
  <2> QED  BY <2>2, <2>3, <2>4, <2>5 DEF ClosesInv
<1>6. ASSUME NEW s \in Slots, CloseAhead(s)
      PROVE  CloseAhead(s)'
  <2>1. PICK i \in 1 .. Len(rxq) : rxq[i].kind = "close" /\ rxq[i].slot = s
    BY <1>1, <1>6 DEF CloseAhead, Idle, NoDesc
  <2>2. CASE i = 1
    BY <1>1, <2>1, <2>2 DEF CloseAhead
  <2>3. CASE i # 1
    <3>1. PICK j \in 1 .. Len(rxq') : i = j + 1
      <4>1. i - 1 \in 1 .. Len(rxq') /\ i = (i - 1) + 1
        BY <1>1, <2>3
      <4> QED  BY <4>1
    <3>2. rxq'[j] = rxq[i]
      BY <1>1, <3>1
    <3> QED  BY <2>1, <3>2 DEF CloseAhead
  <2> QED  BY <2>2, <2>3
<1>7. SlotsInv' /\ FreedInv'
  <2>1. Alike
    BY <1>1 DEF Alike
  <2> QED  BY <1>0, <1>1, <1>6, <2>1, SlotsAside
<1> QED  BY <1>2, <1>3, <1>4, <1>5, <1>7 DEF BaseInv

(* The worker has handled its descriptor: its buffer is free again. *)
LEMMA WorkerRests ==
  ASSUME TableTypes, BuffersInv, Finish, UNCHANGED <<shape, rxq>>
  PROVE  /\ wk' \in [d : Descs, live : BOOLEAN] /\ free' \in Nat /\ BuffersInv'
         /\ wk' = Idle
<1>1. /\ wk' = Idle /\ free' = IF wk.d.kind = "frame" THEN free + 1 ELSE free
  BY DEF Finish, local_buffer_release
<1>2. free \in Nat
  BY DEF TableTypes
<1>3. N \in Nat \ {0} /\ shape.pool \in Nat /\ rxq \in Seq(AnyDescs)
  BY ShapeTypes
<1>4. Idle \in [d : Descs, live : BOOLEAN]
  BY <1>3 DEF Idle, NoDesc, Descs, Slots
<1>5. Handled' = 0
  BY <1>1 DEF Handled, Idle, NoDesc
<1>6. Cardinality(FramesIn(rxq)) \in Nat
  BY <1>3, FramesFinite
<1>7. Cardinality(FramesIn(rxq)) + free + Handled = shape.pool
  BY DEF BuffersInv
<1>8. Cardinality(FramesIn(rxq)) + free' + Handled' = shape.pool
  BY <1>1, <1>2, <1>3, <1>5, <1>6, <1>7 DEF Handled
<1>9. BuffersInv'
  BY <1>8 DEF BuffersInv
<1> QED  BY <1>1, <1>2, <1>4, <1>9

(* The protocol's verdict on a frame touches strikes and state only. *)
LEMMA JudgedAlike ==
  ASSUME TableTypes, NEW s \in Slots, NEW n \in 0 .. Strikes, Judged(s, n)
  PROVE  sessions' \in [Slots -> Entries] /\ Alike
<1>1. sessions \in [Slots -> Entries]
  BY DEF TableTypes
<1>2. PICK st \in {sessions[s].state,
                   IF sessions[s].state = "connected" THEN "running"
                   ELSE sessions[s].state} :
        sessions' = [sessions EXCEPT ![s].strikes = n, ![s].state = st]
  BY DEF Judged
<1>3. /\ st \in {"free", "connected", "running", "closing"}
      /\ st = "closing" <=> sessions[s].state = "closing"
  BY <1>1, <1>2 DEF Entries
<1> QED  BY <1>1, <1>2, <1>3 DEF Alike, Entries

(* What the worker does to the table: behind a close it wipes the entry    *)
(* and gives the slot back, else both stay.  Without the lock it may find  *)
(* another client in the entry, whose strikes and state it then changes.   *)
Working == WorkerDo \/ WorkerUse
Wiped(s) == /\ sessions[s].active
            /\ sessions' = Cleaned(s) /\ slots' = slots + 1 /\ Finish
Noted == /\ Alike /\ UNCHANGED slots /\ sessions' \in [Slots -> Entries]
         /\ Finish \/ UNCHANGED <<wk, free>>

LEMMA WorkerTable ==
  ASSUME TableTypes, ClosesInv, OutInv, WorkerDo
  PROVE  /\ work' \in Seq(Works) /\ UNCHANGED <<shape, sock, conns, rxq, dropped>>
         /\ wk.d.kind # "close" => Noted
         /\ wk.d.kind = "close" => Wiped(wk.d.slot)
<1> DEFINE s == wk.d.slot
<1>1. /\ s \in Slots /\ sessions \in [Slots -> Entries] /\ sessions[s] \in Entries
      /\ Strikes \in Nat \ {0}
  BY ServerAssumption DEF TableTypes, Descs
<1>2. UNCHANGED work /\ UNCHANGED <<shape, sock, conns, rxq, dropped>>
  BY DEF WorkerDo
<1>3. work' \in Seq(Works)
  BY <1>2 DEF TableTypes, Works
<1>4. CASE wk.d.kind = "close"
  <2>1. wk.live /\ sessions[s].active
    BY <1>4 DEF ClosesInv, Ends, Owned
  <2>2. wk.d.kind # "open" /\ wk.d.kind # "frame"
    BY <1>4
  <2>3. Wiped(s)
    BY <1>4, <2>1, <2>2 DEF WorkerDo, Wiped
  <2> QED  BY <1>2, <1>3, <1>4, <2>3
<1>5. CASE wk.d.kind # "close"
  <2>1. \/ local_protocol_on_open(s) /\ UNCHANGED slots
        \/ local_protocol_on_frame(s) /\ UNCHANGED slots
        \/ UNCHANGED <<sessions, slots>> /\ Finish
    BY <1>5 DEF WorkerDo
  <2> HIDE DEF s
  <2>2. UNCHANGED sessions => Alike /\ sessions' \in [Slots -> Entries]
    BY <1>1 DEF Alike
  <2>3. local_server_session_close(s) => Finish \/ UNCHANGED <<wk, free>>
    BY DEF local_server_session_close, Hold
  <2>4. \A k : local_server_send(k, s) => UNCHANGED <<wk, free>>
    BY DEF local_server_send, Hold
  <2>5. CASE local_protocol_on_open(s) /\ UNCHANGED slots
    <3>1. sessions' = [sessions EXCEPT ![s].strikes = 0]
      BY <2>5 DEF local_protocol_on_open
    <3>2. sessions' \in [Slots -> Entries] /\ Alike
      BY <1>1, <3>1 DEF Alike, Entries
    <3>3. Finish \/ UNCHANGED <<wk, free>>
      BY <2>3, <2>4, <2>5 DEF local_protocol_on_open
    <3>4. Noted
      BY <2>5, <3>2, <3>3 DEF Noted
    <3> QED  BY <1>2, <1>3, <1>5, <3>4
  <2>6. CASE local_protocol_on_frame(s) /\ UNCHANGED slots
    <3>1. sessions[s].strikes \in 0 .. Strikes
      BY <1>1 DEF Entries
    <3>2. CASE local_server_session_close(s) /\ UNCHANGED sessions
      BY <1>2, <1>3, <1>5, <2>2, <2>3, <2>6, <3>2 DEF Noted
    <3>3. CASE /\ sessions[s].strikes + 1 < Strikes
               /\ Judged(s, sessions[s].strikes + 1) /\ Finish
      <4>1. sessions[s].strikes + 1 \in 0 .. Strikes
        BY <1>1, <3>1, <3>3
      <4>2. sessions' \in [Slots -> Entries] /\ Alike
        BY <1>1, <3>3, <4>1, JudgedAlike
      <4> QED  BY <1>2, <1>3, <1>5, <2>6, <3>3, <4>2 DEF Noted
    <3>4. CASE local_server_send("tx", s) /\ UNCHANGED sessions
      BY <1>2, <1>3, <1>5, <2>2, <2>4, <2>6, <3>4 DEF Noted
    <3>5. CASE Judged(s, sessions[s].strikes) /\ Finish
      <4>1. sessions' \in [Slots -> Entries] /\ Alike
        BY <1>1, <3>1, <3>5, JudgedAlike
      <4> QED  BY <1>2, <1>3, <1>5, <2>6, <3>5, <4>1 DEF Noted
    <3> QED  BY <2>6, <3>2, <3>3, <3>4, <3>5 DEF local_protocol_on_frame
  <2>7. CASE UNCHANGED <<sessions, slots>> /\ Finish
    BY <1>2, <1>3, <1>5, <2>2, <2>7 DEF Noted
  <2> QED  BY <2>1, <2>5, <2>6, <2>7
<1> QED  BY <1>4, <1>5

(* The call that hands something to httpd leaves the slot where it is. *)
LEMMA WorkerHands ==
  ASSUME TableTypes, OutInv, WorkerUse
  PROVE  /\ work' \in Seq(Works) /\ UNCHANGED <<shape, sock, conns, rxq, dropped>>
         /\ wk.d.kind # "close" /\ Noted
<1>1. /\ UNCHANGED <<shape, sock, slots, conns, rxq, dropped>>
      /\ out.kind \in {"hello", "tx", "close"} /\ wk.d.kind # "close"
  BY DEF WorkerUse, OutInv, NoOut
<1> DEFINE s == out.slot
<1>2. /\ s \in Slots /\ out.fd \in 0 .. Sockets
      /\ sessions \in [Slots -> Entries] /\ sessions[s].fd \in 0 .. Sockets
      /\ sessions[s].strikes \in 0 .. Strikes
  BY DEF OutInv, Outs, TableTypes, Entries
<1>3. UNCHANGED sessions => Alike /\ sessions' \in [Slots -> Entries]
  BY <1>2 DEF Alike
<1>4. local_server_session_close(s) => Finish \/ UNCHANGED <<wk, free>>
  BY DEF local_server_session_close, Hold
<1>5. \/ Queue("tx", out.fd) \/ Queue("close", sessions[s].fd) \/ UNCHANGED work
  BY DEF WorkerUse
<1>6. work' \in Seq(Works)
  BY <1>2, <1>5, WorkKept
<1>7. CASE UNCHANGED sessions /\ (Finish \/ local_server_session_close(s))
  BY <1>1, <1>3, <1>4, <1>6, <1>7 DEF Noted
<1>8. CASE Judged(s, sessions[s].strikes) /\ Finish
  <2>1. sessions' \in [Slots -> Entries] /\ Alike
    BY <1>2, <1>8, JudgedAlike
  <2> QED  BY <1>1, <1>6, <1>8, <2>1 DEF Noted
<1> QED  BY <1>7, <1>8 DEF WorkerUse

(* Either way. *)
LEMMA WorkerWorks ==
  ASSUME BaseInv, OutInv, Working
  PROVE  /\ work' \in Seq(Works) /\ UNCHANGED <<shape, sock, conns, rxq, dropped>>
         /\ wk.d.kind # "close" => Noted
         /\ wk.d.kind = "close" => Wiped(wk.d.slot)
<1>1. TableTypes /\ ClosesInv
  BY DEF BaseInv
<1> QED  BY <1>1, WorkerTable, WorkerHands DEF Working

(* The worker is done: a close gives the slot back, a frame its buffer. *)
LEMMA BaseDo ==
  ASSUME BaseInv, OutInv, Working
  PROVE  BaseInv'
<1>0. TableTypes /\ TableInv /\ SlotsInv /\ FreedInv /\ BuffersInv /\ ClosesInv
  BY DEF BaseInv
<1>1. work' \in Seq(Works) /\ UNCHANGED <<shape, sock, conns, rxq, dropped>>
  BY WorkerWorks
<1>2. /\ wk.d.slot \in Slots
      /\ \A i \in 1 .. Len(rxq) : rxq[i].slot \in Slots
  BY <1>0, ShapeTypes DEF TableTypes, Descs
<1>3. Finish => /\ wk' \in [d : Descs, live : BOOLEAN] /\ free' \in Nat /\ BuffersInv'
                /\ wk' = Idle /\ wk'.d.kind = "none"
  BY <1>0, <1>1, WorkerRests DEF Idle, NoDesc
<1>4. Slots' = Slots
  BY <1>1, ShapeKept
<1>5. CASE wk.d.kind # "close"
  <2>1. Alike /\ UNCHANGED slots /\ sessions' \in [Slots -> Entries]
    BY <1>5, WorkerWorks DEF Noted
  <2>2. CASE UNCHANGED <<wk, free>>
    BY <1>1, <2>1, <2>2, BaseAside
  <2>3. CASE Finish
    <3>2. TableTypes'
      BY <1>0, <1>1, <1>3, <2>1, <2>3, TypesKept DEF TableTypes
    <3>3. TableInv'
      BY <1>0, <1>1, <2>1, TableAlike
    <3>4. ClosesInv'
      BY <1>0, <1>1, <1>2, <1>3, <2>1, <2>3 DEF ClosesInv, Ends, Owned, Alike
    <3>5. \A s \in Slots : CloseAhead(s) => CloseAhead(s)'
      BY <1>1, <1>5 DEF CloseAhead
    <3>6. SlotsInv' /\ FreedInv'
      BY <1>0, <1>1, <2>1, <3>5, SlotsAside
    <3> QED  BY <1>3, <2>3, <3>2, <3>3, <3>4, <3>6 DEF BaseInv
  <2> QED  BY <1>5, <2>2, <2>3, WorkerWorks DEF Noted
<1>6. CASE wk.d.kind = "close"
  <2>1. PICK s \in Slots : s = wk.d.slot
    BY <1>2
  <2>2. /\ sessions[s].active /\ sessions' = Cleaned(s) /\ slots' = slots + 1
        /\ Finish
    BY <1>6, <2>1, WorkerWorks DEF Wiped
  <2>3. sessions[s].state = "closing"
        /\ \A i \in 1 .. Len(rxq) : rxq[i].kind = "close" => rxq[i].slot # s
    BY <1>0, <1>6, <2>1 DEF ClosesInv, Ends
  <2>4. ASSUME NEW g \in Fds, sock[g] # 0
        PROVE  sock[g] # sessions[s].conn
    <3>1. PICK t \in Slots : /\ sessions[t].conn = sock[g]
                             /\ sessions[t].state # "closing"
      BY <1>0, <2>4 DEF TableInv
    <3> QED  BY <1>0, <2>2, <2>3, <3>1 DEF TableInv
  <2>5. /\ sessions' \in [Slots -> Entries] /\ TableInv' /\ SlotsInv'
        /\ \A t \in Slots : t # s => sessions'[t] = sessions[t]
        /\ ~ sessions'[s].active
    BY <1>0, <1>1, <2>2, <2>4, EntryWiped
  <2>6. TableTypes'
    BY <1>0, <1>1, <1>3, <2>2, <2>5, TypesKept DEF TableTypes
  <2>7. ClosesInv'
    BY <1>0, <1>1, <1>2, <1>3, <2>2, <2>3, <2>5 DEF ClosesInv, Ends, Owned
  <2>8. ASSUME NEW t \in Slots, sessions'[t].active
        PROVE  Held(t)'
    <3>1. t # s /\ sessions[t].active /\ sessions'[t].conn = sessions[t].conn
      BY <2>5, <2>8
    <3>2. Held(t)
      BY <1>0, <3>1 DEF FreedInv
    <3>3. CloseAhead(t) => CloseAhead(t)'
      BY <1>1, <2>1, <3>1 DEF CloseAhead
    <3> QED  BY <1>1, <3>1, <3>2, <3>3 DEF Held
  <2>9. FreedInv'
    BY <1>4, <2>8 DEF FreedInv
  <2> QED  BY <1>3, <2>2, <2>5, <2>6, <2>7, <2>9 DEF BaseInv
<1> QED  BY <1>5, <1>6

-----------------------------------------------------------------------------
(* The other steps, and what holds for every depth. *)

LEMMA BaseHttpd ==
  ASSUME BaseInv, RunWork \/ SocketEnds
  PROVE  BaseInv'
<1>0. /\ work \in Seq(Works) /\ sessions \in [Slots -> Entries]
  BY DEF BaseInv, TableTypes, Works
<1>1. CASE SocketEnds
  <2>1. PICK f \in Fds : CloseSocket(f)
    BY <1>1 DEF SocketEnds
  <2>2. UNCHANGED <<shape, conns, wk, work>>
    BY <1>1 DEF SocketEnds
  <2> QED  BY <1>0, <2>1, <2>2, BaseClose
<1>2. CASE RunWork
  <2>1. work # <<>> /\ work' = Tail(work) /\ UNCHANGED <<shape, conns, wk>>
    BY <1>2 DEF RunWork
  <2>2. PICK w \in Works : w = Head(work)
    BY <1>0, <2>1
  <2>3. work' \in Seq(Works)
    BY <1>0, <2>1
  <2>4. \/ CloseSocket(w.fd)
        \/ UNCHANGED <<sock, sessions, slots, rxq, free, dropped>>
    BY <1>2, <2>2, Zenon DEF RunWork
  <2>5. w.fd \in Fds
    BY DEF Works
  <2>6. CASE CloseSocket(w.fd)
    BY <2>1, <2>3, <2>5, <2>6, BaseClose
  <2>7. CASE UNCHANGED <<sock, sessions, slots, rxq, free, dropped>>
    <3>1. Alike /\ sessions' \in [Slots -> Entries]
      BY <1>0, <2>7 DEF Alike
    <3> QED  BY <2>1, <2>3, <2>7, <3>1, BaseAside
  <2> QED  BY <2>4, <2>6, <2>7
<1> QED  BY <1>1, <1>2

(* Link, start, stop and time touch nothing that counts. *)
LEMMA BaseOthers ==
  ASSUME BaseInv,
         \/ Link \/ Subscribe \/ MainCheck \/ MainStart \/ on_wlan_event
         \/ EventStart \/ Shutdown \/ StopDone \/ UNCHANGED serverVars
         \/ timeout_scan \/ Silence
  PROVE  BaseInv' /\ UNCHANGED <<shape, sock, conns, rxq, wk, dropped>> /\ Alike
<1>0. /\ TableTypes /\ TableInv
      /\ work \in Seq(Works) /\ sessions \in [Slots -> Entries]
  BY DEF BaseInv, TableTypes, Works
<1>1. UNCHANGED <<shape, sock, conns, slots, rxq, free, wk, dropped>>
  BY DEF Link, Apart, Subscribe, MainCheck, MainStart, on_wlan_event, EventStart,
     Shutdown, StopDone, server_start, sessVars, serverVars, timeout_scan, Hold, Silence
<1>2. CASE timeout_scan
  <2>1. UNCHANGED <<sessions, work>>
    BY <1>2 DEF timeout_scan
  <2>2. Alike /\ sessions' \in [Slots -> Entries]
    BY <1>0, <2>1 DEF Alike
  <2> QED  BY <1>0, <1>1, <2>1, <2>2, BaseAside
<1>3. CASE Silence
  <2>1. PICK s \in Slots : sessions' = [sessions EXCEPT ![s].idle = TRUE]
    BY <1>3 DEF Silence
  <2>2. UNCHANGED work
    BY <1>3 DEF Silence
  <2>3. Alike /\ sessions' \in [Slots -> Entries]
    BY <1>0, <2>1 DEF Alike, Entries
  <2> QED  BY <1>0, <1>1, <2>2, <2>3, BaseAside
<1>4. CASE \/ Link \/ Subscribe \/ MainCheck \/ MainStart \/ on_wlan_event
           \/ EventStart \/ Shutdown \/ StopDone \/ UNCHANGED serverVars
  <2>1. UNCHANGED <<sessions, work>>
    BY <1>4 DEF Link, Apart, Subscribe, MainCheck, MainStart, on_wlan_event, EventStart,
       Shutdown, StopDone, server_start, sessVars, serverVars
  <2>2. Alike /\ sessions' \in [Slots -> Entries]
    BY <1>0, <2>1 DEF Alike
  <2> QED  BY <1>0, <1>1, <2>1, <2>2, BaseAside
<1> QED  BY <1>2, <1>3, <1>4

(* Every step preserves what holds for every depth of the queue. *)
LEMMA BaseStep == BaseInv /\ OutInv /\ [ServerNext]_serverVars => BaseInv'
  BY BaseOthers, BaseHttpd, BaseConnect, BaseFrame, BaseTake, BaseDo
     DEF ServerNext, Working

(* And what the worker is about to hand over. *)
LEMMA OutStep == BaseInv /\ OutInv /\ [ServerNext]_serverVars => OutInv'
<1> SUFFICES ASSUME BaseInv, OutInv, [ServerNext]_serverVars
             PROVE  OutInv'
  OBVIOUS
<1>1. /\ sessions \in [Slots -> Entries] /\ wk.d.slot \in Slots
      /\ N \in Nat \ {0} /\ out \in Outs /\ Sockets \in Nat
  BY ShapeTypes, ServerAssumption DEF BaseInv, TableTypes, Descs, OutInv
<1>2. UNCHANGED shape => Outs' = Outs
  BY ShapeKept DEF Outs
<1>3. Finish /\ UNCHANGED shape => OutInv'
  <2>1. NoOut \in Outs
    BY <1>1 DEF NoOut, Outs, Slots
  <2> QED  BY <1>2, <2>1 DEF Finish, OutInv
<1>4. ASSUME NEW k \in {"hello", "tx", "close"}, NEW s \in Slots, Hold(k, s),
             UNCHANGED shape, wk.d.kind # "close"
      PROVE  OutInv'
  <2>1. sessions[s].fd \in 0 .. Sockets
    BY <1>1 DEF Entries
  <2>2. out' \in Outs
    BY <1>4, <2>1 DEF Hold, Outs
  <2> QED  BY <1>2, <1>4, <2>2 DEF Hold, OutInv
<1>5. ASSUME NEW s \in Slots, local_server_session_close(s), UNCHANGED shape,
             wk.d.kind # "close"
      PROVE  OutInv'
  BY <1>3, <1>4, <1>5 DEF local_server_session_close
<1>6. CASE WorkerDo
  <2>1. UNCHANGED shape
    BY <1>6 DEF WorkerDo
  <2>2. CASE Finish
    BY <1>3, <2>1, <2>2
  <2>3. CASE ~ Finish
    <3>1. /\ wk.d.kind # "close"
          /\ \/ local_protocol_on_open(wk.d.slot)
             \/ local_protocol_on_frame(wk.d.slot)
      BY <1>6, <2>3 DEF WorkerDo
    <3>2. \/ local_server_session_close(wk.d.slot)
          \/ Hold("hello", wk.d.slot) \/ Hold("tx", wk.d.slot)
      BY <2>3, <3>1 DEF local_protocol_on_open, local_protocol_on_frame,
                        local_server_send
    <3> QED  BY <1>1, <1>4, <1>5, <2>1, <3>1, <3>2
  <2> QED  BY <2>2, <2>3
<1>7. CASE WorkerUse
  <2>1. UNCHANGED shape /\ out.slot \in Slots /\ wk.d.kind # "close"
    BY <1>1, <1>7 DEF WorkerUse, OutInv, NoOut, Outs
  <2>2. Finish \/ local_server_session_close(out.slot)
    BY <1>7 DEF WorkerUse
  <2> QED  BY <1>3, <1>5, <2>1, <2>2
<1>8. CASE timeout_scan
  <2>1. UNCHANGED shape /\ wk.d.kind # "close"
    BY <1>8 DEF timeout_scan, Idle, NoDesc
  <2>2. PICK s \in Slots : Hold("close", s)
    BY <1>8 DEF timeout_scan
  <2> QED  BY <1>4, <2>1, <2>2
<1>9. CASE WorkerTake
  <2>1. UNCHANGED <<shape, out>> /\ out = NoOut
    BY <1>9 DEF WorkerTake
  <2> QED  BY <1>1, <1>2, <2>1 DEF OutInv
<1>10. CASE \/ Link \/ Subscribe \/ MainCheck \/ MainStart \/ on_wlan_event
            \/ EventStart \/ Shutdown \/ StopDone \/ UNCHANGED serverVars
            \/ SocketEnds \/ Connect \/ Frame \/ RunWork \/ Silence
  <2>1. UNCHANGED <<shape, wk, out>>
    BY <1>10 DEF Link, Apart, Subscribe, MainCheck, MainStart, on_wlan_event,
       EventStart, Shutdown, StopDone, server_start, sessVars, serverVars,
       SocketEnds, Connect, Frame, RunWork, Silence
  <2> QED  BY <1>2, <2>1 DEF OutInv
<1> QED  BY <1>6, <1>7, <1>8, <1>9, <1>10 DEF ServerNext

LEMMA OutInit == ServerInit => OutInv
<1> SUFFICES ASSUME ServerInit PROVE OutInv
  OBVIOUS
<1>1. wk = Idle /\ out = NoOut /\ shape \in Shapes
  BY DEF ServerInit
<1>2. N \in Nat \ {0} /\ Sockets \in Nat
  BY <1>1, ServerAssumption DEF N
<1> QED  BY <1>1, <1>2 DEF OutInv, Outs, NoOut, Slots

(* At first everything is free. *)
LEMMA BaseInit == ServerInit => BaseInv
<1> SUFFICES ASSUME ServerInit PROVE BaseInv
  OBVIOUS
<1>1. /\ shape \in Shapes /\ sock = [f \in Fds |-> 0]
      /\ sessions = [s \in Slots |-> Free] /\ conns = 0 /\ slots = N
      /\ rxq = <<>> /\ free = shape.pool /\ work = <<>>
      /\ wk = Idle /\ dropped = FALSE
  BY DEF ServerInit
<1>2. N \in Nat \ {0} /\ shape.pool \in Nat /\ shape.conns \in Nat
  BY <1>1, ServerAssumption DEF N
<1>3. Free \in Entries /\ ~ Free.active /\ Free.conn = 0
  BY ServerAssumption DEF Free, Entries
<1>4. Idle \in [d : Descs, live : BOOLEAN] /\ Idle.d.kind = "none" /\ ~ Idle.live
  BY <1>2 DEF Idle, NoDesc, Descs, Slots
<1>5. TableTypes
  <2>1. /\ sock \in [Fds -> Nat] /\ sessions \in [Slots -> Entries]
        /\ conns \in 0 .. shape.conns /\ free \in Nat
    BY <1>1, <1>2, <1>3
  <2>2. /\ rxq \in Seq(Descs) /\ work \in Seq([kind : {"tx", "close"}, fd : Fds])
    BY <1>1
  <2>3. dropped \in BOOLEAN
    BY <1>1
  <2> QED  BY <1>1, <1>4, <2>1, <2>2, <2>3 DEF TableTypes
<1>6. FramesIn(rxq) = {} /\ Handled = 0
  BY <1>1, <1>4 DEF FramesIn, Handled
<1>7. Cardinality(FramesIn(rxq)) = 0
  BY <1>6, FS_EmptySet
<1>8. BuffersInv
  BY <1>1, <1>2, <1>6, <1>7 DEF BuffersInv
<1>9. TableInv
  BY <1>1, <1>3 DEF TableInv
<1>10. ClosesInv
  BY <1>1, <1>4 DEF ClosesInv, Ends
<1>11. Busy = {}
  BY <1>1, <1>3 DEF Busy
<1>12. Cardinality(Busy) = 0
  BY <1>11, FS_EmptySet
<1>13. SlotsInv
  BY <1>1, <1>2, <1>12 DEF SlotsInv
<1>14. FreedInv
  BY <1>1, <1>3 DEF FreedInv
<1> QED  BY <1>5, <1>8, <1>9, <1>10, <1>13, <1>14 DEF BaseInv

(* local_server.c: slots, table and buffers are all back as soon as the    *)
(* sockets are closed and the queue is worked off, for every number of     *)
(* clients, every depth of the queue and every course of sockets, strikes, *)
(* timeouts and stops: the safety part of NothingLeaks.                    *)
THEOREM NothingStaysTaken == ServerSpec => []QuietIsClean
<1>1. BaseInv => QuietIsClean
  <2> SUFFICES ASSUME BaseInv, rxq = <<>>, wk = Idle, \A f \in Fds : sock[f] = 0
               PROVE  Clean
    BY DEF QuietIsClean
  <2>1. TableTypes /\ TableInv /\ SlotsInv /\ FreedInv /\ BuffersInv
    BY DEF BaseInv
  <2>2. ASSUME NEW s \in Slots, sessions[s].active
        PROVE  FALSE
    <3>1. Held(s) /\ sessions[s].conn # 0
      BY <2>1, <2>2 DEF FreedInv, TableInv
    <3>2. ~ CloseAhead(s)
      BY DEF CloseAhead, Idle, NoDesc
    <3> QED  BY <3>1, <3>2 DEF Held
  <2>3. Busy = {}
    BY <2>2 DEF Busy
  <2>4. Cardinality(Busy) = 0
    BY <2>3, FS_EmptySet
  <2>5. slots = N
    <3>1. slots \in Nat /\ Cardinality(Busy) + slots = N
      BY <2>1 DEF SlotsInv
    <3> QED  BY <2>4, <3>1
  <2>6. free = shape.pool
    <3>1. FramesIn(rxq) = {} /\ Handled = 0
      BY DEF FramesIn, Handled, Idle, NoDesc
    <3>2. Cardinality(FramesIn(rxq)) = 0
      BY <3>1, FS_EmptySet
    <3>3. Cardinality(FramesIn(rxq)) + free + Handled = shape.pool /\ free \in Nat
      BY <2>1 DEF BuffersInv, TableTypes
    <3> QED  BY <3>1, <3>2, <3>3
  <2> QED  BY <2>2, <2>5, <2>6 DEF Clean
<1> QED  BY <1>1, BaseInit, BaseStep, OutInit, OutStep, PTL DEF ServerSpec

-----------------------------------------------------------------------------
(* The types of the link and of start and stop. *)

LinkTypes ==
  /\ radio \in {"off", "start", "idle", "trying", "up"}
  /\ wlan \in {"disconnected", "connecting", "connected"}
  /\ handler \in {"none", "gotip", "lost"} /\ events \in Seq({"up", "down"})
  /\ timer \in BOOLEAN /\ shutdown \in BOOLEAN /\ cb \in BOOLEAN
  /\ sem \in BOOLEAN /\ started \in BOOLEAN /\ refused \in BOOLEAN
  /\ missed \in BOOLEAN /\ stuck \in BOOLEAN
Boots == {"wlan", "callback", "signal", "subscribe", "subscribe2", "check",
          "start", "done"}
StartTypes ==
  /\ boot \in Boots /\ subs \subseteq {"up", "down"}
  /\ unheard \in BOOLEAN /\ hd \in BOOLEAN /\ failed \in BOOLEAN
  /\ httpd \in {"none", "running", "closing"}
  /\ epc \in {"idle", "starting", "stopping"}

(* The steps of the WLAN and of the protocol starter. *)
LEMMA LinkStep ==
  ASSUME LinkTypes, boot \in Boots, LinkNext
  PROVE  LinkTypes' /\ boot' \in Boots
<1>0. /\ radio \in {"off", "start", "idle", "trying", "up"}
      /\ wlan \in {"disconnected", "connecting", "connected"}
      /\ handler \in {"none", "gotip", "lost"} /\ events \in Seq({"up", "down"})
      /\ timer \in BOOLEAN /\ shutdown \in BOOLEAN /\ cb \in BOOLEAN
      /\ sem \in BOOLEAN /\ started \in BOOLEAN /\ refused \in BOOLEAN
      /\ missed \in BOOLEAN /\ stuck \in BOOLEAN
  BY DEF LinkTypes
<1>1. boot' \in Boots
  BY DEF LinkNext, wlan_com_connect, task_com_start, StaStart, StaGotIp, GotIpDone,
     StaDisconnected, LostDone, reconn_timer_cb, wlan_com_teardown_for_reboot,
     com_starter_task, Boots
<1>2. radio' \in {"off", "start", "idle", "trying", "up"}
      /\ wlan' \in {"disconnected", "connecting", "connected"}
      /\ handler' \in {"none", "gotip", "lost"}
  BY <1>0 DEF LinkNext, wlan_com_connect, task_com_start, StaStart, StaGotIp, GotIpDone,
     StaDisconnected, LostDone, reconn_timer_cb, wlan_com_teardown_for_reboot,
     com_starter_task, set_state, esp_wifi_connect
<1>3. events' \in Seq({"up", "down"})
  <2>1. events' = events \/ events' = Append(events, "up")
        \/ events' = Append(events, "down")
    BY DEF LinkNext, wlan_com_connect, task_com_start, StaStart, StaGotIp, GotIpDone,
       StaDisconnected, LostDone, reconn_timer_cb, wlan_com_teardown_for_reboot,
       com_starter_task, event_manager_publish
  <2> QED  BY <1>0, <2>1
<1>4. /\ timer' \in BOOLEAN /\ shutdown' \in BOOLEAN /\ cb' \in BOOLEAN
  BY <1>0 DEF LinkNext, wlan_com_connect, task_com_start, StaStart, StaGotIp, GotIpDone,
     StaDisconnected, LostDone, reconn_timer_cb, wlan_com_teardown_for_reboot,
     com_starter_task
<1>6. missed' \in BOOLEAN /\ stuck' \in BOOLEAN
  BY <1>0 DEF LinkNext, wlan_com_connect, task_com_start, StaStart, StaGotIp, GotIpDone,
     StaDisconnected, LostDone, reconn_timer_cb, wlan_com_teardown_for_reboot,
     com_starter_task, event_manager_publish, esp_wifi_connect
<1>5. /\ sem' \in BOOLEAN /\ started' \in BOOLEAN /\ refused' \in BOOLEAN
  BY <1>0 DEF LinkNext, wlan_com_connect, task_com_start, StaStart, StaGotIp, GotIpDone,
     StaDisconnected, LostDone, reconn_timer_cb, wlan_com_teardown_for_reboot,
     com_starter_task, set_state, fountain_proto_start
<1> QED  BY <1>1, <1>2, <1>3, <1>4, <1>5, <1>6 DEF LinkTypes

(* The other steps, of which only start and stop change anything here. *)
LEMMA StartTypesStep ==
  ASSUME LinkTypes, StartTypes, [ServerNext]_serverVars
  PROVE  LinkTypes' /\ StartTypes'
<1>0. /\ boot \in Boots /\ subs \subseteq {"up", "down"}
      /\ unheard \in BOOLEAN /\ hd \in BOOLEAN /\ failed \in BOOLEAN
      /\ httpd \in {"none", "running", "closing"}
      /\ epc \in {"idle", "starting", "stopping"}
  BY DEF StartTypes
<1>1. CASE Link
  <2>1. LinkNext /\ UNCHANGED <<subs, unheard, hd, httpd, failed, epc>>
    BY <1>1 DEF Link, Apart
  <2>2. LinkTypes' /\ boot' \in Boots
    BY <1>0, <2>1, LinkStep
  <2> QED  BY <1>0, <2>1, <2>2 DEF StartTypes
<1>2. CASE on_wlan_event
  <2>1. UNCHANGED <<radio, wlan, handler, timer, shutdown, cb, sem, started, refused,
                    missed, stuck, subs, httpd, failed, boot>>
    BY <1>2 DEF on_wlan_event
  <2>2. events # <<>> /\ events' = Tail(events)
    BY <1>2 DEF on_wlan_event
  <2>3. events' \in Seq({"up", "down"})
    BY <2>2 DEF LinkTypes
  <2>4. unheard' \in BOOLEAN
    BY <1>2, Zenon DEF on_wlan_event
  <2>5. hd' \in BOOLEAN /\ epc' \in {"idle", "starting", "stopping"}
    BY <1>0, <1>2 DEF on_wlan_event
  <2> QED  BY <1>0, <2>1, <2>3, <2>4, <2>5 DEF LinkTypes, StartTypes
<1>3. CASE UNCHANGED linkVars /\ (MainStart \/ EventStart)
  <2>1. /\ hd' \in BOOLEAN /\ failed' \in BOOLEAN
        /\ httpd' \in {"none", "running", "closing"} /\ UNCHANGED <<subs, unheard>>
    BY <1>0, <1>3 DEF MainStart, EventStart, server_start
  <2>2. boot' \in Boots /\ epc' \in {"idle", "starting", "stopping"}
    BY <1>0, <1>3 DEF MainStart, EventStart, Boots
  <2> QED  BY <1>0, <1>3, <2>1, <2>2 DEF linkVars, LinkTypes, StartTypes
<1>4. CASE Subscribe \/ MainCheck \/ Shutdown \/ StopDone
  <2>1. UNCHANGED linkVars /\ UNCHANGED <<unheard, hd, failed>>
    BY <1>4 DEF Subscribe, MainCheck, Shutdown, StopDone
  <2>2. /\ boot' \in Boots /\ subs' \subseteq {"up", "down"}
        /\ httpd' \in {"none", "running", "closing"}
        /\ epc' \in {"idle", "starting", "stopping"}
    BY <1>0, <1>4 DEF Subscribe, MainCheck, Shutdown, StopDone, Boots,
                      event_manager_subscribe
  <2> QED  BY <1>0, <2>1, <2>2 DEF linkVars, LinkTypes, StartTypes
<1>5. CASE \/ SocketEnds \/ Connect \/ Frame \/ RunWork \/ WorkerTake \/ WorkerDo
           \/ WorkerUse \/ timeout_scan \/ Silence \/ UNCHANGED serverVars
  <2>1. UNCHANGED <<linkVars, startVars>>
    BY <1>5 DEF SocketEnds, Connect, Frame, RunWork, WorkerTake, WorkerDo,
                WorkerUse, timeout_scan, Silence, serverVars
  <2> QED  BY <1>0, <2>1 DEF linkVars, startVars, LinkTypes, StartTypes
<1>6. MainStart \/ EventStart => UNCHANGED linkVars
  BY DEF MainStart, EventStart, server_start
<1> QED  BY <1>1, <1>2, <1>3, <1>4, <1>5, <1>6 DEF ServerNext

(* Link, start and stop, table, queues and worker keep their types; free   *)
(* slots and buffers stay within their pools and strikes within their      *)
(* limit, for every build (wlan_com.c, task_com.c, local_server.c).        *)
THEOREM ServerTypes == ServerSpec => []ServerTypeOK
<1> DEFINE Inv == BaseInv /\ OutInv /\ LinkTypes /\ StartTypes
<1>1. ServerInit => Inv
  <2> SUFFICES ASSUME ServerInit PROVE LinkTypes /\ StartTypes
    BY BaseInit, OutInit
  <2>1. LinkInit \/ LinkUp(<<>>) \/ LinkUp(<<"up">>)
    BY DEF ServerInit
  <2>2. LinkTypes
    <3>1. /\ radio \in {"off", "start", "idle", "trying", "up"}
          /\ wlan \in {"disconnected", "connecting", "connected"}
          /\ handler \in {"none", "gotip", "lost"}
          /\ events = <<>> \/ events = <<"up">>
      BY <2>1 DEF LinkInit, LinkUp
    <3>2. /\ timer \in BOOLEAN /\ shutdown \in BOOLEAN /\ cb \in BOOLEAN
          /\ sem \in BOOLEAN /\ started \in BOOLEAN /\ refused \in BOOLEAN
          /\ missed \in BOOLEAN /\ stuck \in BOOLEAN
      BY <2>1 DEF LinkInit, LinkUp
    <3>3. events \in Seq({"up", "down"})
      <4>1. <<"up">> \in Seq({"up", "down"}) /\ <<>> \in Seq({"up", "down"})
        OBVIOUS
      <4> QED  BY <3>1, <4>1
    <3> QED  BY <3>1, <3>2, <3>3 DEF LinkTypes
  <2>3. StartTypes
    BY DEF ServerInit, StartTypes, Boots
  <2> QED  BY <2>2, <2>3
<1>2. Inv /\ [ServerNext]_serverVars => Inv'
  BY BaseStep, OutStep, StartTypesStep
<1>3. Inv => ServerTypeOK
  <2> SUFFICES ASSUME Inv PROVE ServerTypeOK
    OBVIOUS
  <2>1. TableTypes /\ TableInv /\ SlotsInv /\ BuffersInv /\ LinkTypes /\ StartTypes
    BY DEF BaseInv
  <2>2. /\ shape \in Shapes /\ N \in Nat /\ shape.pool \in Nat /\ shape.conns \in Nat
        /\ conns \in Nat /\ rxq \in Seq(AnyDescs)
    BY <2>1, ShapeTypes
  <2>3. sock \in [Fds -> 0 .. shape.conns]
    <3>1. \A f \in Fds : sock[f] <= conns
      <4> SUFFICES ASSUME NEW f \in Fds, sock[f] # 0 PROVE sock[f] <= conns
        BY <2>2
      <4>1. PICK s \in Slots : sessions[s].conn = sock[f]
        BY <2>1 DEF TableInv
      <4> QED  BY <2>1, <4>1 DEF TableInv
    <3>2. conns <= shape.conns /\ sock \in [Fds -> Nat]
      BY <2>1, <2>2 DEF TableTypes
    <3> QED  BY <2>2, <3>1, <3>2
  <2>4. slots \in 0 .. N
    <3>1. slots \in Nat /\ Cardinality(Busy) + slots = N /\ Cardinality(Busy) \in Nat
      BY <2>1, BusyFinite DEF SlotsInv
    <3> QED  BY <2>2, <3>1
  <2>5. free \in 0 .. shape.pool
    <3>1. Cardinality(FramesIn(rxq)) \in Nat
      BY <2>2, FramesFinite
    <3>2. /\ Cardinality(FramesIn(rxq)) + free + Handled = shape.pool
          /\ free \in Nat /\ Handled \in {0, 1}
      BY <2>1 DEF BuffersInv, TableTypes, Handled
    <3> QED  BY <2>2, <3>1, <3>2
  <2>6. {timer, shutdown, cb, sem, started, refused, missed, stuck} \subseteq BOOLEAN
    BY <2>1, Zenon DEF LinkTypes
  <2>7. {unheard, hd, failed, dropped} \subseteq BOOLEAN
    BY <2>1, Zenon DEF StartTypes, TableTypes
  <2>8. /\ sessions \in [Slots -> Entries] /\ conns \in 0 .. shape.conns
        /\ rxq \in Seq(Descs) /\ wk \in [d : Descs, live : BOOLEAN]
        /\ work \in Seq([kind : {"tx", "close"}, fd : Fds])
    BY <2>1 DEF TableTypes
  <2>9. out \in [kind : {"none", "hello", "tx", "close"}, slot : Slots,
                 fd : 0 .. Sockets]
    BY DEF OutInv, Outs
  <2> QED
    BY <2>1, <2>2, <2>3, <2>4, <2>5, <2>6, <2>7, <2>8, <2>9
       DEF ServerTypeOK, LinkTypes, StartTypes, Boots, Entries
<1> QED  BY <1>1, <1>2, <1>3, PTL DEF ServerSpec

-----------------------------------------------------------------------------
(* A queue that is deep enough: how many descriptors it can hold. *)

LEMMA Bounded ==
  ASSUME ServerInv, NEW C \in SUBSET (1 .. 2 * N),
         \A i \in 1 .. Len(rxq) : rxq[i].kind # "frame" => Code(N, rxq[i]) \in C
  PROVE  Len(rxq) <= shape.pool - free + Cardinality(C)
<1>1. /\ N \in Nat /\ shape.pool \in Nat /\ rxq \in Seq(AnyDescs)
      /\ \A i \in 1 .. Len(rxq) : rxq[i] \in Descs
  BY ShapeTypes DEF ServerInv, BaseInv
<1>2. \A i \in 1 .. Len(rxq) : rxq[i].kind # "frame" =>
         /\ rxq[i].kind \in {"open", "close"} /\ rxq[i].slot \in 1 .. N
         /\ Code(N, rxq[i]) \in C
  BY <1>1 DEF ServerInv, BaseInv, QueueInv, Descs, Slots
<1>3. \A i, j \in 1 .. Len(rxq) :
         i < j /\ rxq[i].slot = rxq[j].slot
           /\ rxq[i].kind # "frame" /\ rxq[j].kind # "frame" =>
         rxq[i].kind = "open" /\ rxq[j].kind = "close"
  BY DEF ServerInv, BaseInv, QueueInv
<1>4. /\ IsFiniteSet(C)
      /\ Len(rxq) <= Cardinality(FramesIn(rxq)) + Cardinality(C)
  BY <1>1, <1>2, <1>3, LengthBound
<1>5. Cardinality(FramesIn(rxq)) \in Nat /\ Cardinality(C) \in Nat
  BY <1>1, <1>4, FramesFinite, FS_CardinalityType
<1>6. /\ Cardinality(FramesIn(rxq)) + free + Handled = shape.pool
      /\ Handled \in {0, 1} /\ free \in Nat
  BY DEF ServerInv, BaseInv, BuffersInv, Handled, TableTypes
<1> QED  BY <1>1, <1>4, <1>5, <1>6

(* For a frame with a buffer. *)
LEMMA RoomForFrame ==
  ASSUME ServerInv, Enough, free > 0
  PROVE  Len(rxq) < shape.depth
<1>1. /\ N \in Nat /\ shape.pool \in Nat /\ shape.depth \in Nat
      /\ rxq \in Seq(AnyDescs)
      /\ \A i \in 1 .. Len(rxq) : rxq[i] \in Descs
  BY ShapeTypes DEF ServerInv, BaseInv
<1>2. \A i \in 1 .. Len(rxq) : rxq[i].kind # "frame" =>
         Code(N, rxq[i]) \in 1 .. 2 * N
  BY <1>1 DEF Code, Descs, Slots
<1>3. 1 \in Int /\ 2 * N \in Int
  BY <1>1
<1>a. Cardinality(1 .. 2 * N) = IF 1 > 2 * N THEN 0 ELSE 2 * N - 1 + 1
  BY <1>3, FS_Interval
<1>4. Cardinality(1 .. 2 * N) = 2 * N
  BY <1>1, <1>a
<1>5. Len(rxq) <= shape.pool - free + 2 * N
  BY <1>2, <1>4, Bounded
<1>6. free \in Nat /\ Len(rxq) \in Nat
  BY <1>1 DEF ServerInv, BaseInv, TableTypes
<1> QED  BY <1>1, <1>5, <1>6 DEF Enough

(* For an open or a close of a slot that has none in the queue. *)
LEMMA RoomForOther ==
  ASSUME ServerInv, Enough, NEW s \in Slots, NEW k \in {"open", "close"},
         \A i \in 1 .. Len(rxq) : ~ (rxq[i].kind = k /\ rxq[i].slot = s)
  PROVE  Len(rxq) < shape.depth
<1> DEFINE d == Desc(k, s, 0)
           C == (1 .. 2 * N) \ {Code(N, d)}
<1>1. /\ N \in Nat /\ shape.pool \in Nat /\ shape.depth \in Nat
      /\ rxq \in Seq(AnyDescs)
      /\ \A i \in 1 .. Len(rxq) : rxq[i] \in Descs
  BY ShapeTypes DEF ServerInv, BaseInv
<1>2. s \in 1 .. N /\ d.kind = k /\ d.slot = s
  BY DEF Slots, Desc
<1> HIDE DEF d
<1>3. Code(N, d) \in 1 .. 2 * N
  BY <1>1, <1>2 DEF Code
<1>4. ASSUME NEW i \in 1 .. Len(rxq), rxq[i].kind # "frame"
      PROVE  Code(N, rxq[i]) \in C
  <2>1. rxq[i].kind \in {"open", "close"} /\ rxq[i].slot \in 1 .. N
    BY <1>1, <1>4 DEF ServerInv, BaseInv, QueueInv, Descs, Slots
  <2>2. Code(N, rxq[i]) # Code(N, d)
    BY <1>1, <1>2, <2>1 DEF Code
  <2> QED  BY <1>1, <2>1, <2>2 DEF Code
<1>5. Cardinality(C) = 2 * N - 1
  <2>1. 1 \in Int /\ 2 * N \in Int
    BY <1>1
  <2>a. /\ IsFiniteSet(1 .. 2 * N)
        /\ Cardinality(1 .. 2 * N) = IF 1 > 2 * N THEN 0 ELSE 2 * N - 1 + 1
    BY <2>1, FS_Interval
  <2>2. IsFiniteSet(1 .. 2 * N) /\ Cardinality(1 .. 2 * N) = 2 * N
    BY <1>1, <2>a
  <2> QED  BY <1>3, <2>2, FS_RemoveElement
<1>6. Len(rxq) <= shape.pool - free + Cardinality(C)
  <2>1. C \in SUBSET (1 .. 2 * N)
    OBVIOUS
  <2> HIDE DEF C
  <2> QED  BY <1>4, <2>1, Bounded
<1>7. free \in Nat /\ Len(rxq) \in Nat
  BY <1>1 DEF ServerInv, BaseInv, TableTypes
<1> QED  BY <1>1, <1>5, <1>6, <1>7 DEF Enough

-----------------------------------------------------------------------------
(* Then no descriptor is refused, and the worker's session is its own. *)

LEMMA QueueAside ==
  ASSUME ServerInv, Alike, UNCHANGED <<rxq, wk, dropped>>
  PROVE  QueueInv' /\ WorkerInv' /\ ~ dropped'
<1>1. TableTypes /\ QueueInv /\ WorkerInv /\ ~ dropped
  BY DEF ServerInv, BaseInv
<1>2. wk.d.slot \in Slots /\ \A i \in 1 .. Len(rxq) : rxq[i].slot \in Slots
  BY <1>1, ShapeTypes DEF TableTypes, Descs
<1>3. QueueInv'
  BY <1>1, <1>2 DEF QueueInv, Owned, Alike
<1>4. WorkerInv'
  BY <1>1, <1>2 DEF WorkerInv, Owned, Alike
<1> QED  BY <1>1, <1>3, <1>4

(* A frame has a buffer, and so it has room in the queue. *)
LEMMA FrameStep ==
  ASSUME ServerInv, Enough, Frame
  PROVE  QueueInv' /\ WorkerInv' /\ ~ dropped'
<1>0. TableTypes /\ TableInv /\ BuffersInv /\ QueueInv /\ WorkerInv /\ ~ dropped
  BY DEF ServerInv, BaseInv
<1>1. PICK f \in Fds :
        /\ sock[f] # 0
        /\ desc_enqueue(Desc("frame", SlotOf(f), sessions[SlotOf(f)].conn))
        /\ sessions' = [sessions EXCEPT ![SlotOf(f)].idle = FALSE]
  BY DEF Frame
<1>2. PICK s \in Slots : s = SlotOf(f)
  BY <1>0, <1>1, SlotFound
<1> DEFINE d == Desc("frame", s, sessions[s].conn)
<1>3. free > 0 /\ UNCHANGED <<shape, wk>>
  BY DEF Frame
<1>4. sessions \in [Slots -> Entries] /\ wk.d.slot \in Slots
  BY <1>0 DEF TableTypes, Descs
<1>5. d \in Descs /\ d.kind = "frame"
  BY <1>4 DEF Desc, Descs, Entries
<1>6. desc_enqueue(d)
  BY <1>1, <1>2
<1> HIDE DEF d
<1>7. rxq' = Append(rxq, d) /\ UNCHANGED dropped
  <2>1. Len(rxq) < shape.depth
    BY <1>3, RoomForFrame
  <2> QED  BY <1>0, <1>3, <1>5, <1>6, <2>1, Enqueued
<1>8. Alike
  BY <1>1, <1>2, <1>4 DEF Alike, Entries
<1>9. /\ \A i \in 1 .. Len(rxq') : \/ i \in 1 .. Len(rxq) /\ rxq'[i] = rxq[i]
                                   \/ i = Len(rxq) + 1 /\ rxq'[i] = d
      /\ \A i \in 1 .. Len(rxq) : rxq[i].slot \in Slots
  BY <1>0, <1>5, <1>7, OneMore
<1>10. \A i \in 1 .. Len(rxq') : rxq'[i].kind # "frame" =>
         i \in 1 .. Len(rxq) /\ rxq'[i] = rxq[i]
  BY <1>5, <1>9
<1>11. QueueInv'
  <2>1. ASSUME NEW i \in 1 .. Len(rxq')
        PROVE  /\ rxq'[i].kind # "none"
               /\ rxq'[i].kind # "frame" => Owned(rxq[i])'
               /\ rxq'[i].kind = "close" =>
                    sessions'[rxq'[i].slot].state = "closing"
    BY <1>0, <1>5, <1>8, <1>9 DEF QueueInv, Owned, Alike
  <2>2. \A i, j \in 1 .. Len(rxq') :
           i < j /\ rxq'[i].slot = rxq'[j].slot
             /\ rxq'[i].kind # "frame" /\ rxq'[j].kind # "frame" =>
           rxq'[i].kind = "open" /\ rxq'[j].kind = "close"
    BY <1>0, <1>10 DEF QueueInv
  <2> QED  BY <2>1, <2>2 DEF QueueInv
<1>12. WorkerInv'
  <2>1. ASSUME NEW i \in 1 .. Len(rxq'), wk.d.kind = "close",
               rxq'[i].slot = wk.d.slot
        PROVE  rxq'[i].kind = "frame"
    BY <1>0, <1>5, <1>9, <2>1 DEF WorkerInv
  <2> QED  BY <1>0, <1>3, <1>4, <1>8, <2>1 DEF WorkerInv, Owned, Alike
<1> QED  BY <1>0, <1>7, <1>11, <1>12

(* on_sess_free: the entry is closing now, and its close is in the queue. *)
LEMMA CloseStep ==
  ASSUME ServerInv, Enough, NEW f \in Fds, CloseSocket(f), UNCHANGED <<shape, wk>>
  PROVE  QueueInv' /\ WorkerInv' /\ ~ dropped'
<1>0. TableTypes /\ TableInv /\ BuffersInv /\ QueueInv /\ WorkerInv /\ ~ dropped
  BY DEF ServerInv, BaseInv
<1>1. PICK s \in Slots : s = SlotOf(f)
  BY <1>0, SlotFound DEF CloseSocket
<1>2. /\ sessions[s].conn = sock[f] /\ sessions[s].active
      /\ sessions[s].state # "closing" /\ on_sess_free(s)
  BY <1>0, <1>1, SlotFound DEF CloseSocket
<1> DEFINE d == Desc("close", s, sessions[s].conn)
<1>3. sessions \in [Slots -> Entries] /\ wk.d.slot \in Slots
  BY <1>0 DEF TableTypes, Descs
<1>4. d \in Descs /\ d.kind = "close" /\ d.slot = s /\ d.conn = sessions[s].conn
  BY <1>3 DEF Desc, Descs, Entries
<1>5. \A i \in 1 .. Len(rxq) : ~ (rxq[i].kind = "close" /\ rxq[i].slot = s)
  BY <1>0, <1>2 DEF QueueInv
<1>6. Len(rxq) < shape.depth
  BY <1>5, RoomForOther
<1>7. desc_enqueue(d) /\ sessions' = [sessions EXCEPT ![s].state = "closing"]
  BY <1>2, <1>6 DEF on_sess_free
<1> HIDE DEF d
<1>8. rxq' = Append(rxq, d) /\ UNCHANGED dropped
  BY <1>0, <1>4, <1>6, <1>7, Enqueued
<1>9. /\ \A t \in Slots : /\ sessions'[t].active <=> sessions[t].active
                          /\ sessions'[t].conn = sessions[t].conn
                          /\ t # s => sessions'[t].state = sessions[t].state
      /\ sessions'[s].state = "closing"
  BY <1>3, <1>7 DEF Entries
<1>10. /\ \A i \in 1 .. Len(rxq') : \/ i \in 1 .. Len(rxq) /\ rxq'[i] = rxq[i]
                                    \/ i = Len(rxq) + 1 /\ rxq'[i] = d
       /\ \A i \in 1 .. Len(rxq) : rxq[i].slot \in Slots /\ rxq[i] \in Descs
       /\ Len(rxq') = Len(rxq) + 1 /\ Len(rxq) \in Nat
  BY <1>0, <1>4, <1>8, OneMore, Appended, ShapeTypes
<1>11. QueueInv'
  <2>1. ASSUME NEW i \in 1 .. Len(rxq')
        PROVE  /\ rxq'[i].kind # "none"
               /\ rxq'[i].kind # "frame" => Owned(rxq[i])'
               /\ rxq'[i].kind = "close" =>
                    sessions'[rxq'[i].slot].state = "closing"
    <3>1. CASE i \in 1 .. Len(rxq) /\ rxq'[i] = rxq[i]
      BY <3>1, <1>0, <1>9, <1>10 DEF QueueInv, Owned
    <3>2. CASE rxq'[i] = d
      BY <3>2, <1>2, <1>4, <1>9 DEF Owned
    <3> QED  BY <3>1, <3>2, <1>10
  <2>2. ASSUME NEW i \in 1 .. Len(rxq'), NEW j \in 1 .. Len(rxq'), i < j,
               rxq'[i].slot = rxq'[j].slot,
               rxq'[i].kind # "frame", rxq'[j].kind # "frame"
        PROVE  rxq'[i].kind = "open" /\ rxq'[j].kind = "close"
    <3>1. i \in 1 .. Len(rxq) /\ rxq'[i] = rxq[i]
      BY <2>2, <1>10
    <3>2. CASE j \in 1 .. Len(rxq) /\ rxq'[j] = rxq[j]
      BY <1>0, <2>2, <3>1, <3>2 DEF QueueInv
    <3>3. CASE rxq'[j] = d
      <4>1. rxq[i].kind \in {"open", "close"}
        BY <1>0, <1>10, <2>2, <3>1 DEF QueueInv, Descs
      <4> QED  BY <2>2, <3>1, <3>3, <4>1, <1>4, <1>5
    <3> QED  BY <3>2, <3>3, <1>10
  <2> QED  BY <2>1, <2>2 DEF QueueInv
<1>12. WorkerInv'
  <2>1. wk.d.kind = "close" => wk.d.slot # s
    BY <1>0, <1>2 DEF WorkerInv
  <2>2. ASSUME NEW i \in 1 .. Len(rxq'), wk.d.kind = "close",
               rxq'[i].slot = wk.d.slot
        PROVE  rxq'[i].kind = "frame"
    BY <1>0, <1>4, <1>10, <2>1, <2>2 DEF WorkerInv
  <2> QED  BY <1>0, <1>3, <1>9, <2>1, <2>2 DEF WorkerInv, Owned
<1> QED  BY <1>0, <1>8, <1>11, <1>12

(* A new client: its slot has no descriptor left, neither in the queue nor *)
(* with the worker.                                                        *)
LEMMA ConnectStep ==
  ASSUME ServerInv, Enough, Connect
  PROVE  QueueInv' /\ WorkerInv' /\ ~ dropped'
<1>0. TableTypes /\ BuffersInv /\ QueueInv /\ WorkerInv /\ ~ dropped
  BY DEF ServerInv, BaseInv
<1>1. PICK f \in Fds, s \in Slots :
        /\ ~ sessions[s].active
        /\ sessions' = [sessions EXCEPT ![s] =
              [active |-> TRUE, conn |-> conns + 1, fd |-> f,
               state |-> "connected", strikes |-> 0, idle |-> FALSE]]
        /\ desc_enqueue(Desc("open", s, conns + 1))
  BY DEF Connect
<1> DEFINE d == Desc("open", s, conns + 1)
<1>2. UNCHANGED <<shape, wk>>
  BY DEF Connect
<1>3. sessions \in [Slots -> Entries] /\ conns \in Nat /\ wk.d.slot \in Slots
  BY <1>0, ShapeTypes DEF TableTypes, Descs
<1>4. d \in Descs /\ d.kind = "open" /\ d.slot = s /\ d.conn = conns + 1
  BY <1>3 DEF Desc, Descs
<1>5. \A i \in 1 .. Len(rxq) : rxq[i].kind # "frame" => rxq[i].slot # s
  BY <1>0, <1>1 DEF QueueInv, Owned
<1>6. Len(rxq) < shape.depth
  <2>1. \A i \in 1 .. Len(rxq) : ~ (rxq[i].kind = "open" /\ rxq[i].slot = s)
    BY <1>5
  <2> QED  BY <2>1, RoomForOther
<1>7. desc_enqueue(d)
  BY <1>1
<1> HIDE DEF d
<1>8. rxq' = Append(rxq, d) /\ UNCHANGED dropped
  BY <1>0, <1>2, <1>4, <1>6, <1>7, Enqueued
<1>9. /\ \A t \in Slots : t # s => sessions'[t] = sessions[t]
      /\ sessions'[s].active /\ sessions'[s].conn = conns + 1
  BY <1>1, <1>3
<1>10. /\ \A i \in 1 .. Len(rxq') : \/ i \in 1 .. Len(rxq) /\ rxq'[i] = rxq[i]
                                    \/ i = Len(rxq) + 1 /\ rxq'[i] = d
       /\ \A i \in 1 .. Len(rxq) : rxq[i].slot \in Slots
       /\ Len(rxq') = Len(rxq) + 1 /\ Len(rxq) \in Nat
  BY <1>0, <1>4, <1>8, OneMore, Appended
<1>11. QueueInv'
  <2>1. ASSUME NEW i \in 1 .. Len(rxq')
        PROVE  /\ rxq'[i].kind # "none"
               /\ rxq'[i].kind # "frame" => Owned(rxq[i])'
               /\ rxq'[i].kind = "close" =>
                    sessions'[rxq'[i].slot].state = "closing"
    <3>1. CASE i \in 1 .. Len(rxq) /\ rxq'[i] = rxq[i]
      BY <3>1, <1>0, <1>5, <1>9, <1>10 DEF QueueInv, Owned
    <3>2. CASE rxq'[i] = d
      BY <3>2, <1>4, <1>9 DEF Owned
    <3> QED  BY <3>1, <3>2, <1>10
  <2>2. ASSUME NEW i \in 1 .. Len(rxq'), NEW j \in 1 .. Len(rxq'), i < j,
               rxq'[i].slot = rxq'[j].slot,
               rxq'[i].kind # "frame", rxq'[j].kind # "frame"
        PROVE  rxq'[i].kind = "open" /\ rxq'[j].kind = "close"
    <3>1. i \in 1 .. Len(rxq) /\ rxq'[i] = rxq[i]
      BY <2>2, <1>10
    <3>2. j \in 1 .. Len(rxq) /\ rxq'[j] = rxq[j]
      BY <2>2, <3>1, <1>4, <1>5, <1>10
    <3> QED  BY <1>0, <2>2, <3>1, <3>2 DEF QueueInv
  <2> QED  BY <2>1, <2>2 DEF QueueInv
<1>12. WorkerInv'
  <2>1. (wk.live => wk.d.slot # s) /\ (wk.d.kind = "close" => wk.live)
    BY <1>0, <1>1 DEF WorkerInv, Owned
  <2>2. ASSUME NEW i \in 1 .. Len(rxq'), wk.d.kind = "close",
               rxq'[i].slot = wk.d.slot
        PROVE  rxq'[i].kind = "frame"
    BY <1>0, <1>4, <1>10, <2>1, <2>2 DEF WorkerInv
  <2> QED  BY <1>0, <1>2, <1>3, <1>9, <2>1, <2>2 DEF WorkerInv, Owned
<1> QED  BY <1>0, <1>8, <1>11, <1>12

(* The worker takes the head of the queue, and is the only one to wipe an  *)
(* entry: behind a close, the last descriptor of its slot.                 *)
LEMMA TakeStep ==
  ASSUME ServerInv, WorkerTake
  PROVE  QueueInv' /\ WorkerInv' /\ ~ dropped'
<1>0. TableTypes /\ QueueInv /\ ~ dropped
  BY DEF ServerInv, BaseInv
<1>1. /\ UNCHANGED <<sessions, dropped>>
      /\ Len(rxq) \in Nat \ {0} /\ Len(rxq') = Len(rxq) - 1 /\ 1 \in 1 .. Len(rxq)
      /\ \A i \in 1 .. Len(rxq') : i + 1 \in 1 .. Len(rxq) /\ rxq'[i] = rxq[i + 1]
      /\ wk'.d = rxq[1] /\ (wk'.live <=> Owned(rxq[1]))
  BY <1>0, Taken
<1>2. QueueInv'
  <2>1. \A i \in 1 .. Len(rxq) :
           /\ rxq[i].kind # "none"
           /\ rxq[i].kind # "frame" => Owned(rxq[i])
           /\ rxq[i].kind = "close" => sessions[rxq[i].slot].state = "closing"
    BY <1>0 DEF QueueInv
  <2>2. \A i, j \in 1 .. Len(rxq) :
           i < j /\ rxq[i].slot = rxq[j].slot
             /\ rxq[i].kind # "frame" /\ rxq[j].kind # "frame" =>
           rxq[i].kind = "open" /\ rxq[j].kind = "close"
    BY <1>0 DEF QueueInv
  <2>3. \A i \in 1 .. Len(rxq') :
           /\ rxq'[i].kind # "none"
           /\ rxq'[i].kind # "frame" => Owned(rxq[i])'
           /\ rxq'[i].kind = "close" => sessions'[rxq'[i].slot].state = "closing"
    BY <1>1, <2>1 DEF Owned
  <2>4. ASSUME NEW i \in 1 .. Len(rxq'), NEW j \in 1 .. Len(rxq'), i < j,
               rxq'[i].slot = rxq'[j].slot,
               rxq'[i].kind # "frame", rxq'[j].kind # "frame"
        PROVE  rxq'[i].kind = "open" /\ rxq'[j].kind = "close"
    <3>1. /\ i + 1 \in 1 .. Len(rxq) /\ j + 1 \in 1 .. Len(rxq) /\ i + 1 < j + 1
          /\ rxq'[i] = rxq[i + 1] /\ rxq'[j] = rxq[j + 1]
      BY <1>1, <2>4
    <3> QED  BY <2>2, <2>4, <3>1
  <2> QED  BY <2>3, <2>4 DEF QueueInv
<1>3. WorkerInv'
  <2>1. wk'.live => Owned(wk.d)'
    BY <1>1 DEF Owned
  <2>2. ASSUME wk'.d.kind = "close"
        PROVE  /\ wk'.live /\ sessions'[wk'.d.slot].state = "closing"
    BY <1>0, <1>1, <2>2 DEF QueueInv
  <2>3. ASSUME wk'.d.kind = "close", NEW i \in 1 .. Len(rxq'),
               rxq'[i].slot = wk'.d.slot
        PROVE  rxq'[i].kind = "frame"
    <3>1. /\ i + 1 \in 1 .. Len(rxq) /\ 1 < i + 1 /\ rxq'[i] = rxq[i + 1]
          /\ rxq[1].slot = rxq[i + 1].slot /\ rxq[1].kind = "close"
      BY <1>1, <2>3
    <3> QED  BY <1>0, <1>1, <3>1 DEF QueueInv
  <2> QED  BY <2>1, <2>2, <2>3 DEF WorkerInv
<1> QED  BY <1>0, <1>1, <1>2, <1>3

(* The worker is done: of a slot it gives away nothing is left in the queue. *)
LEMMA DoStep ==
  ASSUME ServerInv, OutInv, Working
  PROVE  QueueInv' /\ WorkerInv' /\ ~ dropped'
<1>0. /\ BaseInv /\ TableTypes /\ BuffersInv
      /\ QueueInv /\ WorkerInv /\ ~ dropped
  BY DEF ServerInv, BaseInv
<1>1. UNCHANGED <<shape, rxq, dropped>>
  BY <1>0, WorkerWorks
<1>2. Finish => WorkerInv'
  BY DEF Finish, WorkerInv, Idle, NoDesc
<1>3. \A i \in 1 .. Len(rxq) : rxq[i].slot \in Slots
  BY <1>0, ShapeTypes DEF Descs
<1>4. CASE wk.d.kind # "close"
  <2>1. Alike /\ (Finish \/ UNCHANGED <<wk, free>>)
    BY <1>0, <1>4, WorkerWorks DEF Noted
  <2>2. QueueInv'
    BY <1>0, <1>1, <1>3, <2>1 DEF QueueInv, Owned, Alike
  <2>3. CASE UNCHANGED <<wk, free>>
    BY <1>1, <2>1, <2>3, QueueAside
  <2> QED  BY <1>0, <1>1, <1>2, <2>1, <2>2, <2>3
<1>5. CASE wk.d.kind = "close"
  <2>1. PICK s \in Slots : s = wk.d.slot
    BY <1>0 DEF TableTypes, Descs
  <2>2. \A i \in 1 .. Len(rxq) : rxq[i].slot = s => rxq[i].kind = "frame"
    BY <1>0, <1>5, <2>1 DEF WorkerInv
  <2>3. Wiped(s)
    BY <1>0, <1>5, <2>1, WorkerWorks
  <2>4. \A t \in Slots : t # s => sessions'[t] = sessions[t]
    BY <1>0, <2>3 DEF Wiped, Cleaned, TableTypes
  <2>5. QueueInv'
    BY <1>0, <1>1, <1>3, <2>2, <2>4 DEF QueueInv, Owned
  <2> QED  BY <1>0, <1>1, <1>2, <2>3, <2>5 DEF Wiped
<1> QED  BY <1>4, <1>5

(* httpd works off what was queued for it, or a socket ends. *)
LEMMA HttpdStep ==
  ASSUME ServerInv, Enough, RunWork \/ SocketEnds
  PROVE  QueueInv' /\ WorkerInv' /\ ~ dropped'
<1>1. UNCHANGED <<shape, wk>>
  BY DEF RunWork, SocketEnds
<1>2. CASE SocketEnds
  BY <1>1, <1>2, CloseStep DEF SocketEnds
<1>3. CASE RunWork
  <2>1. work \in Seq(Works) /\ work # <<>>
    BY <1>3 DEF ServerInv, BaseInv, TableTypes, Works, RunWork
  <2>2. PICK w \in Works : w = Head(work)
    BY <2>1
  <2>3. \/ CloseSocket(w.fd)
        \/ UNCHANGED <<sock, sessions, slots, rxq, free, dropped>>
    BY <1>3, <2>2, Zenon DEF RunWork
  <2>4. w.fd \in Fds
    BY DEF Works
  <2>5. CASE CloseSocket(w.fd)
    BY <1>1, <2>4, <2>5, CloseStep
  <2>6. CASE UNCHANGED <<sock, sessions, slots, rxq, free, dropped>>
    <3>1. Alike
      BY <2>6 DEF Alike
    <3> QED  BY <1>1, <2>6, <3>1, QueueAside
  <2> QED  BY <2>3, <2>5, <2>6
<1> QED  BY <1>2, <1>3

(* The inductive invariant of a build whose queue is deep enough. *)
EnoughInv == BaseInv /\ OutInv /\ (Enough => ServerInv)

(* Every step preserves both. *)
LEMMA ServerStep == EnoughInv /\ [ServerNext]_serverVars => EnoughInv'
<1> SUFFICES ASSUME EnoughInv, [ServerNext]_serverVars
             PROVE  EnoughInv'
  OBVIOUS
<1>1. BaseInv' /\ OutInv'
  BY BaseStep, OutStep DEF EnoughInv
<1>2. ASSUME Enough'
      PROVE  QueueInv' /\ WorkerInv' /\ ~ dropped'
  <2>1. UNCHANGED shape
    BY DEF ServerNext, serverVars, Link, Apart, Subscribe, MainCheck, MainStart,
       on_wlan_event, EventStart, Shutdown, StopDone, server_start, SocketEnds,
       Connect, Frame, RunWork, WorkerTake, WorkerDo, WorkerUse, timeout_scan, Silence
  <2>2. Enough
    BY <1>2, <2>1 DEF Enough, N
  <2>3. ServerInv /\ BaseInv /\ OutInv
    BY <2>2 DEF EnoughInv
  <2>4. CASE \/ Link \/ Subscribe \/ MainCheck \/ MainStart \/ on_wlan_event
             \/ EventStart \/ Shutdown \/ StopDone \/ UNCHANGED serverVars
             \/ timeout_scan \/ Silence
    <3>1. Alike /\ UNCHANGED <<rxq, wk, dropped>>
      BY <2>3, <2>4, BaseOthers
    <3> QED  BY <2>3, <3>1, QueueAside
  <2>5. CASE RunWork \/ SocketEnds
    BY <2>2, <2>3, <2>5, HttpdStep
  <2>6. CASE Connect
    BY <2>2, <2>3, <2>6, ConnectStep
  <2>7. CASE Frame
    BY <2>2, <2>3, <2>7, FrameStep
  <2>8. CASE WorkerTake
    BY <2>3, <2>8, TakeStep
  <2>9. CASE WorkerDo \/ WorkerUse
    BY <2>3, <2>9, DoStep DEF Working
  <2> QED
    BY <2>4, <2>5, <2>6, <2>7, <2>8, <2>9 DEF ServerNext
<1> QED  BY <1>1, <1>2 DEF EnoughInv, ServerInv

(* Sockets, table, queue, worker, slots and buffers of the local server    *)
(* agree (local_server.c, local_buffer.c): BaseInv for every build, and    *)
(* ServerInv for one whose queue is deep enough.                           *)
THEOREM ServerInvariance == ServerSpec => []EnoughInv
<1>1. ServerInit => EnoughInv
  <2> SUFFICES ASSUME ServerInit PROVE EnoughInv
    OBVIOUS
  <2>1. rxq = <<>> /\ wk = Idle /\ ~ dropped
    BY DEF ServerInit
  <2>2. QueueInv /\ WorkerInv
    BY <2>1 DEF QueueInv, WorkerInv, Idle, NoDesc
  <2> QED  BY <2>1, <2>2, BaseInit, OutInit DEF EnoughInv, ServerInv
<1> QED  BY <1>1, ServerStep, PTL DEF ServerSpec

(* local_server.c: for every number of clients, sockets and buffers, a     *)
(* queue of two entries per client and one per buffer never refuses a      *)
(* descriptor, whatever clients, link, strikes and timeouts do.            *)
THEOREM QueueIsEnough == ServerSpec => []QueueSuffices
<1>1. EnoughInv => QueueSuffices
  BY DEF EnoughInv, ServerInv, QueueSuffices
<1> QED  BY <1>1, ServerInvariance, PTL

(* And then the worker, which uses a session without the lock, uses the    *)
(* one its descriptor was made for: the slot is neither wiped nor given to *)
(* another client meanwhile.                                               *)
THEOREM WorkerKeepsSlot == ServerSpec => []WorkerOwnsSlot
<1>1. EnoughInv => WorkerOwnsSlot
  BY DEF EnoughInv, ServerInv, WorkerInv, Owned, WorkerOwnsSlot
<1> QED  BY <1>1, ServerInvariance, PTL
=============================================================================
