------------------------ MODULE PressureInputProofs ------------------------
(***************************************************************************)
(* Proofs about PressureInput: the debounce tolerates every series of      *)
(* fewer than FailLimit failed reads, for all constants for which the      *)
(* plant cannot drift beyond the jump limit during such a series.          *)
(***************************************************************************)
EXTENDS PressureInput, TLAPS

Physical == Drift * FailLimit <= MaxJump

LEMMA DriftStep ==
  ASSUME NEW n \in Nat, n < FailLimit
  PROVE  /\ Drift * n \in Nat
         /\ Drift * (n + 1) = Drift * n + Drift
         /\ Drift * n + Drift <= Drift * FailLimit
         /\ Drift * 0 = 0
  <1>1. Drift \in Nat /\ FailLimit \in Nat
    BY InputAssumption
  <1>2. Drift * (n + 1) = Drift * n + Drift /\ Drift * n \in Nat
    BY <1>1, SMT
  <1>3. PICK k \in Nat : FailLimit = n + 1 + k
    <2>1. FailLimit - (n + 1) \in Nat /\ FailLimit = n + 1 + (FailLimit - (n + 1))
      BY <1>1
    <2> QED BY <2>1
  <1>4. Drift * (n + 1 + k) = Drift * (n + 1) + Drift * k /\ Drift * k \in Nat
    BY <1>1, SMT
  <1>5. Drift * n + Drift <= Drift * FailLimit
    BY <1>1, <1>2, <1>3, <1>4
  <1> QED BY <1>1, <1>2, <1>5

LEMMA NearSum ==
  ASSUME NEW a \in Nat, NEW b \in Nat, NEW c \in Nat, NEW i \in Nat,
         NEW j \in Nat, NEW k \in Nat, i + j <= k,
         ~Far(a, b, i), ~Far(c, a, j)
  PROVE  ~Far(c, b, k)
  BY DEF Far

(* All variables keep their types, whatever the constants: in particular   *)
(* the re-synchronisation counter stays below its limit and the failure    *)
(* counter at its cap.                                                     *)
LEMMA TypePreserved ==
  ASSUME TypeOK, [Next]_vars
  PROVE  TypeOK'
  <1> USE InputAssumption DEF TypeOK, Bars
  <1> DEFINE T == /\ have_good \in BOOLEAN /\ sensor_ok \in BOOLEAN
                  /\ last_good \in Bars /\ use_bar \in Bars
                  /\ fails \in 0 .. FailCap
  <1>0. 0 \in Bars /\ T
    OBVIOUS
  <1>1. ASSUME NEW v \in Bars, debounce(TRUE, v) PROVE T'
    <2>1. fails' = 0 /\ last_good' = v /\ use_bar' = v
      BY <1>1 DEF debounce
    <2>2. have_good' \in BOOLEAN /\ sensor_ok' \in BOOLEAN
      BY <1>1, Zenon DEF debounce
    <2> QED BY <2>1, <2>2
  <1>a. ASSUME NEW v \in Bars, debounce(FALSE, v) PROVE T'
    <2>1. fails' \in 0 .. FailCap
      BY <1>0, <1>a DEF debounce
    <2>2. last_good' \in Bars
      BY <1>0, <1>a DEF debounce
    <2>3. use_bar' \in Bars
      BY <1>0, <1>a DEF debounce
    <2>4. have_good' \in BOOLEAN /\ sensor_ok' \in BOOLEAN
      BY <1>a, Zenon DEF debounce
    <2> QED BY <2>1, <2>2, <2>3, <2>4
  <1>2. ASSUME ReadOk PROVE TypeOK'
    <2>1. real' \in Bars
      BY <1>2 DEF ReadOk
    <2>2. misses' \in 0 .. FailLimit /\ steady' \in 0 .. ResyncN
      BY <1>2 DEF ReadOk, Up
    <2>3. CASE Plausible(real')
      BY <1>1, <2>1, <2>2, <2>3, 0 \in 0 .. ResyncN - 1 DEF Plausible
    <2>4. CASE Rejected(real')
      <3>1. next_pending(real') \in 1 .. ResyncN - 1
        BY <2>4 DEF Rejected, next_pending
      <3>2. T'
        BY <1>a, <2>1, <2>4 DEF Rejected
      <3>3. jump_pending' \in 0 .. ResyncN - 1 /\ jump_anchor' \in Bars
        BY <2>1, <2>4, <3>1 DEF Rejected
      <3> QED BY <2>1, <2>2, <3>2, <3>3
    <2>5. CASE Resync(real')
      <3>1. T'
        BY <1>1, <2>1, <2>5 DEF Resync
      <3>2. jump_pending' \in 0 .. ResyncN - 1 /\ jump_anchor' \in Bars
        BY <2>1, <2>5 DEF Resync
      <3> QED BY <2>1, <2>2, <3>1, <3>2
    <2> QED BY <1>2, <2>3, <2>4, <2>5 DEF ReadOk
  <1>3. ASSUME ReadFail PROVE TypeOK'
    <2>1. real' \in Bars
      BY <1>3 DEF ReadFail
    <2>2. misses' \in 0 .. FailLimit /\ steady' \in 0 .. ResyncN
      BY <1>3 DEF ReadFail, Up
    <2>3. T'
      BY <1>a, <1>3, <2>1 DEF ReadFail, Failed
    <2>4. jump_pending' = 0 /\ jump_anchor' = jump_anchor
      BY <1>3 DEF ReadFail, Failed
    <2> QED BY <2>1, <2>2, <2>3, <2>4
  <1>4. ASSUME Simulate PROVE TypeOK'
    <2>1. real' \in Bars /\ misses' = FailLimit /\ steady' = 0
      BY <1>4 DEF Simulate
    <2>2. PICK v \in SimValues : Simulated(v)
      BY <1>4 DEF Simulate
    <2>3. T'
      BY <1>1, <2>2 DEF Simulated
    <2>4. jump_pending' = 0 /\ jump_anchor' = jump_anchor
      BY <2>2 DEF Simulated
    <2> QED BY <2>1, <2>3, <2>4
  <1>5. CASE UNCHANGED vars
    BY <1>5 DEF vars
  <1> QED BY <1>2, <1>3, <1>4, <1>5 DEF Next

LEMMA InitTypes == Init => TypeOK
  <1> SUFFICES ASSUME Init PROVE TypeOK
    OBVIOUS
  <1>1. have_good \in BOOLEAN /\ sensor_ok \in BOOLEAN
    BY Zenon DEF Init
  <1>2. /\ last_good = 0 /\ jump_anchor = 0 /\ use_bar = 0 /\ jump_pending = 0
        /\ fails = 0 /\ misses = 0 /\ steady = 0 /\ real \in Bars
    BY DEF Init
  <1>3. /\ 0 \in Bars /\ 0 \in 0 .. ResyncN - 1 /\ 0 \in 0 .. FailCap
        /\ 0 \in 0 .. FailLimit /\ 0 \in 0 .. ResyncN
    BY InputAssumption DEF Bars
  <1> QED BY <1>1, <1>2, <1>3 DEF TypeOK

LEMMA InitInv == Init => IInv
  <1>1. Init => fails = misses /\ sensor_ok /\ ~have_good
    BY Zenon DEF Init
  <1> QED BY <1>1, InitTypes DEF IInv

LEMMA StepInv ==
  ASSUME Physical, IInv, [Next]_vars
  PROVE  IInv'
  <1> USE InputAssumption
  <1>0. TypeOK
    BY DEF IInv
  <1>1. TypeOK'
    BY <1>0, TypePreserved
  <1>2. misses \in 0 .. FailLimit /\ fails \in 0 .. FailCap /\ real \in Nat
        /\ last_good \in Nat /\ MaxJump \in Nat /\ Drift \in Nat
    BY <1>0 DEF TypeOK, Bars
  <1>3. ASSUME ReadOk PROVE IInv'
    <2>1. real' \in Nat /\ ~Far(real', real, Drift)
      BY <1>3 DEF ReadOk, Bars
    <2>2. ASSUME debounce(TRUE, real'), jump_pending' = 0 PROVE IInv'
      <3>1. fails' = 0 /\ last_good' = real' /\ sensor_ok'
        BY <2>2 DEF debounce
      <3>2. misses' = 0
        BY <1>3, <3>1 DEF ReadOk
      <3>3. Drift * misses' = 0
        BY <1>2, <3>2
      <3>4. ~Far(real', last_good', Drift * misses')
        BY <2>1, <3>1, <3>3 DEF Far
      <3> QED BY <1>1, <2>2, <3>1, <3>2, <3>4 DEF IInv
    <2>3. CASE Plausible(real')
      BY <2>2, <2>3 DEF Plausible
    <2>4. CASE Resync(real')
      BY <2>2, <2>4 DEF Resync
    <2>5. CASE Rejected(real')
      <3>1. CASE misses = FailLimit
        <4>1. fails' # 0
          BY <1>2, <2>5 DEF Rejected, debounce
        <4>2. misses' = FailLimit
          BY <1>3, <3>1, <4>1 DEF ReadOk
        <4> QED BY <1>1, <4>2 DEF IInv
      <3>2. CASE misses < FailLimit
        <4>1. ~Far(real, last_good, Drift * misses)
          BY <2>5, <3>2 DEF Rejected, IInv
        <4>2. Drift * misses \in Nat /\ Drift * misses + Drift <= Drift * FailLimit
          BY <1>2, <3>2, DriftStep
        <4>3. Drift * FailLimit \in Nat /\ Drift * FailLimit <= MaxJump
          BY <1>2 DEF Physical
        <4>4. Drift * misses + Drift <= MaxJump
          BY <1>2, <4>2, <4>3
        <4>5. ~Far(real', last_good, MaxJump)
          BY <1>2, <2>1, <4>1, <4>2, <4>4, NearSum
        <4> QED BY <2>5, <4>5 DEF Rejected
      <3> QED BY <1>2, <3>1, <3>2
    <2> QED BY <1>3, <2>3, <2>4, <2>5 DEF ReadOk
  <1>4. ASSUME ReadFail PROVE IInv'
    <2>1. real' \in Nat /\ ~Far(real', real, Drift)
      BY <1>4 DEF ReadFail, Bars
    <2>2. /\ jump_pending' = 0 /\ have_good' = have_good
          /\ last_good' = last_good
      BY <1>0, <1>4 DEF ReadFail, Failed, debounce, TypeOK
    <2>3. CASE misses' = FailLimit
      BY <1>1, <2>3 DEF IInv
    <2>4. CASE misses' # FailLimit
      <3>1. misses < FailLimit /\ misses' = misses + 1 /\ misses' < FailLimit
        BY <1>2, <1>4, <2>4 DEF ReadFail, Up
      <3>2. fails = misses
        BY <3>1 DEF IInv
      <3>3. fails' = misses' /\ sensor_ok'
        <4>1. fails' = fails + 1
          BY <1>2, <1>4, <3>1, <3>2 DEF ReadFail, Failed, debounce
        <4>2. sensor_ok' = (FALSE \/ fails' < FailLimit)
          BY <1>4 DEF ReadFail, Failed, debounce
        <4> QED BY <3>1, <3>2, <4>1, <4>2
      <3>4. ASSUME have_good PROVE ~Far(real', last_good, Drift * misses')
        <4>1. ~Far(real, last_good, Drift * misses)
          BY <3>1, <3>4 DEF IInv
        <4>2. Drift * misses \in Nat /\ Drift * misses' = Drift * misses + Drift
          BY <1>2, <3>1, DriftStep
        <4>3. Drift * misses' \in Nat /\ Drift * misses + Drift <= Drift * misses'
          BY <1>2, <4>2
        <4> QED BY <1>2, <2>1, <4>1, <4>2, <4>3, NearSum
      <3> QED BY <1>1, <2>2, <3>3, <3>4 DEF IInv
    <2> QED BY <2>3, <2>4
  <1>5. CASE Simulate
    <2>1. ~(misses' < FailLimit)
      BY <1>5 DEF Simulate
    <2> QED BY <1>1, <2>1 DEF IInv
  <1>6. CASE UNCHANGED vars
    <2>1. ~Far(real, last_good, Drift * misses)
            => ~Far(real', last_good', Drift * misses')
      BY <1>6 DEF vars, Far
    <2> QED BY <1>1, <1>6, <2>1 DEF vars, IInv
  <1> QED BY <1>3, <1>4, <1>5, <1>6 DEF Next

(* Type correctness of the input chain: a cycle can neither overflow the   *)
(* failure counter nor leave a completed re-synchronisation pending.       *)
THEOREM InputTypes == Spec => []TypeOK
  <1>1. Init => TypeOK
    BY InitTypes
  <1>2. TypeOK /\ [Next]_vars => TypeOK'
    BY TypePreserved
  <1> QED BY <1>1, <1>2, PTL DEF Spec

(* Fewer than FailLimit missed reads in a row never report a broken        *)
(* sensor, if the plant drifts by at most MaxJump during FailLimit cycles. *)
THEOREM Debounced == Physical => (Spec => []GlitchesTolerated)
  <1> SUFFICES ASSUME Physical PROVE Spec => []GlitchesTolerated
    OBVIOUS
  <1>1. Init => IInv
    BY InitInv
  <1>2. IInv /\ [Next]_vars => IInv'
    BY StepInv
  <1>3. IInv => GlitchesTolerated
    BY DEF IInv, GlitchesTolerated
  <1> QED BY <1>1, <1>2, <1>3, PTL DEF Spec

----------------------------------------------------------------------------
(* The strengthening behind LevelAdopted: while the level does not change, *)
(* it is already accepted, or each read of it counted towards the          *)
(* re-synchronisation, because the pending anchor is near it.              *)
Counted == jump_pending >= steady /\ ~Far(real, jump_anchor, Consist)
Adopted == sensor_ok /\ use_bar = real /\ last_good = real
SteadyInv == TypeOK /\ (steady > 0 => Adopted \/ Counted)

LEMMA NearSelf ==
  ASSUME NEW a \in Nat, NEW d \in Nat
  PROVE  ~Far(a, a, d)
  BY DEF Far

(* A good read of the true pressure adopts it or counts.                   *)
LEMMA ReadSettles ==
  ASSUME SteadyInv, TypeOK', ReadOk
  PROVE  Adopted' \/ Counted'
<1> USE InputAssumption DEF Bars
<1>1. CASE Plausible(real') \/ Resync(real')
  <2>1. debounce(TRUE, real')
    BY <1>1 DEF Plausible, Resync
  <2>2. sensor_ok' = TRUE
    BY <2>1, Zenon DEF debounce
  <2>3. use_bar' = real' /\ last_good' = real'
    BY <2>1 DEF debounce
  <2> QED
    BY <2>2, <2>3 DEF Adopted
<1>2. CASE Rejected(real')
  <2>1. /\ have_good /\ Far(real', last_good, MaxJump)
        /\ jump_pending' = next_pending(real')
        /\ jump_anchor' = IF next_pending(real') = 1 THEN real' ELSE jump_anchor
    BY <1>2 DEF Rejected
  <2>2. steady' = IF real' = real THEN Up(steady, ResyncN) ELSE 1
    BY DEF ReadOk
  <2>3. ~ Far(real', jump_anchor', Consist)
    <3>1. CASE next_pending(real') = 1
      <4>1. jump_anchor' = real' /\ real' \in Nat
        BY <2>1, <3>1 DEF TypeOK
      <4> QED
        BY <4>1, NearSelf
    <3>2. CASE next_pending(real') # 1
      <4>1. jump_anchor' = jump_anchor /\ ~ Far(real', jump_anchor, Consist)
        BY <2>1, <3>2 DEF next_pending
      <4> QED
        BY <4>1
    <3> QED
      BY <3>1, <3>2
  <2>4. steady' <= jump_pending'
    <3>1. CASE real' = real /\ steady > 0
      <4>1. ~ Adopted
        BY <2>1, <3>1 DEF Adopted, Far, TypeOK, SteadyInv
      <4>2. Counted
        BY <3>1, <4>1 DEF SteadyInv
      <4> QED
        BY <2>1, <2>2, <3>1, <4>2
           DEF Counted, next_pending, Up, TypeOK, SteadyInv
    <3>2. CASE ~ (real' = real /\ steady > 0)
      BY <2>1, <2>2, <3>2 DEF next_pending, Up, TypeOK, SteadyInv
    <3> QED
      BY <3>1, <3>2
  <2> QED
    BY <2>3, <2>4 DEF Counted, TypeOK
<1> QED
  BY <1>1, <1>2 DEF ReadOk

(* Every cycle keeps SteadyInv.                                            *)
LEMMA StepSteady ==
  ASSUME SteadyInv, [Next]_vars
  PROVE  SteadyInv'
<1>1. TypeOK'
  BY TypePreserved DEF SteadyInv
<1>2. CASE ReadOk
  BY <1>1, <1>2, ReadSettles DEF SteadyInv
<1>3. CASE ReadFail \/ Simulate
  <2>1. steady' = 0
    BY <1>3 DEF ReadFail, Simulate
  <2> QED
    BY <1>1, <2>1 DEF SteadyInv
<1>4. CASE UNCHANGED vars
  BY <1>1, <1>4 DEF vars, SteadyInv, Adopted, Counted, Far
<1> QED
  BY <1>2, <1>3, <1>4 DEF Next

(* The jump filter cannot get stuck: PUMP_JUMP_RESYNC_N good reads of one  *)
(* level make the pump manager work with it, whatever anchor was pending   *)
(* and however far the level is from the last accepted one.                *)
THEOREM FilterNeverSticks == Spec => []LevelAdopted
<1>1. Init => SteadyInv
  <2> SUFFICES ASSUME Init PROVE SteadyInv
    OBVIOUS
  <2>1. steady = 0
    BY DEF Init
  <2> QED
    BY <2>1, InitTypes DEF SteadyInv
<1>2. SteadyInv /\ [Next]_vars => SteadyInv'
  BY StepSteady
<1>3. SteadyInv => LevelAdopted
  <2> SUFFICES ASSUME SteadyInv, steady = ResyncN
               PROVE  sensor_ok /\ use_bar = real
    BY DEF LevelAdopted
  <2>1. steady > 0 /\ ~ Counted
    BY InputAssumption DEF SteadyInv, TypeOK, Counted
  <2> QED
    BY <2>1 DEF SteadyInv, Adopted
<1> QED
  BY <1>1, <1>2, <1>3, PTL DEF Spec
=============================================================================
